-------------------------------- MODULE MCRules --------------------------------
(***************************************************************************)
(* The rules over small feeds of four kinds.                               *)
(***************************************************************************)
EXTENDS Rules

CONSTANTS r1, r2, service, h1, h2, shape

\* trips: a sequence of [route, direction, headsign, stops]
Files(trips, stops) ==
    [routes |-> {[route_id |-> r, route_short_name |-> IF r = r1 THEN Blank ELSE "shuttle",
                  route_type |-> IF r = r1 THEN 0 ELSE 1] : r \in {r1, r2}},
     trips |-> {[trip_id |-> i, route_id |-> trips[i].route, service_id |-> service,
                 trip_headsign |-> trips[i].headsign, direction_id |-> trips[i].direction,
                 shape_id |-> IF i = 1 THEN shape ELSE Blank] : i \in DOMAIN trips},
     stops |-> {[stop_id |-> s, stop_name |-> stops[s].name, stop_lat_lon |-> stops[s].at,
                 parent_station |-> stops[s].parent] : s \in DOMAIN stops},
     stop_times |->
        UNION {{[trip_id |-> i, stop_id |-> trips[i].stops[k], stop_sequence |-> k - 1,
                 arrival_time |-> IF k = 1 THEN Blank ELSE k, departure_time |-> k] :
                     k \in DOMAIN trips[i].stops} : i \in DOMAIN trips},
     shapes |-> {[shape_id |-> shape, shape_pt_sequence |-> k, shape_pt_lat_lon |-> k] : k \in 0 .. 2}]

At(name, at, parent) == [name |-> name, at |-> at, parent |-> parent]
Trip(route, direction, headsign, stops) ==
    [route |-> route, direction |-> direction, headsign |-> headsign, stops |-> stops]
InOrder(S) == SetToSortSeq(S, <)

\* Stop 1 is a station with the platforms 4 and 5, where the trips stop, or a stop
\* like 2 and 3; its row may be malformed.  1, 2 and perhaps 3 have one name; 1 and
\* 3 are too far apart.
Stations == [s \in 1 .. 5 |-> IF s > 3 THEN 1 ELSE Blank]
Curbs    == [s \in 1 .. 3 |-> Blank]

MCStopCases ==
    UNION {{[kind |-> "stops",
             files |-> Files(<<Trip(r1, 0, h1, InOrder(x)), Trip(r, 1, h1, InOrder(y))>>,
                             [s \in DOMAIN parents |->
                                CASE s = 1 -> At(1, at, parents[s])
                                  [] s = 3 -> At(name, 2, parents[s])
                                  [] OTHER -> At(1, 1, parents[s])])] :
              <<x, y, r, at, name>> \in (SUBSET visited \ {{}}) \X (SUBSET visited \ {{}})
                                         \X {r1, r2} \X {0, Malformed} \X {1, 2}} :
           <<parents, visited>> \in {<<Stations, 2 .. 5>>, <<Curbs, 1 .. 3>>}}

\* Three trips of one route: branches, short turns, two directions.
Lines == {<<1>>, <<1, 2>>, <<1, 2, 3>>, <<1, 2, 3, 4>>, <<1, 2, 5>>, <<3, 2, 1>>, <<2, 3>>}

MCRouteCases ==
    {[kind |-> "route",
      files |-> Files(<<Trip(r1, 0, h1, x[1]), Trip(r1, x[4], h1, x[2]), Trip(r1, 0, x[5], x[3])>>,
                      [s \in 1 .. 5 |-> At(IF s = 5 THEN 4 ELSE s, IF s = 2 THEN x[6] ELSE s, Blank)])] :
        x \in Lines \X Lines \X Lines \X {0, 1, Blank} \X {h1, h2} \X {2, Malformed}}

\* A calendar, an exception, and a day on which the clocks change.
Week(days) == [d \in Day |-> IF d \in days THEN 1 ELSE 0]

MCDayCases ==
    {[kind |-> "day",
      calendar |-> {[service_id |-> service, days |-> Week(x[1]), start_date |-> x[2], end_date |-> LastDate]},
      calendar_dates |-> x[3],
      length |-> [d \in Date |-> IF d = x[4] THEN x[5] ELSE 48]] :
        x \in {1 .. 5, {6, 7}, Day} \X {1, 4, Malformed}
              \X {{}, {[service_id |-> service, date |-> 6, exception_type |-> 1]},
                      {[service_id |-> service, date |-> 4, exception_type |-> 2]},
                      {[service_id |-> service, date |-> 4, exception_type |-> 3]}}
              \X (3 .. 6) \X {46, 48, 50}}

\* An alert with one or two informed entities, its texts in several languages.
Informed == [routeId : {Null, r1}, stopId : {Null, 1, 2, 4}, tripId : {Null, 1}]
Word(w, languages) == [k \in DOMAIN languages |-> [text |-> IF languages[k] = "fr" THEN "FR" ELSE w,
                                                   language |-> languages[k]]]
Tongues == {<<"fr", "en">>, <<"fr", "en-US">>, <<Null, "fr">>}

MCAlertCases ==
    {[kind |-> "alert",
      files |-> Files(<<Trip(r1, 0, h1, <<2, 4>>), Trip(r2, 0, h1, <<5>>)>>,
                      [s \in 1 .. 5 |-> At(s, s, Stations[s])]),
      lookup |-> x[5],
      feed |-> <<[id |-> 1, deleted |-> FALSE, entities |-> {x[1], x[2]}, header |-> Word("EN", x[3]),
                  detail |-> Word("DELAY", x[3]), effect |-> "OTHER_EFFECT", severity |-> Null,
                  periods |-> {[start |-> Null, end |-> 5], [start |-> 7, end |-> Null]}, torn |-> FALSE],
                 [id |-> 2, deleted |-> x[4], entities |-> {x[2]}, header |-> <<>>, detail |-> <<>>,
                  effect |-> "DETOUR", severity |-> Null, periods |-> {}, torn |-> x[4]]>>] :
        x \in Informed \X Informed \X Tongues \X BOOLEAN \X BOOLEAN}

MCStarts == {0, 1, 2, 3, 20, 60, 88} \cup (44 .. 50)
=============================================================================
