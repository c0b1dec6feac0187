-------------------------------- MODULE Trains --------------------------------
(***************************************************************************)
(* What arrivals are about: the trains that run, the schedule they have in *)
(* static GTFS, and the TripUpdates feed an agency makes of them.  A train *)
(* keeps its delay, so where it is and what it leaves when follows from    *)
(* the time; how it is published is its agency's style.                    *)
(***************************************************************************)
EXTENDS StopBoard

CONSTANTS
    Run,        \* the trains
    Trip,       \* Trip[r]: its trip_id
    Date,       \* Date[r]: its service day
    NewId,      \* NewId[r]: the trip_id it has when it is published as an added one
    Timetable,  \* Timetable[trip]: its stops, each [stop, arr, dep, pickup]
    Line,       \* Line[trip]
    DayStart,   \* DayStart[date]: what the times of a service day count from
    InService,  \* the trains that are in static GTFS
    Platform    \* Platform[s]: the child platform that a feed may name for stop s

\* How a train is published: with all times, without a start date, with arrivals
\* or departures only, with a delay at its next stop only, by platforms without a sequence,
\* without data, skipping the board's stops, as canceled, as an added trip, under
\* a trip_id that static GTFS does not have, as a copy of a static trip, not at all.
Style == {"times", "dateless", "arrivals", "departures", "delays", "platforms", "nodata",
          "skipping", "canceled", "added", "renamed", "copy", "silent"}

Plan == [style : Style, delay : Int]

\* A stop with the times that it has in the timetable, from the start of the day.
StopTime == [stop : DOMAIN Platform, arr : Int \cup {None}, dep : Int \cup {None}, pickup : BOOLEAN]

Stops(r) == Timetable[Trip[r]]

OnDay(r, time) == IF time = None THEN None ELSE DayStart[Date[r]] + time

Arr(r, k) == OnDay(r, Stops(r)[k].arr)
Dep(r, k) == OnDay(r, Stops(r)[k].dep)

\* The time a rider is shown, and the one at which it is too late.
Due(r, k)   == Or(Arr(r, k), Dep(r, k))
Until(r, k) == Or(Dep(r, k), Arr(r, k))

\* A trip and a service day make one train of static GTFS, and an id that is new is no
\* one else's.  The stops of a trip have a time, and a train leaves one no earlier than
\* it comes there and no later than it comes to the next.  What a feed may name for a
\* stop is the stop or a platform of its station.
ASSUME TrainsAssumption ==
    /\ IsFiniteSet(Run) /\ InService \subseteq Run
    /\ Trip \in [Run -> Int] /\ NewId \in [Run -> Int]
    /\ \A r, q \in InService : Trip[r] = Trip[q] /\ Date[r] = Date[q] => r = q
    /\ \A r, q \in Run : NewId[r] # Trip[q] /\ (NewId[r] = NewId[q] => r = q)
    /\ \A r \in Run :
          /\ Date[r] # None /\ Line[Trip[r]] # None /\ DayStart[Date[r]] \in Int
          /\ Stops(r) \in Seq(StopTime)
          /\ \A k \in DOMAIN Stops(r) :
                /\ Stops(r)[k].arr # None \/ Stops(r)[k].dep # None
                /\ Due(r, k) <= Until(r, k)
                /\ \A j \in 1 .. k - 1 : Until(r, j) <= Due(r, k)
    /\ \A s \in DOMAIN Platform :
          /\ s # None /\ Platform[s] # None
          /\ Platform[s] = s \/ (Parent(s) # None /\ Parent(Platform[s]) = Parent(s))

\* The stops that a timetable or a feed may name.
Named == DOMAIN Platform \cup {Platform[s] : s \in DOMAIN Platform}

\* The board of a stop with a station is that of the station: the stops of it that trains
\* use.  No train stops at a station but at one of its stops.
ASSUME BoardAssumption ==
    /\ None \notin Stations
    /\ \A s \in Named : s \notin Stations /\ (s \in BoardStops => Parent(s) \in Stations \cup {None})
    /\ \A s \in DOMAIN Platform : Parent(s) \in Stations => s \in BoardStops

\* The stops that a train has ahead of it.
Ahead(plan, r, time) == {k \in DOMAIN Stops(r) : Until(r, k) + plan[r].delay >= time}

StaticTrips == [trip \in {Trip[r] : r \in InService} |-> Line[trip]]

\* What the parser keeps of a stop and of a trip.
RealtimeStop ==
    [seq  : Int \cup {None}, stop : Named,
     arr  : Int \cup {None}, dep : Int \cup {None}, delay : Int \cup {None}, skipped : BOOLEAN]

RealtimeTrip ==
    [trip : Int, line : {Line[Trip[r]] : r \in Run} \cup {None},
     date : {Date[r] : r \in Run} \cup {None}, canceled : BOOLEAN, stops : Seq(RealtimeStop)]

ASSUME NoneAssumption == None \notin Int \cup RealtimeStop \cup RealtimeTrip \cup {StaticTrips}
----------------------------------------------------------------------------
Relationship(plan, r, k) ==
    CASE plan[r].style = "nodata" -> "NO_DATA"
      [] plan[r].style = "skipping" /\ Stops(r)[k].stop \in BoardStops -> "SKIPPED"
      [] OTHER -> "SCHEDULED"

Predict(plan, r, time) == IF time = None THEN None ELSE time + plan[r].delay

Update(plan, r, k) ==
    LET style == plan[r].style
        ByPlatform == style \in {"platforms", "added"}
    IN  [seq   |-> IF style = "platforms" THEN None ELSE k,
         stop  |-> IF ByPlatform THEN Platform[Stops(r)[k].stop] ELSE Stops(r)[k].stop,
         rel   |-> Relationship(plan, r, k),
         arr   |-> IF style = "delays" \/ (style = "departures" /\ Dep(r, k) # None)
                   THEN None ELSE Predict(plan, r, Arr(r, k)),
         dep   |-> IF style = "delays" \/ (style = "arrivals" /\ Arr(r, k) # None)
                   THEN None ELSE Predict(plan, r, Dep(r, k)),
         delay |-> IF style = "delays" THEN plan[r].delay ELSE None]

Updates(plan, r, time) ==
    LET ahead == Ahead(plan, r, time)
        first == CHOOSE k \in ahead : \A j \in ahead : k <= j
        count == IF plan[r].style = "delays" THEN 1 ELSE Cardinality(ahead)
    IN  [i \in 1 .. count |-> Update(plan, r, first + i - 1)]

Entity(plan, r, time) ==
    LET style == plan[r].style
    IN  [isDeleted |-> FALSE,
         trip      |-> IF style \in {"added", "renamed"} THEN NewId[r] ELSE Trip[r],
         line      |-> IF style = "copy" THEN None ELSE Line[Trip[r]],
         date      |-> IF style = "dateless" THEN None ELSE Date[r],
         start     |-> r,
         rel       |-> CASE style = "canceled" -> "CANCELED"
                         [] style = "added" -> "ADDED"
                         [] style = "copy" -> "DUPLICATED"
                         [] OTHER -> "SCHEDULED",
         updates   |-> Updates(plan, r, time)]

\* The feed of a moment: trains that have stops ahead of them.
Feed(plan, time) ==
    {Entity(plan, r, time) :
        r \in {q \in Run : plan[q].style # "silent" /\ Ahead(plan, q, time) # {}}}
=============================================================================
