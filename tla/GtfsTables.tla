------------------------------ MODULE GtfsTables ------------------------------
(***************************************************************************)
(* What a load makes of the files of a GTFS feed: the rows that the staged *)
(* tables keep, and the tables that are derived from them.  StaticLoad     *)
(* models how both get into the live tables.                               *)
(*                                                                         *)
(* A file is a set of rows, a row a record of cells.  A cell is Blank, is  *)
(* Malformed (a number, time, date or coordinate that its parser refuses)  *)
(* or holds a value.  A table is a set of rows whose cells may be Null.    *)
(***************************************************************************)
EXTENDS Integers, FiniteSets, Sequences, SequencesExt, Functions

CONSTANTS
    Blank, Malformed,  \* cells
    Null               \* SQL NULL

ASSUME CellAssumption == Blank # Malformed /\ Null \notin {Blank, Malformed}

Day == 1 .. 7  \* monday .. sunday

\* text(): Blank is NULL, whatever else is kept.
text(cell) == IF cell = Blank THEN Null ELSE cell

\* optionalInt, optionalTime, point and the checks of dates: the value, Null of a
\* blank cell; a row with a malformed one is dropped.
Sound(cells) == Malformed \notin cells
\* Faulty variant: the number zero is taken for an absent one.
GivenNotZero(cells) == Blank \notin cells /\ Malformed \notin cells /\ 0 \notin cells

Given(cells) == Blank \notin cells /\ Malformed \notin cells

----------------------------------------------------------------------------
(***************************************************************************)
(* The TableSpecs of gtfs-rows.ts: the rows that toRow does not drop.      *)
(***************************************************************************)
ROUTES(file) ==
    {[id |-> r.route_id, name |-> text(r.route_short_name), type |-> r.route_type] :
        r \in {x \in file : Given({x.route_id, x.route_type})}}

TRIPS(file) ==
    {[id |-> t.trip_id, route |-> t.route_id, service |-> t.service_id,
      headsign |-> text(t.trip_headsign), direction |-> text(t.direction_id),
      shape |-> text(t.shape_id)] :
        t \in {x \in file : Given({x.trip_id, x.route_id, x.service_id}) /\ Sound({x.direction_id})}}

\* A stop without coordinates is dropped; one without a name is not.
STOPS(file) ==
    {[id |-> s.stop_id, name |-> text(s.stop_name), at |-> s.stop_lat_lon,
      parent |-> text(s.parent_station)] :
        s \in {x \in file : Given({x.stop_id, x.stop_lat_lon})}}

CALENDARS(file) ==
    {[service |-> c.service_id, days |-> {d \in Day : c.days[d] = 1},
      start |-> c.start_date, end |-> c.end_date] :
        c \in {x \in file : Given({x.service_id, x.start_date, x.end_date})}}

CALENDAR_DATES(file) ==
    {[service |-> c.service_id, date |-> c.date, type |-> c.exception_type] :
        c \in {x \in file : Given({x.service_id, x.date}) /\ x.exception_type \in {1, 2}}}

STOP_TIMES(file) ==
    {[trip |-> s.trip_id, stop |-> s.stop_id, seq |-> s.stop_sequence,
      arrival |-> text(s.arrival_time), departure |-> text(s.departure_time)] :
        s \in {x \in file : /\ Given({x.trip_id, x.stop_id, x.stop_sequence})
                            /\ Sound({x.arrival_time, x.departure_time})}}

SHAPES(file) ==
    {[shape |-> s.shape_id, seq |-> s.shape_pt_sequence, at |-> s.shape_pt_lat_lon] :
        s \in {x \in file : Given({x.shape_id, x.shape_pt_sequence, x.shape_pt_lat_lon})}}

STAGED_TABLES(files) ==
    [routes     |-> ROUTES(files.routes),
     trips      |-> TRIPS(files.trips),
     stops      |-> STOPS(files.stops),
     stop_times |-> STOP_TIMES(files.stop_times),
     shapes     |-> SHAPES(files.shapes)]
----------------------------------------------------------------------------
(***************************************************************************)
(* buildDerivedTables.                                                     *)
(***************************************************************************)
\* stop_times JOIN trips.
Served(stage) ==
    UNION {{[stop |-> st.stop, route |-> t.route] : t \in {x \in stage.trips : x.id = st.trip}} :
             st \in stage.stop_times}

\* Faulty variant: a station has no routes of its own.
RouteStopsOnly(stage) == {x \in Served(stage) : \E r \in stage.routes : r.id = x.route}

\* Every stop, and its parent station, with the routes that serve it.
RouteStops(stage) ==
    LET served == Served(stage)
        above  == UNION {{[stop |-> s.parent, route |-> x.route] : x \in {y \in served : y.stop = s.id}} :
                           s \in {y \in stage.stops : y.parent # Null}}
    IN  {x \in served \cup above : \E r \in stage.routes : r.id = x.route}

StopCount(stage, t) == Cardinality({st \in stage.stop_times : st.trip = t.id})

----------------------------------------------------------------------------
\* SelectSeq, by a set.
Filter(seq, S) ==
    LET kept[i \in 0 .. Len(seq)] ==
            IF i = 0 THEN <<>>
            ELSE IF seq[i] \in S THEN Append(kept[i - 1], seq[i]) ELSE kept[i - 1]
    IN  kept[Len(seq)]

\* Places are on a line, in units of the merge radius.
Near(s, o) == s.at - o.at \in -1 .. 1

\* Whoever of the stops can still join the group that s begins.
Joins(stops, routesOf, groups, s) ==
    {o.id : o \in {x \in stops : /\ x.id \notin DOMAIN groups
                                /\ x.name = s.name
                                /\ Near(s, x)
                                /\ routesOf[s.id] \cap routesOf[x.id] # {}}}

Begin(stops, routesOf, groups, s) ==
    IF s.id \in DOMAIN groups THEN groups
    ELSE LET ids == {s.id} \cup Joins(stops, routesOf, groups, s)
         IN  [x \in DOMAIN groups \cup ids |-> IF x \in ids THEN s.id ELSE groups[x]]

\* Greedy over the scan order of the stops; a group is of the stop that began it,
\* and near means near that one.  A stop on its own is in no group.
colocatedGroups(order, routesOf) ==
    LET groups[i \in 0 .. Len(order)] ==
            IF i = 0 THEN <<>> ELSE Begin(ToSet(order), routesOf, groups[i - 1], order[i])
        first == groups[Len(order)]
        Alone(x) == \A y \in DOMAIN first : first[y] = first[x] => y = x
    IN  Restrict(first, {x \in DOMAIN first : ~Alone(x)})

\* Faulty variant: half of the longest trip of the same headsign.
RouteBranchesLongest(stage) ==
    LET count == [t \in stage.trips |-> StopCount(stage, t)]
        first == {t \in stage.trips : \A o \in stage.trips :
                    o.route = t.route => count[t] > count[o] \/ (count[t] = count[o] /\ t.id <= o.id)}
    IN  {[trip |-> t.id, route |-> t.route, direction |-> t.direction,
          headsign |-> t.headsign, shape |-> t.shape, stop_count |-> count[t]] : t \in first}

\* A representative trip per route, direction and headsign: the longest one of at
\* least half the stops of the route's longest, of these the one of the lowest id.
RouteBranches(stage) ==
    LET count == [t \in stage.trips |-> StopCount(stage, t)]
        run   == {t \in stage.trips : count[t] > 0}
        full  == {t \in run : \A o \in run : o.route = t.route => 2 * count[t] >= count[o]}
        Alike(t, o)  == <<t.route, t.direction, t.headsign>> = <<o.route, o.direction, o.headsign>>
        Before(t, o) == count[t] > count[o] \/ (count[t] = count[o] /\ t.id <= o.id)
    IN  {[trip |-> t.id, route |-> t.route, direction |-> t.direction,
          headsign |-> t.headsign, shape |-> t.shape, stop_count |-> count[t]] :
            t \in {x \in full : \A o \in full : Alike(x, o) => Before(x, o)}}

HasStopTimes(stage) == {t.route : t \in {x \in stage.trips : StopCount(stage, x) > 0}}

\* The live tables after a swap; the scan order of the stops is the database's choice.
buildDerivedTables(stage, order) ==
    LET route_stops == RouteStops(stage)
        routesOf == [s \in {x.id : x \in stage.stops} |-> {x.route : x \in {y \in route_stops : y.stop = s}}]
    IN  [routes         |-> stage.routes,
         trips          |-> stage.trips,
         stops          |-> stage.stops,
         stop_times     |-> stage.stop_times,
         shapes         |-> stage.shapes,
         route_stops    |-> route_stops,
         route_branches |-> RouteBranches(stage),
         has_stop_times |-> HasStopTimes(stage),
         group          |-> colocatedGroups(order, routesOf)]
=============================================================================
