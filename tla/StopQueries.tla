----------------------------- MODULE StopQueries -----------------------------
(***************************************************************************)
(* What the stops and routes services answer from the tables of one        *)
(* agency, and what the pages of the frontend make of it: the search, the  *)
(* stops around a place, the stops whose trains a stop's board shows, the  *)
(* list of routes, the branches of a route and its page.                   *)
(*                                                                         *)
(* db is what buildDerivedTables returns.  Texts to search for are sets of *)
(* names; places are on a line.                                            *)
(***************************************************************************)
EXTENDS GtfsTables

RoutesOf(db, stop) == {x.route : x \in {y \in db.route_stops : y.stop = stop}}

\* COALESCE(colocated_group_id, stop_id).
GroupOf(db, stop) == IF stop \in DOMAIN db.group THEN db.group[stop] ELSE stop

\* The rows of a page of results are merged group by group, in the order of the
\* first of each: an entry is that one, with the routes of all.
Merged(db, rows) ==
    LET Id(i)     == GroupOf(db, rows[i].id)
        IsFirst(i) == \A j \in 1 .. i - 1 : Id(j) # Id(i)
        Entry(i)  ==
            [stop    |-> rows[i].id,
             members |-> {rows[j].id : j \in {k \in DOMAIN rows : Id(k) = Id(i)}},
             routes  |-> UNION {RoutesOf(db, rows[j].id) : j \in {k \in DOMAIN rows : Id(k) = Id(i)}}]
        firsts    == Filter([i \in DOMAIN rows |-> i], {i \in DOMAIN rows : IsFirst(i)})
    IN  [k \in DOMAIN firsts |-> Entry(firsts[k])]

TypesOf(db, entry) == {r.type : r \in {x \in db.routes : x.id \in entry.routes}}

searchResultPriority(types) ==
    CASE 1 \in types -> 0
      [] 0 \in types -> 1
      [] 2 \in types -> 2
      [] 4 \in types -> 3
      [] OTHER -> 4

\* A stable sort.
ByPriority(db, entries) ==
    LET Of(p) == Filter(entries, {e \in ToSet(entries) : searchResultPriority(TypesOf(db, e)) = p})
    IN  Of(0) \o Of(1) \o Of(2) \o Of(3) \o Of(4)

\* order: all stops as the database returns them, sorted by name.  Stops of one name
\* are in the order of this query, so the pages of a search may disagree on it.
search(db, order, names, limit, offset) ==
    LET hits == Filter(order, {s \in ToSet(order) : s.parent = Null /\ s.name \in names})
        page == SubSeq(hits, offset + 1, IF offset + limit < Len(hits) THEN offset + limit ELSE Len(hits))
    IN  [data |-> ByPriority(db, Merged(db, page)), total |-> IF page = <<>> THEN 0 ELSE Len(hits)]
----------------------------------------------------------------------------
\* Children of a station that any route serves.
Platforms(db, station) == {s.id : s \in {x \in db.stops : x.parent = station /\ RoutesOf(db, x.id) # {}}}

StopRow(db, stop) == {s \in db.stops : s.id = stop}

\* The station of a platform, else Null; of a stop that is not in the table too.
ParentOf(db, stop) == IF StopRow(db, stop) = {} THEN Null ELSE (CHOOSE s \in StopRow(db, stop) : TRUE).parent

\* Faulty variant: the other members of a group are those that it was begun with.
GroupOfLeader(db, stop) ==
    LET parent == ParentOf(db, stop)
    IN  CASE parent # Null /\ Platforms(db, parent) # {} -> Platforms(db, parent)
          [] parent # Null /\ Platforms(db, parent) = {} -> {stop}
          [] parent = Null /\ Platforms(db, stop) # {} -> Platforms(db, stop)
          [] OTHER -> {stop} \cup {s \in DOMAIN db.group : db.group[s] = stop}

\* The stops whose trains the board of a stop shows: the platforms of its station,
\* its own platforms, else the stops of its group.
effectiveStopIds(db, stop) ==
    LET parent == ParentOf(db, stop)
    IN  CASE parent # Null /\ Platforms(db, parent) # {} -> Platforms(db, parent)
          [] parent # Null /\ Platforms(db, parent) = {} -> {stop}
          [] parent = Null /\ Platforms(db, stop) # {} -> Platforms(db, stop)
          [] OTHER -> {stop} \cup {s \in DOMAIN db.group : GroupOf(db, s) = GroupOf(db, stop)}
----------------------------------------------------------------------------
\* Faulty variant: a station's platforms are forgotten.
StopOnly(db, stop) == {stop}

\* The stops whose rows make up the next train of a stop: itself and its children.
expanded_stops(db, stop) == {x.id : x \in {y \in db.stops : y.id = stop \/ y.parent = stop}}

\* The stops around a place; of an entry the stops, too, of which it shows the first
\* train of all.  order: all stops, nearest first.
getNearbyStops(db, order, centre, radius, limit) ==
    LET hits == Filter(order, {s \in ToSet(order) : s.at - centre \in -radius .. radius})
        rows == SubSeq(hits, 1, IF limit < Len(hits) THEN limit ELSE Len(hits))
        entries == Merged(db, rows)
    IN  [k \in DOMAIN entries |->
            [entry |-> entries[k], trainsOf |-> UNION {expanded_stops(db, m) : m \in entries[k].members}]]
----------------------------------------------------------------------------
\* Names are "plain", "shuttle" or Null: NULL NOT ILIKE is neither true nor false,
\* so a route without a name is listed if it has stop times.
Listed(db) == {r \in db.routes : r.name = "plain" \/ r.id \in db.has_stop_times}

\* The stops of a trip that are in the table, in order.
StopsOfTrip(db, trip) ==
    LET rows == {st \in db.stop_times : st.trip = trip /\ StopRow(db, st.stop) # {}}
        Before(st) == {o.seq : o \in {x \in rows : x.seq < st.seq}}
        Nth(k) == CHOOSE st \in rows : Cardinality(Before(st)) = k - 1
    IN  [k \in 1 .. Cardinality({st.seq : st \in rows}) |-> Nth(k).stop]

\* The branches of a route as the database returns them, longest first.
BranchReps(db, route) ==
    {sorted \in SetToSeqs({b \in db.route_branches : b.route = route}) :
        \A i, j \in DOMAIN sorted : i < j => sorted[i].stop_count >= sorted[j].stop_count}

\* The branches of a route; NotFound without one.  The query that stands in for an
\* empty route_branches finds a branch only of a route that has one there too.
NotFound == <<>>

findOne(db, route, sorted) ==
    IF \A r \in db.routes : r.id # route THEN NotFound
    ELSE [k \in DOMAIN sorted |-> [label |-> sorted[k].headsign, directionId |-> sorted[k].direction,
                                   stops |-> StopsOfTrip(db, sorted[k].trip)]]

\* The shape of the longest branch that has one; none of fewer than two points.
getShape(db, route) ==
    LET withShape == {b \in db.route_branches : b.route = route /\ b.shape # Null}
        longest   == {b \in withShape : \A o \in withShape : b.stop_count >= o.stop_count}
        Points(b) == {p \in db.shapes : p.shape = b.shape}
    IN  {Points(b) : b \in {x \in longest : Cardinality(Points(x)) >= 2}}
----------------------------------------------------------------------------
\* Faulty variant: short turns have no section.
FullOnly(outbound, full) == full

\* Sections of the page: short turns do not shrink the trunk, but have theirs.
SectionsOf(outbound, full) == outbound

(***************************************************************************)
(* The page of a route: of several branches of direction 0 a trunk, the    *)
(* names common to those of at least three quarters of the longest, and    *)
(* the rest of each; else one of the branches.                             *)
(***************************************************************************)
RoutePage(db, branches) ==
    LET NameOf(s)  == (CHOOSE x \in StopRow(db, s) : TRUE).name
        StopNames(b) == {NameOf(s) : s \in ToSet(b.stops)}
        outbound   == {i \in DOMAIN branches : branches[i].directionId = 0}
        Len_(i)    == Len(branches[i].stops)
        full       == {i \in outbound : \A j \in outbound : 4 * Len_(i) >= 3 * Len_(j)}
        trunkOf    == IF Cardinality(full) >= 2 THEN full ELSE outbound
        trunk      == {n \in UNION {StopNames(branches[i]) : i \in outbound} :
                          \A i \in trunkOf : n \in StopNames(branches[i])}
        longest    == CHOOSE i \in trunkOf : \A j \in trunkOf : Len_(i) > Len_(j) \/ (Len_(i) = Len_(j) /\ i <= j)
        first      == CHOOSE i \in DOMAIN branches : \A j \in DOMAIN branches :
                          Len_(i) > Len_(j) \/ (Len_(i) = Len_(j) /\ i <= j)
        only       == IF outbound = {} THEN first ELSE CHOOSE i \in outbound : TRUE
    IN  IF Cardinality(outbound) >= 2
        THEN [shared   |-> Filter(branches[longest].stops, {s \in ToSet(branches[longest].stops) : NameOf(s) \in trunk}),
              sections |-> [i \in SectionsOf(outbound, full) |->
                          Filter(branches[i].stops, {s \in ToSet(branches[i].stops) : NameOf(s) \notin trunk})]]
        ELSE [shared   |-> IF branches = <<>> THEN <<>> ELSE branches[only].stops,
              sections |-> [i \in {} |-> <<>>]]
=============================================================================
