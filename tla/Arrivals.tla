------------------------------- MODULE Arrivals -------------------------------
(***************************************************************************)
(* One request after the other, for the board of a stop (getArrivals of    *)
(* StopsService) or for its next train alone (batchGetNextArrivals, of a   *)
(* request for the stops around a place), beside the worker that replaces  *)
(* the TripUpdates in Redis and the trains that move.                      *)
(* The reads of a request are commands of their own; what the worker does  *)
(* between them is seen by the later ones only.                            *)
(*                                                                         *)
(* Redis holds what the parser made of the feed of some moment, with or    *)
(* without a static lookup; a reader sees both hashes of it (RealtimeFeed  *)
(* is about how they get there).                                           *)
(***************************************************************************)
EXTENDS Trains

CONSTANTS
    Plans,       \* how the trains may run: functions from Run to Plan
    After,       \* the values of the parameter "after"; None: from now on
    Grace,       \* ARRIVAL_PAST_GRACE_S
    LateWindow,  \* ARRIVALS_LATE_WINDOW_S
    Limit,       \* of a board: cappedLimit
    NearbyLate, NearbyUpcoming,  \* rows per platform that a next train is looked for in
    Ttl,         \* TRIP_UPDATE_CACHE_TTL_S
    Horizon      \* bound: the clock stops here

ASSUME ArrivalsAssumption ==
    /\ After \subseteq Int \cup {None}
    /\ Grace \in Nat /\ LateWindow \in Nat /\ ReconcileWindow \in Nat
    /\ Limit \in Nat \ {0} /\ {NearbyLate, NearbyUpcoming} \subseteq Nat
    /\ Ttl \in Nat \ {0} /\ Horizon \in Nat

\* A train that static GTFS does not have is published as one that was added, and what is
\* copied is in static GTFS.  A feed leaves out the start date only of a trip that runs on
\* one day, and the sequence only of a trip that is at the board once, and nowhere else
\* where it may be taken for it: without sequences the code cannot tell which of two
\* visits is over.
ASSUME PlansAssumption ==
    /\ Plans \subseteq [Run -> Plan]
    /\ \A p \in Plans :
          /\ \A r \in Run \ InService : p[r].style \in {"added", "renamed", "copy", "silent"}
          /\ \A r \in Run : p[r].style = "copy" => Trip[r] \in DOMAIN StaticTrips
          /\ \A r, q \in InService : p[r].style = "dateless" /\ Trip[q] = Trip[r] => q = r
          /\ \A r \in InService : p[r].style = "platforms" =>
                \A j, k \in DOMAIN Stops(r) :
                    LET visited == Stops(r)[j].stop
                        stop    == Stops(r)[k].stop
                    IN  /\ stop \in BoardStops
                        /\ \/ visited \in BoardStops
                           \/ Platform[visited] = stop
                           \/ Parent(stop) # None /\ Parent(Platform[visited]) = Parent(stop)
                        => j = k

\* What Redis holds: the time of a feed, and whether the parser had a lookup.
Snapshot == [at : Nat, known : BOOLEAN]

ASSUME SnapshotAssumption == None \notin Snapshot

VARIABLES
    plan,      \* how the trains run; it never changes
    now,       \* the clock
    redis,     \* the feed Redis holds
    \* the request
    pc,        \* "idle", or the await it is at, or "done"
    nearby,    \* it is for the next train alone
    cutoff,    \* cutoffS
    rows,      \* the rows from the arrivals SQL
    trips,     \* the feed its HMGET of trip_updates saw
    added,     \* the feed its HGETALL of added_trips saw
    arrivals,  \* merged
    pending,   \* the added trips that are not reconciled yet
    board      \* the response

request == <<pc, nearby, cutoff, rows, trips, added, arrivals, pending, board>>
vars    == <<plan, now, redis, request>>

Init ==
    /\ plan \in Plans
    /\ now = 0
    /\ redis = None
    /\ pc = "idle" /\ nearby = FALSE /\ cutoff = 0
    /\ rows = {} /\ arrivals = {} /\ pending = {} /\ board = {}
    /\ trips = None /\ added = None
----------------------------------------------------------------------------
(***************************************************************************)
(* The worker and the clock.  A unit of time is about a minute, so no time *)
(* passes during a request.  What the worker does before the first read of *)
(* a request is the same to it as if it were done before the request, and  *)
(* nothing of what it does after the last one reaches it: the interleaving *)
(* that matters is between the two.                                        *)
(***************************************************************************)
\* The feed of this moment, parsed with or without a static lookup.
Publish(known) ==
    /\ pc \in {"idle", "added"}
    /\ redis' = [at |-> now, known |-> known]
    /\ UNCHANGED <<plan, now, request>>

Tick ==
    /\ pc = "idle"
    /\ now < Horizon
    /\ now' = now + 1
    /\ redis' = IF redis # None /\ redis.at + Ttl <= now + 1 THEN None ELSE redis
    /\ UNCHANGED <<plan, request>>

Hashes(snapshot) ==
    IF snapshot = None
    THEN [tripUpdates |-> <<>>, addedTrips |-> <<>>]
    ELSE parseTripUpdates(Feed(plan, snapshot.at), IF snapshot.known THEN StaticTrips ELSE None)
----------------------------------------------------------------------------
(***************************************************************************)
(* The request.                                                            *)
(***************************************************************************)
Row(r, k) ==
    [trip |-> Trip[r], date |-> Date[r], seq |-> k, stop |-> Stops(r)[k].stop,
     parent |-> Parent(Stops(r)[k].stop), line |-> Line[Trip[r]],
     arr |-> Arr(r, k), dep |-> Dep(r, k), pickup |-> Stops(r)[k].pickup]

AtBoard(r) == {k \in DOMAIN Stops(r) : Stops(r)[k].stop \in BoardStops}

Visits == UNION {{Row(r, k) : k \in AtBoard(r)} : r \in InService}

sched_ts(row) == Or(row.arr, row.dep)

LateRows(from, cut) == {row \in Visits : from <= sched_ts(row) /\ sched_ts(row) < cut}

UpcomingRows(from, cut) == {row \in Visits : from <= sched_ts(row) /\ cut <= sched_ts(row)}

\* ORDER BY sched_ts LIMIT n, and ORDER BY sched_ts DESC LIMIT n; of equals any.
FirstRows(S, n) ==
    IF Cardinality(S) <= n THEN {S}
    ELSE {kept \in SUBSET S : /\ Cardinality(kept) = n
                             /\ \A row \in kept, left \in S \ kept : sched_ts(row) <= sched_ts(left)}

LastRows(S, n) ==
    IF Cardinality(S) <= n THEN {S}
    ELSE {kept \in SUBSET S : /\ Cardinality(kept) = n
                             /\ \A row \in kept, left \in S \ kept : sched_ts(row) >= sched_ts(left)}

\* Of a board the late candidates are bounded by the window, the others by their number.
ScheduledRows(from, cut) ==
    {LateRows(from, cut) \cup upcoming : upcoming \in FirstRows(UpcomingRows(from, cut), 3 * Limit)}

\* For a next train both are bounded by their number, platform by platform.
NearbyRows(from, cut) ==
    LET late     == LateRows(from, cut)
        upcoming == UpcomingRows(from, cut)
        At(stop, all) == {row \in all : row.stop = stop}
    IN  {kept \in SUBSET (late \cup upcoming) :
            \A stop \in BoardStops :
                /\ At(stop, kept \cap late) \in LastRows(At(stop, late), NearbyLate)
                /\ At(stop, kept \cap upcoming) \in FirstRows(At(stop, upcoming), NearbyUpcoming)}

Request(after) ==
    /\ pc = "idle"
    /\ pc' = "trips"
    /\ nearby' = FALSE
    /\ cutoff' = Or(after, now - Grace)
    /\ rows' \in ScheduledRows(Or(after, now - LateWindow), cutoff')
    /\ UNCHANGED <<plan, now, redis, trips, added, arrivals, pending, board>>

\* The stops around a place are asked one by one, so that those of a group are boards
\* of their own here; the platforms of a station are asked with it.
NearbyRequest ==
    /\ pc = "idle"
    /\ Stations # {} \/ \E stop \in BoardStops : BoardStops = {stop}
    /\ pc' = "trips"
    /\ nearby' = TRUE
    /\ cutoff' = now - Grace
    /\ rows' \in NearbyRows(now - LateWindow, cutoff')
    /\ UNCHANGED <<plan, now, redis, trips, added, arrivals, pending, board>>

cappedLimit == IF nearby THEN 1 ELSE Limit

\* A read that fails finds nothing; so it is without Redis.
ReadTrips ==
    /\ pc = "trips"
    /\ pc' = "added"
    /\ trips' \in {redis, None}
    /\ UNCHANGED <<plan, now, redis, nearby, cutoff, rows, added, arrivals, pending, board>>

\* Faulty variant: a next train is a scheduled one.
AddedOnBoards(snapshot) == IF nearby THEN {} ELSE AddedEntries(Hashes(snapshot).addedTrips, cutoff)

PendingAdded(snapshot) == AddedEntries(Hashes(snapshot).addedTrips, cutoff)

ReadAdded ==
    /\ pc = "added"
    /\ pc' = "merge"
    /\ added' \in {redis, None}
    /\ arrivals' = mergeRealtime(rows, Hashes(trips).tripUpdates)
    /\ pending' = PendingAdded(added')
    /\ UNCHANGED <<plan, now, redis, nearby, cutoff, rows, trips, board>>

\* The loop of reconcileAddedTrips, by predicted time; the rows for a next train are in
\* no order.
Reconcile(entry) ==
    /\ entry \in pending
    /\ \A e \in pending : entry.time <= e.time
    /\ pending' = pending \ {entry}
    /\ LET slots == Slots(arrivals, entry)
       IN  IF slots = {}
           THEN arrivals' = arrivals \cup {Extra(entry)}
           ELSE \E slot \in (IF nearby THEN Nearest(slots, entry) ELSE Closest(slots, entry, cutoff)) :
                   arrivals' = (arrivals \ {slot}) \cup {TakeOver(slot, entry)}
    /\ UNCHANGED <<plan, now, redis, pc, nearby, cutoff, rows, trips, added, board>>

Respond ==
    /\ pc = "merge" /\ pending = {}
    /\ pc' = "done"
    /\ board' \in selectUpcoming(arrivals, cutoff, cappedLimit)
    /\ UNCHANGED <<plan, now, redis, nearby, cutoff, rows, trips, added, arrivals, pending>>

\* The response is sent, and nothing of the request is left.
End ==
    /\ pc = "done"
    /\ pc' = "idle" /\ nearby' = FALSE /\ cutoff' = 0
    /\ rows' = {} /\ arrivals' = {} /\ pending' = {} /\ board' = {}
    /\ trips' = None /\ added' = None
    /\ UNCHANGED <<plan, now, redis>>

Next ==
    \/ (\E known \in BOOLEAN : Publish(known)) \/ Tick
    \/ (\E after \in After : Request(after)) \/ NearbyRequest
    \/ ReadTrips \/ ReadAdded
    \/ (\E entry \in pending : Reconcile(entry))
    \/ Respond \/ End

Spec == Init /\ [][Next]_vars
----------------------------------------------------------------------------
(***************************************************************************)
(* Properties of the response.                                             *)
(***************************************************************************)
TypeOK ==
    /\ plan \in Plans
    /\ now \in 0 .. Horizon
    /\ {redis, trips, added} \subseteq {s \in Snapshot : s.at <= now} \cup {None}
    /\ pc \in {"idle", "trips", "added", "merge", "done"}
    /\ nearby \in BOOLEAN
    /\ board \subseteq arrivals
    /\ Cardinality(board) <= cappedLimit

Listed(r, snapshot) == snapshot # None /\ Ahead(plan, r, snapshot.at) # {}

\* The feeds told when r is at which stop: under its own trip_id, or as an added
\* trip (that an unknown trip is added, and the route of a copy, are in static GTFS).
ByTrip(r) ==
    /\ plan[r].style \in {"times", "dateless", "arrivals", "departures", "delays", "platforms"}
    /\ r \in InService /\ Listed(r, trips)

ByAdded(r) ==
    /\ Listed(r, added)
    /\ plan[r].style = "added" \/ (plan[r].style \in {"renamed", "copy"} /\ added.known)

Fetched(r, k) == Row(r, k) \in rows

\* Where a tracked train will be boarded next, if it has not left.
Catchable(r) ==
    {k \in AtBoard(r) :
        /\ Until(r, k) + plan[r].delay >= cutoff
        /\ IF ByTrip(r)
           THEN k \in Ahead(plan, r, trips.at) /\ Stops(r)[k].pickup /\ Fetched(r, k)
           ELSE k \in Ahead(plan, r, added.at)}

NextStop(r) == CHOOSE k \in Catchable(r) : \A j \in Catchable(r) : k <= j

Tracked == {r \in Run : (ByTrip(r) \/ ByAdded(r)) /\ Catchable(r) # {}}

RealTime(r) ==
    plan[r].delay +
        IF plan[r].style = "departures" THEN Until(r, NextStop(r)) ELSE Due(r, NextStop(r))

\* What has to be on the board: all of it, or what comes before its last line.
InView(time) == Cardinality(board) < cappedLimit \/ \E a \in board : time < a.time

\* Lines on which no train hides another.  An added train of the subway that takes one
\* slot of a trip which stops here twice hides the other or is hidden by it, one that
\* takes the slot of a trip which only ends here is not shown, and of several copies of
\* one trip a single one is.
Distinct(line) ==
    /\ line \in Subway =>
          \A r \in InService : Line[Trip[r]] = line =>
              \A j, k \in AtBoard(r) : j = k /\ Stops(r)[k].pickup
    /\ \A r, q \in Run :
          plan[r].style = "copy" /\ plan[q].style = "copy" /\ Trip[r] = Trip[q] /\ Line[Trip[r]] = line
              => r = q

\* Every train that the feeds follow is on the board once, at the time when it
\* really comes (or leaves, if departures are published), whatever way it is
\* published, whichever slot of the schedule it takes and however the reads and
\* the worker interleave; and no prediction is on it that is not one of such a
\* train.
TrackedTrains ==
    pc = "done" =>
        \A line \in {l \in {Line[Trip[r]] : r \in Run} : Distinct(l)},
           time \in {RealTime(r) : r \in Tracked} \cup {a.time : a \in board} :
            LET trains == {r \in Tracked : Line[Trip[r]] = line /\ RealTime(r) = time}
                shown  == {a \in board : a.realtime /\ a.line = line /\ a.time = time}
            IN  /\ Cardinality(shown) <= Cardinality(trains)
                /\ InView(time) => Cardinality(shown) = Cardinality(trains)

\* The delay that is shown is the train's, although arrivals, departures and
\* delays are published.
TrueDelay ==
    pc = "done" =>
        \A r \in Tracked, a \in board :
            ByTrip(r) /\ a.trip = Trip[r] /\ a.date = Date[r] => a.delay = plan[r].delay

\* No row is a leftover of the schedule when the feed says that its train is
\* canceled, skips the stop, has passed it or comes at another time.
Told(r) ==
    /\ plan[r].style \in {"times", "dateless", "arrivals", "departures", "delays", "skipping", "canceled"}
    /\ Listed(r, trips)

NoGhosts ==
    pc = "done" =>
        \A r \in InService, a \in board :
            a.trip = Trip[r] /\ a.date = Date[r] /\ ~a.realtime => ~Told(r)

\* "Naively appending ADDED trips ... causes each train to appear twice": a train
\* on the subway is never listed as added beside a free slot it could be.
NotTwice ==
    pc = "done" =>
        \A a, slot \in board :
            a.status = "added" /\ a.line \in Subway /\ slot.status = "scheduled" /\ slot.line = a.line
                => Distance(a.time, slot.sched) > ReconcileWindow

\* A train the feed says nothing about is on the board as scheduled, unless an
\* added one of its subway line has taken its slot.
Untold(r, k) ==
    /\ r \in InService
    /\ \/ plan[r].style = "silent"
       \/ plan[r].style = "nodata" /\ (Listed(r, trips) => k \in Ahead(plan, r, trips.at))

ScheduledShown ==
    pc = "done" =>
        \A r \in Run : \A k \in AtBoard(r) :
            LET line == Line[Trip[r]] IN
            /\ Untold(r, k) /\ Fetched(r, k)
            /\ Stops(r)[k].pickup /\ Until(r, k) >= cutoff
            /\ InView(Due(r, k))
            /\ line \in Subway => \A q \in Run : Line[Trip[q]] = line => ~ByAdded(q)
            => \E a \in board : a.trip = Trip[r] /\ a.date = Date[r] /\ a.time <= Due(r, k)

\* "Ascending order ensures each ADDED trip claims its closest earlier slot",
\* "preventing a cascade": added trips that run the scheduled ones of a subway
\* line, each within the window of its slot, are not shown as extra service.
\* (It does not hold: a late train takes the slot of the next one if that is
\* closer, and the next one may then be too far from the slot that is left.)
EveryTrainHasItsSlot ==
    pc = "done" =>
        \A r \in Tracked \cap InService, a \in board :
            /\ plan[r].style = "added" /\ a.trip = NewId[r]
            /\ Line[Trip[r]] \in Subway /\ Fetched(r, NextStop(r))
            /\ Distance(plan[r].delay, 0) <= ReconcileWindow
            => a.status # "added"
=============================================================================
