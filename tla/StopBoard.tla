------------------------------ MODULE StopBoard ------------------------------
(***************************************************************************)
(* merge-realtime.ts and reconcileAddedTrips.ts: the board of a stop, from *)
(* its scheduled rows and the TripUpdates that Redis holds.                *)
(*                                                                         *)
(* Rows and arrivals are sets of records.  Times and trip_ids are numbers, *)
(* the latter for the order of localeCompare; a line is a route and a      *)
(* direction.  Names, headsigns and uncertainties are left out, and the    *)
(* statuses "on_time", "early" and "late" are one: "predicted".            *)
(***************************************************************************)
EXTENDS TripUpdates

CONSTANTS
    BoardStops,       \* effectiveStopIds: the platforms the board is for
    Stations,         \* their parent stations
    ParentOf,         \* ParentOf[s]: the parent station of stop s, where it has one
    Subway,           \* the lines of route_type 0 and 1
    ReconcileWindow   \* RECONCILE_WINDOW_S

Or(value, default) == IF value # None THEN value ELSE default

Distance(a, b) == IF a < b THEN b - a ELSE a - b

Later(a, b) == IF a < b THEN b ELSE a

Parent(stop) == IF stop \in DOMAIN ParentOf THEN ParentOf[stop] ELSE None

----------------------------------------------------------------------------
(***************************************************************************)
(* mergeRealtime.                                                          *)
(***************************************************************************)
\* A delay of None (no schedule to compare to) means the trip is an added one.
applyPrediction(arrival, time, delay, leaves) ==
    [arrival EXCEPT !.time = time, !.leaves = Later(leaves, time), !.delay = delay,
                    !.realtime = TRUE,
                    !.status = IF delay = None THEN "added" ELSE "predicted"]

Scheduled(row) ==
    LET scheduled == Or(row.arr, row.dep)
    IN  [trip |-> row.trip, date |-> row.date, line |-> row.line, pickup |-> row.pickup,
         sched |-> scheduled, time |-> scheduled, leaves |-> Or(row.dep, scheduled),
         delay |-> None, realtime |-> FALSE, status |-> "scheduled", passed |-> FALSE]

First(stops, Test(_)) ==
    LET i == SelectInSeq(stops, Test) IN IF i = 0 THEN None ELSE stops[i]

\* Faulty variant: the stop_id is tried first, whatever the sequence.
findStopById(stops, row) ==
    Or(First(stops, LAMBDA s : s.stop = row.stop),
       First(stops, LAMBDA s : s.seq = None /\ s.stop # None
                               /\ row.parent # None /\ Parent(s.stop) = row.parent))

findStop(stops, row) ==
    LET Unsequenced(s) == s.seq = None /\ s.stop # None
    IN  Or(First(stops, LAMBDA s : s.seq = row.seq),
        Or(First(stops, LAMBDA s : Unsequenced(s) /\ s.stop = row.stop),
           First(stops, LAMBDA s : Unsequenced(s)
                                   /\ row.parent # None /\ Parent(s.stop) = row.parent)))

allSequenced(stops) == stops # <<>> /\ \A i \in DOMAIN stops : stops[i].seq # None

\* Faulty variant: a stop the feed leaves out is ahead of the train.
neverPassed(stops, seq) == FALSE

hasPassed(stops, seq) ==
    allSequenced(stops) /\ \A i \in DOMAIN stops : seq < stops[i].seq

\* The delay of the last stop before that is listed and not skipped.
propagatedDelay(stops, seq) ==
    LET last == SelectLastInSeq(stops, LAMBDA s : s.seq < seq /\ ~s.skipped)
    IN  IF ~allSequenced(stops) \/ last = 0 THEN None ELSE stops[last].delay

\* A stop that is not listed.
Unlisted(arrival, stops, seq) ==
    LET delay == propagatedDelay(stops, seq)
    IN  IF hasPassed(stops, seq) THEN [arrival EXCEPT !.passed = TRUE]
        ELSE IF delay = None THEN arrival
        ELSE applyPrediction(arrival, arrival.sched + delay, delay, arrival.leaves + delay)

\* Faulty variant: a departure is compared with the scheduled arrival.
PredictedMixed(arrival, stop, row) ==
    LET time == Or(stop.arr, Or(stop.dep, arrival.sched + Or(stop.delay, 0)))
    IN  applyPrediction(arrival, time, time - arrival.sched,
                        Or(stop.dep, arrival.leaves + time - arrival.sched))

\* Arrival is compared with arrival, departure with departure.
Predicted(arrival, stop, row) ==
    CASE stop.arr # None ->
            LET delay == stop.arr - Or(row.arr, arrival.sched)
            IN  applyPrediction(arrival, stop.arr, delay, Or(stop.dep, arrival.leaves + delay))
      [] stop.arr = None /\ stop.dep # None ->
            applyPrediction(arrival, stop.dep, stop.dep - Or(row.dep, arrival.sched), stop.dep)
      [] stop.arr = None /\ stop.dep = None /\ stop.delay # None ->
            applyPrediction(arrival, arrival.sched + stop.delay, stop.delay,
                            arrival.leaves + stop.delay)
      [] OTHER -> arrival

\* By trip_id and service date, else by the bare trip_id.
RealtimeOf(row, tripUpdates) ==
    LET dated == tripRealtimeField(row.trip, row.date)
        field == IF dated \in DOMAIN tripUpdates THEN dated ELSE <<row.trip>>
    IN  IF field \in DOMAIN tripUpdates THEN tripUpdates[field] ELSE None

mergeRow(row, tripUpdates) ==
    LET arrival == Scheduled(row)
        trip    == RealtimeOf(row, tripUpdates)
        stop    == findStop(trip.stops, row)
    IN  IF trip = None \/ Or(trip.date, row.date) # row.date THEN arrival
        ELSE IF trip.canceled THEN [arrival EXCEPT !.status = "canceled"]
        ELSE IF stop = None THEN Unlisted(arrival, trip.stops, row.seq)
        ELSE IF stop.skipped THEN [arrival EXCEPT !.status = "skipped"]
        ELSE Predicted(arrival, stop, row)

mergeRealtime(rows, tripUpdates) == {mergeRow(row, tripUpdates) : row \in rows}
----------------------------------------------------------------------------
(***************************************************************************)
(* addedTripStopAt and reconcileAddedTrips.                                *)
(***************************************************************************)
AtStop(stop) ==
    \/ stop \in BoardStops \cup Stations
    \/ Parent(stop) \in Stations

Boards(s, cutoff) ==
    /\ ~s.skipped /\ s.stop # None /\ AtStop(s.stop)
    /\ Or(s.arr, s.dep) # None
    /\ Or(s.dep, s.arr) >= cutoff

\* The added trips that board here, each at the first such stop.
AddedEntries(addedTrips, cutoff) ==
    LET At(trip) == First(trip.stops, LAMBDA s : Boards(s, cutoff))
        here     == {trip \in {addedTrips[f] : f \in DOMAIN addedTrips} : At(trip) # None}
    IN  {[trip   |-> trip.trip,
          line   |-> trip.line,
          time   |-> Or(At(trip).arr, At(trip).dep),
          leaves |-> Later(Or(At(trip).dep, At(trip).arr), Or(At(trip).arr, At(trip).dep))] :
         trip \in here}

\* Faulty variant: a slot at the very end of the window is left alone.
NarrowWindow(arrivals, entry) ==
    {a \in arrivals :
        /\ entry.line \in Subway
        /\ ~a.realtime /\ ~a.passed /\ a.status = "scheduled"
        /\ a.line = entry.line
        /\ Distance(entry.time, a.sched) < ReconcileWindow}

\* Faulty variant: extra service on any line takes scheduled slots.
OnAnyLine(arrivals, entry) ==
    {a \in arrivals :
        /\ ~a.realtime /\ ~a.passed /\ a.status = "scheduled"
        /\ a.line = entry.line
        /\ Distance(entry.time, a.sched) <= ReconcileWindow}

\* The scheduled trips without a prediction that an added one may take over; an
\* arrival that was taken over has one from then on.
Slots(arrivals, entry) ==
    {a \in arrivals :
        /\ entry.line \in Subway
        /\ ~a.realtime /\ ~a.passed /\ a.status = "scheduled"
        /\ a.line = entry.line
        /\ Distance(entry.time, a.sched) <= ReconcileWindow}

\* The closest one, or those that are equally close.
Nearest(slots, entry) ==
    {a \in slots : \A b \in slots : Distance(entry.time, a.sched) <= Distance(entry.time, b.sched)}

\* Of those the one that comes first in the rows.  Rows from before the cutoff come
\* first, in any order.
Closest(slots, entry, cutoff) ==
    LET Precedes(a, b) == b.sched >= cutoff /\ a.sched < b.sched
    IN  {a \in Nearest(slots, entry) : \A b \in Nearest(slots, entry) : ~Precedes(b, a)}

\* A trip without a slot of its own.
Extra(entry) ==
    applyPrediction(
        [trip |-> entry.trip, date |-> None, line |-> entry.line, pickup |-> TRUE,
         sched |-> None, time |-> entry.time, leaves |-> entry.leaves,
         delay |-> None, realtime |-> FALSE, status |-> "added", passed |-> FALSE],
        entry.time, None, entry.leaves)

TakeOver(slot, entry) == applyPrediction(slot, entry.time, entry.time - slot.sched, entry.leaves)
----------------------------------------------------------------------------
(***************************************************************************)
(* selectUpcoming.                                                         *)
(***************************************************************************)
Boarding(arrivals, cutoff) ==
    {a \in arrivals :
        /\ a.status \notin {"canceled", "skipped"}
        /\ a.pickup /\ ~a.passed
        /\ a.leaves >= cutoff}

SameTrip(a, b) == a.trip = b.trip /\ a.date = b.date

\* Each trip's next visit: loop routes stop here twice.
NextVisits(arrivals) ==
    {CHOOSE a \in {b \in arrivals : SameTrip(b, c)} :
        \A b \in arrivals : SameTrip(b, c) => a.time <= b.time : c \in arrivals}

Sooner(a, b) == a.time < b.time \/ (a.time = b.time /\ a.trip < b.trip)

\* Faulty variant: without the limit.
AllOf(arrivals, limit) == {arrivals}

\* The first ones, up to the limit; of equals any.
FirstOf(arrivals, limit) ==
    {shown \in SUBSET arrivals :
        /\ Cardinality(shown) = IF Cardinality(arrivals) < limit THEN Cardinality(arrivals) ELSE limit
        /\ \A a \in arrivals \ shown, b \in shown : ~Sooner(a, b)}

\* Faulty variant: the limit is applied before the later visits are dropped.
SelectLimitedFirst(arrivals, cutoff, limit) ==
    {NextVisits(shown) : shown \in FirstOf(Boarding(arrivals, cutoff), limit)}

\* The boards that may be shown.
selectUpcoming(arrivals, cutoff, limit) ==
    UNION {FirstOf(next, limit) : next \in {NextVisits(Boarding(arrivals, cutoff))}}
=============================================================================
