----------------------------- MODULE TripUpdates -----------------------------
(***************************************************************************)
(* parseTripUpdates: what the worker makes of a GTFS-realtime TripUpdates  *)
(* feed, and what the two Redis hashes then hold.                          *)
(*                                                                         *)
(* A feed is a set of entities, each with a key of its own (of entities    *)
(* that repeat a key the parser keeps the last).  An optional field that   *)
(* is absent, an epoch of 0 and an empty string are None.                  *)
(***************************************************************************)
EXTENDS Integers, SequencesExt

CONSTANT None

\* A trip's hash field; a feed without start dates has bare trip_ids.
tripRealtimeField(trip, date) == IF date = None THEN <<trip>> ELSE <<trip, date>>

\* A NO_DATA stop is kept, without times: the vehicle has not passed it.
StopRealtime(update) ==
    LET Known(value) == IF update.rel = "NO_DATA" THEN None ELSE value
    IN  [seq     |-> update.seq,
         stop    |-> update.stop,
         arr     |-> Known(update.arr),
         dep     |-> Known(update.dep),
         delay   |-> Known(update.delay),
         skipped |-> update.rel = "SKIPPED"]

\* The updates that name a stop, by their sequences if all of them have one; the sort
\* is stable.
parseStopTimeUpdates(updates) ==
    LET named        == {i \in DOMAIN updates : updates[i].seq # None \/ updates[i].stop # None}
        sorted       == \A i \in named : updates[i].seq # None
        Before(i, j) == IF sorted /\ updates[i].seq # updates[j].seq
                        THEN updates[i].seq < updates[j].seq
                        ELSE i < j
        Nth(n)       == CHOOSE i \in named : Cardinality({j \in named : Before(j, i)}) = n - 1
    IN  [n \in 1 .. Cardinality(named) |-> StopRealtime(updates[Nth(n)])]

Canceled(entity) == entity.rel \in {"CANCELED", "DELETED"}

\* static: the line (route and direction) of every trip in static GTFS, or None
\* while the worker has no lookup.
InStatic(entity, static) == static # None /\ entity.trip \in DOMAIN static

\* A DUPLICATED trip reuses the trip_id of a static one, and may take its route.
LineOf(entity, static) ==
    IF entity.line = None /\ entity.rel = "DUPLICATED" /\ InStatic(entity, static)
    THEN static[entity.trip]
    ELSE entity.line

\* Faulty variant: only an explicit relationship makes a trip an added one.
AddedByName(entity, static) == entity.rel \in {"DUPLICATED", "ADDED"}

Added(entity, static) ==
    \/ entity.rel \in {"DUPLICATED", "ADDED"}
    \/ static # None /\ ~InStatic(entity, static)

TripRealtime(entity, static) ==
    [trip     |-> entity.trip,
     line     |-> LineOf(entity, static),
     date     |-> entity.date,
     canceled |-> Canceled(entity),
     stops    |-> IF Canceled(entity) THEN <<>> ELSE parseStopTimeUpdates(entity.updates)]

Field(entity) ==
    IF entity.rel = "DUPLICATED"
    THEN tripRealtimeField(entity.trip, entity.date) \o <<None, entity.start>>
    ELSE tripRealtimeField(entity.trip, entity.date)

Hash(entities, static) ==
    [field \in {Field(e) : e \in entities} |->
        TripRealtime(CHOOSE e \in entities : Field(e) = field, static)]

\* The entities of the feed that are kept: canceled trips, and those with stops
\* that are in static GTFS, or are added and have a route.
parseTripUpdates(feed, static) ==
    LET named    == {e \in feed : ~e.isDeleted /\ e.trip # None}
        canceled == {e \in named : Canceled(e)}
        moving   == {e \in named \ canceled : parseStopTimeUpdates(e.updates) # <<>>}
        added    == {e \in moving : Added(e, static)}
    IN  [tripUpdates |-> Hash(canceled \cup (moving \ added), static),
         addedTrips  |-> Hash({e \in added : LineOf(e, static) # None}, static)]
=============================================================================
