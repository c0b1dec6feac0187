----------------------------- MODULE RealtimeFeed -----------------------------
(***************************************************************************)
(* GtfsRealtimeService polling one GTFS-realtime feed of one agency (trip  *)
(* updates, alerts or vehicle positions) and writing it to Redis.  A CDN   *)
(* may answer with any feed the publisher ever made, with none, or with    *)
(* one that has no timestamp or a wrong one.  Redis expires and evicts     *)
(* keys and may restart empty; the worker may die at any await, and a      *)
(* reply of Redis may be lost after the write was applied.                 *)
(*                                                                         *)
(* A feed is known by its header timestamp.  Time advances in units of     *)
(* about thirty seconds.                                                   *)
(***************************************************************************)
EXTENDS Integers

CONSTANTS
    Poll,        \* invocations of runRealtimePoll
    Stamp,       \* the header timestamps that feeds carry
    NoStamp,     \* optionalEpoch: the header has no timestamp
    Nothing,     \* a Redis key that does not exist, a map entry not set
    MaxAge,      \* REALTIME_FEED_MAX_AGE_S
    MaxFuture,   \* REALTIME_FEED_MAX_FUTURE_S
    Ttl,         \* Ttl[l]: TRIP_UPDATE_CACHE_TTL_S, ALERTS_..., VEHICLE_...
    FeedTsTtl,   \* TRIP_UPDATE_FEED_TS_TTL_S
    MaxPoll,     \* a poll that takes longer is cut off by the worker's watchdog
    Horizon      \* bound: the clock stops here

Label == {"trips", "alerts", "vehicles"}

ASSUME FeedAssumption ==
    /\ Stamp \subseteq Nat \ {0}
    /\ NoStamp \notin Nat
    /\ Nothing \notin Nat \cup {NoStamp}
    /\ MaxAge \in Nat /\ MaxFuture \in Nat
    /\ Ttl \in [Label -> Nat \ {0}]
    /\ FeedTsTtl \in Nat \ {0}
    /\ MaxPoll \in Nat
    /\ Horizon \in Nat

VARIABLES
    label,    \* the feed that is polled; it never changes
    now,      \* the clock
    \* the worker
    running,  \* isRealtimePollRunning
    pc,       \* pc[p]: where the poll of this feed stands
    got,      \* got[p]: the feed that was fetched
    since,    \* when the poll that is running was started
    last,     \* lastWrittenFeedTimestamp
    \* Redis
    data,     \* trip_updates:v2, alerts or vehicles: the feed, and its expiry
    added,    \* added_trips:v2
    feedTs,   \* trip_updates:feed_ts
    \* history
    acked     \* the last feed whose write this worker process knows of

redis  == <<data, added, feedTs>>
worker == <<running, pc, got, since, last>>
vars   == <<label, now, worker, redis, acked>>

Fetched  == Stamp \cup {NoStamp}
Written  == Nat \cup {Nothing}
KeyOf(V) == [value : V, until : Nat] \cup {Nothing}

TypeOK ==
    /\ label \in Label
    /\ now \in Nat
    /\ running \in BOOLEAN
    /\ pc \in [Poll -> {"idle", "fetch", "lookup", "write", "settled"}]
    /\ got \in [Poll -> Fetched \cup {Nothing}]
    /\ since \in Nat
    /\ last \in Written
    /\ data \in KeyOf(Fetched)
    /\ added \in KeyOf(Fetched)
    /\ feedTs \in KeyOf(Nat)
    /\ acked \in Written

Init ==
    /\ label \in Label
    /\ now = 1
    /\ running = FALSE
    /\ pc = [p \in Poll |-> "idle"]
    /\ got = [p \in Poll |-> Nothing]
    /\ since = 1
    /\ last = Nothing
    /\ data = Nothing /\ added = Nothing /\ feedTs = Nothing
    /\ acked = Nothing

Goto(p, phase) == pc' = [pc EXCEPT ![p] = phase]

Settle(p) == Goto(p, "settled") /\ got' = [got EXCEPT ![p] = Nothing]
----------------------------------------------------------------------------
(***************************************************************************)
(* The poll loop.                                                          *)
(***************************************************************************)
\* Faulty variant: no isRealtimePollRunning, ticks overlap.
StartAnyway(p) ==
    /\ pc[p] = "idle"
    /\ running' = TRUE
    /\ since' = now
    /\ Goto(p, "fetch")
    /\ UNCHANGED <<label, now, got, last, redis, acked>>

\* A tick of the poll timer; while a poll is running a tick is skipped.
StartPoll(p) ==
    /\ pc[p] = "idle"
    /\ ~running
    /\ running' = TRUE
    /\ since' = now
    /\ Goto(p, "fetch")
    /\ UNCHANGED <<label, now, got, last, redis, acked>>

\* The agency's other feeds, polled at the same time, and the other agencies.
EndPoll(p) ==
    /\ pc[p] = "settled"
    /\ Goto(p, "idle")
    /\ running' = FALSE
    /\ UNCHANGED <<label, now, got, since, last, redis, acked>>

\* A timeout, an HTTP error, bytes that do not decode.
FetchFails(p) ==
    /\ pc[p] = "fetch"
    /\ Settle(p)
    /\ UNCHANGED <<label, now, running, since, last, redis, acked>>

\* Faulty variant: ages are compared without their sign.
AnyFuture(f) ==
    \/ f = NoStamp
    \/ now - f <= MaxAge /\ (last # Nothing => f >= last)

\* Faulty variant: only the order of the feeds is checked.
AnyAge(f) == f = NoStamp \/ (f - now <= MaxFuture /\ (last # Nothing => f >= last))

isFeedFresh(f) ==
    \/ f = NoStamp
    \/ /\ now - f <= MaxAge
       /\ f - now <= MaxFuture
       /\ last # Nothing => f >= last

\* pollVehiclePositions has no such check.
Fetch(p, f) ==
    /\ pc[p] = "fetch"
    /\ IF label = "vehicles" \/ isFeedFresh(f)
       THEN /\ Goto(p, IF label = "vehicles" THEN "write" ELSE "lookup")
            /\ got' = [got EXCEPT ![p] = f]
       ELSE Settle(p)
    /\ UNCHANGED <<label, now, running, since, last, redis, acked>>

\* staticLookup.get, which may have to query the database; it never throws.
Lookup(p) ==
    /\ pc[p] = "lookup"
    /\ Goto(p, "write")
    /\ UNCHANGED <<label, now, running, got, since, last, redis, acked>>
----------------------------------------------------------------------------
(***************************************************************************)
(* The write.  writeTripUpdates swaps both hashes and sets the timestamp   *)
(* in one MULTI; the other feeds SET a single key.                         *)
(***************************************************************************)
\* Faulty variant: SET and HSET without an expiry.
KeyForEver(v, ttl) == [value |-> v, until |-> Nothing]

Key(v, ttl) == [value |-> v, until |-> now + ttl]

\* Faulty variant: a hash without entries is left alone.
KeepEmptyHash(key, f, entries) == IF entries THEN Key(f, Ttl[label]) ELSE key

\* What a key holds after the swap: the new hash, or nothing if it is empty.
swapHash(key, f, entries) == IF entries THEN Key(f, Ttl[label]) ELSE Nothing

\* Which of the feed's trips are in static GTFS is up to the lookup.
Apply(f, updates, extra) ==
    IF label = "trips"
    THEN /\ data' = swapHash(data, f, updates)
         /\ added' = swapHash(added, f, extra)
         /\ feedTs' = Key(IF f = NoStamp THEN now ELSE f, FeedTsTtl)
    ELSE data' = Key(f, Ttl[label]) /\ UNCHANGED <<added, feedTs>>

\* markFeedWritten, which pollVehiclePositions does not call.
Note(mark, f) == IF f = NoStamp \/ label = "vehicles" THEN mark ELSE f

\* History: the reply has come, whichever feed it is.
Known(f) == IF f = NoStamp THEN acked ELSE f

\* Only a TripUpdates feed without trips is not written, nor marked as written.
Empty(updates, extra) == label = "trips" /\ ~updates /\ ~extra

WriteNothing(p) ==
    /\ pc[p] = "write"
    /\ Empty(FALSE, FALSE)
    /\ Settle(p)
    /\ UNCHANGED <<label, now, running, since, last, redis, acked>>

Write(p, updates, extra) == LET f == got[p] IN
    /\ pc[p] = "write"
    /\ ~Empty(updates, extra)
    /\ Apply(f, updates, extra)
    /\ last' = Note(last, f)
    /\ acked' = Known(f)
    /\ Settle(p)
    /\ UNCHANGED <<label, now, running, since>>

\* The command fails or its reply is lost: the error is logged and the feed is
\* not marked as written, whether Redis applied it or not.
WriteFails(p, updates, extra) == LET f == got[p] IN
    /\ pc[p] = "write"
    /\ ~Empty(updates, extra)
    /\ \/ Apply(f, updates, extra)
       \/ UNCHANGED redis
    /\ Settle(p)
    /\ UNCHANGED <<label, now, running, since, last, acked>>
----------------------------------------------------------------------------
(***************************************************************************)
(* What happens to the worker and to Redis.                                *)
(***************************************************************************)
\* lastWrittenFeedTimestamp is in memory only.
Crash ==
    /\ running' = FALSE
    /\ pc' = [p \in Poll |-> "idle"]
    /\ got' = [p \in Poll |-> Nothing]
    /\ last' = Nothing
    /\ acked' = Nothing
    /\ \/ UNCHANGED redis
       \/ \E p \in Poll, updates, extra \in BOOLEAN :
             pc[p] = "write" /\ ~Empty(updates, extra) /\ Apply(got[p], updates, extra)
    /\ UNCHANGED <<label, now, since>>

\* Redis runs without persistence, under allkeys-lru.
RedisLosesKeys ==
    /\ data' \in {data, Nothing}
    /\ added' \in {added, Nothing}
    /\ feedTs' \in {feedTs, Nothing}
    /\ UNCHANGED <<label, now, worker, acked>>

Expired(key) == key # Nothing /\ key.until <= now + 1

Left(key) == IF Expired(key) THEN Nothing ELSE key

Advance ==
    /\ now < Horizon
    /\ running => now - since < MaxPoll
    /\ now' = now + 1
    /\ data' = Left(data) /\ added' = Left(added) /\ feedTs' = Left(feedTs)
    /\ UNCHANGED <<label, worker, acked>>
----------------------------------------------------------------------------
Step(p) ==
    \/ StartPoll(p) \/ EndPoll(p) \/ FetchFails(p)
    \/ (\E f \in Fetched : Fetch(p, f))
    \/ Lookup(p) \/ WriteNothing(p)
    \/ \E updates, extra \in BOOLEAN : Write(p, updates, extra) \/ WriteFails(p, updates, extra)

Next == (\E p \in Poll : Step(p)) \/ Crash \/ RedisLosesKeys \/ Advance

Spec == Init /\ [][Next]_vars
----------------------------------------------------------------------------
(***************************************************************************)
(* Properties.                                                             *)
(***************************************************************************)
\* trip_updates and added_trips are read by separate commands and are still one
\* feed's: a trip that a new feed turned from ADDED into a scheduled one is not
\* in both.  The timestamp readers report is that feed's too.
Stamped(key) == key # Nothing /\ key.value # NoStamp

OneFeedInRedis ==
    label = "trips" =>
        /\ data # Nothing /\ added # Nothing => data.value = added.value
        /\ Stamped(data) /\ feedTs # Nothing => feedTs.value = data.value
        /\ Stamped(added) /\ feedTs # Nothing => feedTs.value = added.value

\* "Data from a dead feed expires on its own": nothing that readers find was
\* published longer ago than the age limit, one poll and the key's TTL.
ServedAge ==
    label # "vehicles" =>
        \A key \in {data, added} :
            Stamped(key) => now - key.value < MaxAge + MaxPoll + Ttl[label]

\* A feed with a clock that is ahead shuts later feeds out for MaxFuture only.
NotBlocked == last # Nothing => last <= now + MaxFuture

\* A stale CDN response cannot overwrite fresher trip updates or alerts that this
\* process knows it has written, in neither of the hashes.  Positions of vehicles it
\* can: pollVehiclePositions writes whatever feed it gets.
Puts(old, new) == new # old /\ new # Nothing /\ new.value # NoStamp

NoStaleOverwrite ==
    [][label # "vehicles" /\ acked # Nothing =>
          /\ Puts(data, data') => data'.value >= acked
          /\ Puts(added, added') => added'.value >= acked]_vars
=============================================================================
