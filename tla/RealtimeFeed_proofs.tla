-------------------------- MODULE RealtimeFeed_proofs --------------------------
(***************************************************************************)
(* For every set of feeds, all age limits and times to live: Redis holds   *)
(* one feed, which was not too old when it was written and is gone before  *)
(* it is older than the limits add up to, and no poll writes trip updates  *)
(* or alerts older than those that this process knows it wrote.            *)
(***************************************************************************)
EXTENDS RealtimeFeed, TLAPS

Busy(p) == pc[p] # "idle"

\* The running flag is a lock, and the watchdog ends a poll that takes too long.
OnePoll ==
    /\ \A p \in Poll : Busy(p) => running
    /\ \A p, q \in Poll : Busy(p) /\ Busy(q) => p = q
    /\ since <= now
    /\ running => now - since <= MaxPoll

\* A feed that isFeedFresh let through since the poll began.
Passed(f) ==
    f # NoStamp =>
        /\ since - f <= MaxAge
        /\ f <= now + MaxFuture
        /\ last # Nothing => f >= last

Taken ==
    \A p \in Poll : pc[p] \in {"lookup", "write"} =>
        got[p] \in Fetched /\ (label # "vehicles" => Passed(got[p]))

\* What the worker knows it wrote it marked, but for positions, which are not marked.
Marked == IF label = "vehicles" THEN last = Nothing ELSE acked = last

Lifetime == MaxAge + MaxPoll + Ttl[label]

KeyInTime(key) == Stamped(key) => now < key.until /\ key.until - key.value <= Lifetime

\* A key expires before its feed is older than the limits allow.
KeysInTime == label # "vehicles" => KeyInTime(data) /\ KeyInTime(added)

IInv ==
    /\ TypeOK
    /\ OnePoll
    /\ Taken
    /\ Marked
    /\ NotBlocked
    /\ KeysInTime
    /\ OneFeedInRedis

\* A header timestamp is a time.
LEMMA StampType == \A f \in Fetched : f # NoStamp => f \in Nat
  BY FeedAssumption DEF Fetched

\* A key that is there has a value and an expiry.
LEMMA KeyType ==
    ASSUME NEW V, NEW key \in KeyOf(V), key # Nothing
    PROVE  key.value \in V /\ key.until \in Nat
  BY DEF KeyOf

\* The limits are times.
LEMMA LifetimeType == TypeOK => Lifetime \in Nat /\ Ttl[label] \in Nat \ {0}
  BY FeedAssumption DEF TypeOK, Lifetime

\* A feed that a poll holds when it writes is within the age limit and its time.
LEMMA PassedInTime ==
    ASSUME TypeOK, OnePoll, NEW f \in Fetched, f # NoStamp, Passed(f), running
    PROVE  f \in Nat /\ now - f <= MaxAge + MaxPoll
<1>1. f \in Nat
  BY StampType
<1>2. now \in Nat /\ since \in Nat
  BY DEF TypeOK
<1> QED BY <1>1, <1>2, FeedAssumption DEF OnePoll, Passed

\* A new key lives for its time to live.
LEMMA NewKey ==
    ASSUME TypeOK, NEW f \in Fetched, NEW ttl \in Nat
    PROVE  Key(f, ttl) \in KeyOf(Fetched) /\ Key(f, ttl).value = f /\ Key(f, ttl).until = now + ttl
  BY DEF Key, KeyOf, TypeOK

\* A write leaves the keys of one feed, each with its time to live.
LEMMA ApplyKeys ==
    ASSUME TypeOK, KeysInTime, OneFeedInRedis, UNCHANGED <<label, now>>,
           NEW f \in Fetched, NEW updates \in BOOLEAN, NEW extra \in BOOLEAN,
           label # "vehicles" /\ f # NoStamp => f \in Nat /\ now - f <= MaxAge + MaxPoll,
           Apply(f, updates, extra)
    PROVE  /\ data' \in KeyOf(Fetched) /\ added' \in KeyOf(Fetched) /\ feedTs' \in KeyOf(Nat)
           /\ KeysInTime'
           /\ OneFeedInRedis'
           /\ data' # Nothing => data'.value = f
           /\ added' \in {added, Nothing} \/ added'.value = f
<1> DEFINE k == Key(f, Ttl[label])
<1>1. Ttl[label] \in Nat /\ Lifetime \in Nat
  BY LifetimeType
<1>2. k \in KeyOf(Fetched) /\ k.value = f /\ k.until = now + Ttl[label]
  BY <1>1, NewKey
<1> HIDE DEF k
<1>3. label # "vehicles" => KeyInTime(k)
  BY <1>1, <1>2, LifetimeType, FeedAssumption DEF KeyInTime, Stamped, Lifetime, TypeOK
<1>4. Nothing \in KeyOf(Fetched) /\ KeyInTime(Nothing)
  BY DEF KeyOf, KeyInTime, Stamped
<1>5. CASE label = "trips"
  <2>1. data' \in {k, Nothing} /\ added' \in {k, Nothing}
    BY <1>5 DEF Apply, swapHash, k
  <2>2. feedTs' = Key(IF f = NoStamp THEN now ELSE f, FeedTsTtl)
    BY <1>5 DEF Apply
  <2>3. feedTs' \in KeyOf(Nat) /\ (f # NoStamp => feedTs'.value = f)
    BY <1>5, <2>2, FeedAssumption, StampType DEF Key, KeyOf, TypeOK
  <2>4. KeysInTime'
    BY <1>3, <1>4, <1>5, <2>1 DEF KeysInTime, KeyInTime, Stamped, Lifetime
  <2>5. OneFeedInRedis'
    BY <1>2, <2>1, <2>3 DEF OneFeedInRedis, Stamped
  <2> QED BY <1>2, <1>4, <2>1, <2>3, <2>4, <2>5
<1>6. CASE label # "trips"
  <2>1. data' = k /\ added' = added /\ feedTs' = feedTs
    BY <1>6 DEF Apply, k
  <2>2. KeysInTime'
    BY <1>3, <2>1 DEF KeysInTime, KeyInTime, Stamped, Lifetime
  <2>3. OneFeedInRedis'
    BY <1>6 DEF OneFeedInRedis
  <2> QED BY <1>2, <2>1, <2>2, <2>3 DEF TypeOK
<1> QED BY <1>5, <1>6

\* What a poll writes was let through.
LEMMA WrittenInTime ==
    ASSUME IInv, NEW p \in Poll, pc[p] = "write"
    PROVE  /\ got[p] \in Fetched
           /\ label # "vehicles" /\ got[p] # NoStamp =>
                 got[p] \in Nat /\ now - got[p] <= MaxAge + MaxPoll
           /\ label # "vehicles" => Passed(got[p])
<1>1. got[p] \in Fetched /\ (label # "vehicles" => Passed(got[p]))
  BY DEF IInv, Taken
<1>2. running
  BY DEF IInv, OnePoll, Busy
<1> QED BY <1>1, <1>2, PassedInTime DEF IInv

\* Steps of a poll that leave Redis and what is marked alone.
LEMMA PollSteps ==
    ASSUME IInv, NEW p \in Poll,
           \/ StartPoll(p) \/ EndPoll(p) \/ FetchFails(p) \/ Lookup(p) \/ WriteNothing(p)
           \/ \E f \in Fetched : Fetch(p, f)
    PROVE  IInv'
<1> USE DEF IInv
<1>0. UNCHANGED <<label, now, last, redis, acked>>
  BY DEF StartPoll, EndPoll, FetchFails, Lookup, WriteNothing, Fetch
<1>1. /\ UNCHANGED <<data, added, feedTs>>
      /\ Marked' /\ NotBlocked' /\ KeysInTime' /\ OneFeedInRedis'
  BY <1>0 DEF redis, Marked, NotBlocked, KeysInTime, KeyInTime, Lifetime, OneFeedInRedis, Stamped
<1>2. CASE StartPoll(p)
  <2>1. /\ ~running /\ running' = TRUE /\ since' = now /\ got' = got
        /\ pc' = [pc EXCEPT ![p] = "fetch"]
    BY <1>2 DEF StartPoll, Goto
  <2>2. \A q \in Poll : pc[q] = "idle"
    BY <2>1 DEF OnePoll, Busy
  <2>3. TypeOK'
    BY <1>0, <1>1, <2>1 DEF TypeOK
  <2>4. OnePoll'
    BY <1>0, <2>1, <2>2, FeedAssumption DEF OnePoll, Busy, TypeOK
  <2>5. Taken'
    BY <2>1, <2>2 DEF Taken, TypeOK
  <2> QED BY <1>1, <2>3, <2>4, <2>5
<1>3. CASE EndPoll(p)
  <2>1. /\ running' = FALSE /\ since' = since /\ got' = got /\ pc[p] = "settled"
        /\ pc' = [pc EXCEPT ![p] = "idle"]
    BY <1>3 DEF EndPoll, Goto
  <2>2. \A q \in Poll : q # p => pc[q] = "idle"
    BY <2>1 DEF OnePoll, Busy
  <2>3. \A q \in Poll : pc'[q] = "idle"
    BY <2>1, <2>2 DEF TypeOK
  <2> QED BY <1>0, <1>1, <2>1, <2>3 DEF TypeOK, OnePoll, Busy, Taken
<1>4. ASSUME NEW f \in Fetched, Fetch(p, f) PROVE IInv'
  <2>1. pc[p] = "fetch" /\ running' = running /\ since' = since
    BY <1>4 DEF Fetch
  <2>2. CASE label = "vehicles" \/ isFeedFresh(f)
    <3>1. /\ pc' = [pc EXCEPT ![p] = IF label = "vehicles" THEN "write" ELSE "lookup"]
          /\ got' = [got EXCEPT ![p] = f]
      BY <1>4, <2>2 DEF Fetch, Goto
    <3>2. label # "vehicles" => Passed(f)
      <4>1. f # NoStamp => f \in Nat
        BY StampType
      <4> QED BY <2>2, <4>1, FeedAssumption DEF isFeedFresh, Passed, OnePoll, TypeOK
    <3>3. TypeOK'
      BY <1>0, <1>1, <2>1, <3>1 DEF TypeOK
    <3>4. OnePoll'
      BY <1>0, <2>1, <3>1 DEF OnePoll, Busy, TypeOK
    <3>5. Taken'
      BY <1>0, <2>1, <3>1, <3>2 DEF Taken, Passed, TypeOK
    <3> QED BY <1>1, <3>3, <3>4, <3>5
  <2>3. CASE ~(label = "vehicles" \/ isFeedFresh(f))
    <3>1. pc' = [pc EXCEPT ![p] = "settled"] /\ got' = [got EXCEPT ![p] = Nothing]
      BY <1>4, <2>3 DEF Fetch, Settle, Goto
    <3> QED BY <1>0, <1>1, <2>1, <3>1 DEF TypeOK, OnePoll, Busy, Taken, Passed
  <2> QED BY <2>2, <2>3
<1>5. CASE FetchFails(p) \/ WriteNothing(p)
  <2>1. /\ pc[p] # "idle" /\ running' = running /\ since' = since
        /\ pc' = [pc EXCEPT ![p] = "settled"] /\ got' = [got EXCEPT ![p] = Nothing]
    BY <1>5 DEF FetchFails, WriteNothing, Settle, Goto
  <2> QED BY <1>0, <1>1, <2>1 DEF TypeOK, OnePoll, Busy, Taken, Passed
<1>6. CASE Lookup(p)
  <2>1. /\ pc[p] = "lookup" /\ UNCHANGED <<running, since, got>>
        /\ pc' = [pc EXCEPT ![p] = "write"]
    BY <1>6 DEF Lookup, Goto
  <2> QED BY <1>0, <1>1, <2>1 DEF TypeOK, OnePoll, Busy, Taken, Passed
<1> QED BY <1>2, <1>3, <1>4, <1>5, <1>6

\* What this process marks is a timestamp that it let through.
LEMMA NoteType ==
    ASSUME NEW mark \in Written, NEW f \in Fetched
    PROVE  /\ Note(mark, f) \in Written
           /\ Note(mark, f) # mark => label # "vehicles" /\ f # NoStamp /\ Note(mark, f) = f
  BY StampType DEF Note, Written

\* What it knows it wrote is a timestamp, and what it marks if it marks any.
LEMMA KnownType ==
    ASSUME NEW f \in Fetched, acked \in Written
    PROVE  /\ Known(f) \in Written
           /\ label # "vehicles" /\ acked = last => Known(f) = Note(last, f)
  BY StampType DEF Known, Note, Written

\* The steps that write, whether the reply comes back or not.
LEMMA WriteSteps ==
    ASSUME IInv, NEW p \in Poll, NEW updates \in BOOLEAN, NEW extra \in BOOLEAN,
           Write(p, updates, extra) \/ WriteFails(p, updates, extra)
    PROVE  IInv'
<1> USE DEF IInv
<1> DEFINE f == got[p]
<1>1. /\ pc[p] = "write" /\ UNCHANGED <<label, now, running, since>>
      /\ pc' = [pc EXCEPT ![p] = "settled"] /\ got' = [got EXCEPT ![p] = Nothing]
  BY DEF Write, WriteFails, Settle, Goto
<1>2. /\ f \in Fetched
      /\ label # "vehicles" /\ f # NoStamp => f \in Nat /\ now - f <= MaxAge + MaxPoll
      /\ label # "vehicles" => Passed(f)
  BY <1>1, WrittenInTime
<1>3. Apply(f, updates, extra) \/ UNCHANGED redis
  BY DEF Write, WriteFails
<1>4. \/ last' = last /\ acked' = acked
      \/ last' = Note(last, f) /\ acked' = Known(f)
  BY DEF Write, WriteFails
<1>5. last \in Written /\ acked \in Written
  BY DEF TypeOK
<1> HIDE DEF f
<1>6. /\ data' \in KeyOf(Fetched) /\ added' \in KeyOf(Fetched) /\ feedTs' \in KeyOf(Nat)
      /\ KeysInTime' /\ OneFeedInRedis'
  <2>1. CASE Apply(f, updates, extra)
    BY <1>1, <1>2, <2>1, ApplyKeys
  <2>2. CASE UNCHANGED redis
    BY <1>1, <2>2 DEF redis, TypeOK, KeysInTime, KeyInTime, Lifetime, OneFeedInRedis, Stamped
  <2> QED BY <1>3, <2>1, <2>2
<1>7. TypeOK'
  BY <1>1, <1>2, <1>4, <1>5, <1>6, NoteType, KnownType DEF TypeOK
<1>8. OnePoll'
  BY <1>1 DEF OnePoll, Busy, TypeOK
<1>9. Taken'
  <2>1. \A q \in Poll : pc'[q] \notin {"lookup", "write"}
    BY <1>1 DEF OnePoll, Busy, TypeOK
  <2> QED BY <2>1 DEF Taken
<1>10. Marked' /\ NotBlocked'
  <2>1. last' # last => label # "vehicles" /\ f # NoStamp /\ last' = f
    BY <1>2, <1>4, <1>5, NoteType
  <2>2. last' # last => last' <= now + MaxFuture
    BY <1>2, <2>1 DEF Passed
  <2>3. Marked'
    BY <1>1, <1>2, <1>4, <1>5, <2>1, KnownType DEF Marked
  <2> QED BY <1>1, <2>1, <2>2, <2>3 DEF NotBlocked
<1> QED BY <1>6, <1>7, <1>8, <1>9, <1>10

\* A worker that dies leaves what it had sent to Redis.
LEMMA CrashStep ==
    ASSUME IInv, Crash
    PROVE  IInv'
<1> USE DEF IInv
<1>1. /\ running' = FALSE /\ last' = Nothing /\ acked' = Nothing
      /\ pc' = [p \in Poll |-> "idle"] /\ got' = [p \in Poll |-> Nothing]
      /\ UNCHANGED <<label, now, since>>
  BY DEF Crash
<1>2. /\ data' \in KeyOf(Fetched) /\ added' \in KeyOf(Fetched) /\ feedTs' \in KeyOf(Nat)
      /\ KeysInTime' /\ OneFeedInRedis'
  <2>1. CASE UNCHANGED redis
    BY <1>1, <2>1 DEF redis, TypeOK, KeysInTime, KeyInTime, Lifetime, OneFeedInRedis, Stamped
  <2>2. ASSUME NEW p \in Poll, NEW updates \in BOOLEAN, NEW extra \in BOOLEAN,
               pc[p] = "write", Apply(got[p], updates, extra)
        PROVE  /\ data' \in KeyOf(Fetched) /\ added' \in KeyOf(Fetched) /\ feedTs' \in KeyOf(Nat)
              /\ KeysInTime' /\ OneFeedInRedis'
    BY <1>1, <2>2, WrittenInTime, ApplyKeys
  <2> QED BY <2>1, <2>2 DEF Crash
<1> QED BY <1>1, <1>2 DEF TypeOK, OnePoll, Busy, Taken, Marked, NotBlocked, Written

\* Keys that are gone agree with any feed.
LEMMA LoseStep ==
    ASSUME IInv, RedisLosesKeys
    PROVE  IInv'
<1> USE DEF IInv
<1>1. /\ UNCHANGED <<label, now, running, pc, got, since, last, acked>>
      /\ data' \in {data, Nothing} /\ added' \in {added, Nothing} /\ feedTs' \in {feedTs, Nothing}
  BY DEF RedisLosesKeys, worker
<1>2. TypeOK'
  BY <1>1 DEF TypeOK, KeyOf
<1>3. KeysInTime'
  BY <1>1 DEF KeysInTime, KeyInTime, Lifetime, Stamped
<1>4. OneFeedInRedis'
  BY <1>1 DEF OneFeedInRedis, Stamped
<1> QED BY <1>1, <1>2, <1>3, <1>4 DEF OnePoll, Busy, Taken, Passed, Marked, NotBlocked

\* A key is left only while its time is not over.
LEMMA LeftKey ==
    ASSUME NEW key, KeyInTime(key), TypeOK, NEW V, key \in KeyOf(V), V \subseteq Nat \cup {NoStamp}
    PROVE  Left(key) # Nothing =>
              Left(key) = key /\ (Stamped(key) => now + 1 < key.until)
<1> SUFFICES ASSUME Left(key) # Nothing PROVE Left(key) = key /\ (Stamped(key) => now + 1 < key.until)
  OBVIOUS
<1>1. Left(key) = key /\ key # Nothing /\ ~Expired(key)
  BY DEF Left
<1>2. key.until \in Nat
  BY <1>1 DEF KeyOf
<1>3. now \in Nat
  BY DEF TypeOK
<1> QED BY <1>1, <1>2, <1>3 DEF Expired

\* Time goes on: the poll is not too long, and keys expire.
LEMMA AdvanceStep ==
    ASSUME IInv, Advance
    PROVE  IInv'
<1> USE DEF IInv
<1>1. /\ UNCHANGED <<label, running, pc, got, since, last, acked>>
      /\ now' = now + 1 /\ (running => now - since < MaxPoll)
      /\ data' = Left(data) /\ added' = Left(added) /\ feedTs' = Left(feedTs)
  BY DEF Advance, worker
<1>2. /\ data' \in {data, Nothing} /\ added' \in {added, Nothing} /\ feedTs' \in {feedTs, Nothing}
  BY <1>1 DEF Left
<1>3. TypeOK'
  BY <1>1, <1>2 DEF TypeOK, KeyOf
<1>4. OnePoll'
  BY <1>1, FeedAssumption DEF OnePoll, Busy, TypeOK
<1>5. Taken'
  <2>1. \A f \in Fetched : Passed(f) => Passed(f)'
    BY <1>1, StampType, FeedAssumption DEF Passed, TypeOK
  <2>2. \A p \in Poll : got'[p] = got[p] /\ pc'[p] = pc[p]
    BY <1>1
  <2> QED BY <1>1, <2>1, <2>2 DEF Taken, Passed
<1>6. Marked' /\ NotBlocked'
  BY <1>1, FeedAssumption DEF Marked, NotBlocked, TypeOK, Written
<1>7. KeysInTime'
  <2> SUFFICES ASSUME label # "vehicles" PROVE KeyInTime(data)' /\ KeyInTime(added)'
    BY <1>1 DEF KeysInTime
  <2>1. KeyInTime(data) /\ KeyInTime(added) /\ data \in KeyOf(Fetched) /\ added \in KeyOf(Fetched)
    BY DEF KeysInTime, TypeOK
  <2>2. Fetched \subseteq Nat \cup {NoStamp}
    BY StampType
  <2>3. /\ data' # Nothing => data' = data /\ (Stamped(data) => now' < data.until)
        /\ added' # Nothing => added' = added /\ (Stamped(added) => now' < added.until)
    BY <1>1, <2>1, <2>2, LeftKey
  <2> QED BY <1>1, <2>1, <2>3 DEF KeyInTime, Stamped, Lifetime
<1>8. OneFeedInRedis'
  BY <1>1, <1>2 DEF OneFeedInRedis, Stamped
<1> QED BY <1>3, <1>4, <1>5, <1>6, <1>7, <1>8

\* Every step keeps the invariant.
LEMMA Inductive == IInv /\ [Next]_vars => IInv'
<1> SUFFICES ASSUME IInv, [Next]_vars PROVE IInv'
  OBVIOUS
<1>1. ASSUME NEW p \in Poll, Step(p) PROVE IInv'
  BY <1>1, PollSteps, WriteSteps DEF Step
<1>2. CASE UNCHANGED vars
  BY <1>2 DEF vars, worker, redis, IInv, TypeOK, OnePoll, Busy, Taken, Passed, Marked, NotBlocked,
              KeysInTime, KeyInTime, Lifetime, OneFeedInRedis, Stamped
<1> QED BY <1>1, <1>2, CrashStep, LoseStep, AdvanceStep DEF Next

\* Nothing was polled and Redis is empty at first.
LEMMA InitInv == Init => IInv
<1> SUFFICES ASSUME Init PROVE IInv
  OBVIOUS
<1>1. TypeOK
  BY DEF Init, TypeOK, Written, KeyOf
<1>2. OnePoll /\ Taken
  BY FeedAssumption DEF Init, OnePoll, Busy, Taken
<1>3. Marked /\ NotBlocked /\ KeysInTime /\ OneFeedInRedis
  BY DEF Init, Marked, NotBlocked, KeysInTime, KeyInTime, Stamped, OneFeedInRedis
<1> QED BY <1>1, <1>2, <1>3 DEF IInv

\* The invariant holds in every reachable state.
LEMMA Invariant == Spec => []IInv
  BY InitInv, Inductive, PTL DEF Spec

\* What the poll and Redis hold has its type.
THEOREM FeedTypes == Spec => []TypeOK
  BY Invariant, PTL DEF IInv

\* The hashes that writeTripUpdates swaps and the timestamp are of one feed, whichever
\* of them expired or was evicted.
THEOREM OneFeed == Spec => []OneFeedInRedis
  BY Invariant, PTL DEF IInv

\* A marked timestamp lies at most MaxFuture ahead: isFeedFresh shuts later feeds out
\* for no longer.
THEOREM NeverBlocked == Spec => []NotBlocked
  BY Invariant, PTL DEF IInv

\* Readers find no feed that is older than the age limit, the time of a poll and the
\* time to live together.
THEOREM AgeOfServed == Spec => []ServedAge
<1>1. IInv => ServedAge
  <2> SUFFICES ASSUME IInv, label # "vehicles", NEW key \in {data, added}, Stamped(key)
               PROVE  now - key.value < Lifetime
    BY DEF ServedAge, Lifetime
  <2>1. now < key.until /\ key.until - key.value <= Lifetime
    BY DEF IInv, KeysInTime, KeyInTime
  <2>2. key \in KeyOf(Fetched) /\ key # Nothing
    BY DEF IInv, TypeOK, Stamped
  <2>3. key.value \in Fetched /\ key.until \in Nat
    BY <2>2, KeyType
  <2>4. key.value \in Nat
    BY <2>3, StampType DEF Stamped
  <2> QED BY <2>1, <2>3, <2>4, LifetimeType DEF IInv, TypeOK
<1> QED BY <1>1, Invariant, PTL

NoOlder ==
    label # "vehicles" /\ acked # Nothing =>
        /\ Puts(data, data') => data'.value >= acked
        /\ Puts(added, added') => added'.value >= acked

\* No step puts trip updates or alerts into Redis that are older than those which this
\* process knows it wrote, in neither of the two hashes.
THEOREM NoStale == Spec => NoStaleOverwrite
<1>1. IInv /\ [Next]_vars => NoOlder
  <2> SUFFICES ASSUME IInv, [Next]_vars, label # "vehicles", acked # Nothing,
                      Puts(data, data') \/ Puts(added, added')
               PROVE  /\ Puts(data, data') => data'.value >= acked
                      /\ Puts(added, added') => added'.value >= acked
    BY DEF NoOlder
  <2>1. acked = last /\ last # Nothing
    BY DEF IInv, Marked
  <2>2. PICK p \in Poll, updates \in BOOLEAN, extra \in BOOLEAN :
           pc[p] = "write" /\ Apply(got[p], updates, extra) /\ UNCHANGED <<label, now>>
    BY DEF Next, Step, StartPoll, EndPoll, FetchFails, Fetch, Lookup, WriteNothing, Write, WriteFails,
           Crash, RedisLosesKeys, Advance, Left, redis, vars, Puts
  <2>3. got[p] \in Fetched /\ Passed(got[p])
        /\ (got[p] # NoStamp => got[p] \in Nat /\ now - got[p] <= MaxAge + MaxPoll)
    BY <2>2, WrittenInTime
  <2>4. /\ Puts(data, data') => data'.value = got[p] /\ got[p] # NoStamp
        /\ Puts(added, added') => added'.value = got[p] /\ got[p] # NoStamp
    BY <2>2, <2>3, ApplyKeys DEF IInv, Puts
  <2> QED BY <2>1, <2>3, <2>4 DEF Passed
<1>2. Spec => [][NoOlder]_vars
  BY <1>1, Invariant, PTL DEF Spec
<1> QED BY <1>2, PTL DEF NoStaleOverwrite, NoOlder
=============================================================================
