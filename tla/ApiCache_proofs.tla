--------------------------- MODULE ApiCache_proofs ---------------------------
(***************************************************************************)
(* For all clients, subjects, limits, feeds and computing times: answers   *)
(* are never staler than the time to live and the time they take, a 404 is *)
(* true, and a kept answer is one to the request that it is given to.      *)
(***************************************************************************)
EXTENDS ApiCache, TLAPS

\* No feed in these parts was replaced longer than b ago.
Fresh(parts, b) ==
    \A i \in DOMAIN parts : parts[i] < feed => past[parts[i]] <= b

\* The same after the step.
FreshNext(parts, b) ==
    \A i \in DOMAIN parts : parts[i] < feed' => past'[parts[i]] <= b

\* The live feed and those to come were not replaced.
LiveNow == \A f \in Feed : f >= feed => past[f] = 0

\* What a request has read was live when it was asked or later.
AskedFresh == \A c \in Client : asked[c] # None => Fresh(asked[c].parts, asked[c].age)

\* What is kept gets older as its time to live runs out.
CachedFresh ==
    \A k \in Keys : redis[k] # None =>
        Fresh(redis[k].parts, Ttl(endpoint) + ComputeTime - redis[k].left)

Rising(parts) == \A i, j \in DOMAIN parts : i < j => parts[i] <= parts[j]

\* Queries read feeds that have come since the request, in their order.
AskedInOrder ==
    \A c \in Client : asked[c] # None =>
        /\ asked[c].since <= feed
        /\ Rising(asked[c].parts)
        /\ \A i \in DOMAIN asked[c].parts : asked[c].parts[i] <= feed

\* Under a key is an answer to a request with that key, and it is not a 404.
CachedInOrder ==
    \A k \in Keys : redis[k] # None =>
        /\ redis[k].status = "OK"
        /\ Key(endpoint, redis[k].of) = k
        /\ Rising(redis[k].parts)

\* The time to live is a number of ticks.
LEMMA TtlType == TypeOK => Ttl(endpoint) \in 0 .. 3
  BY DEF TypeOK, Endpoint, Ttl

\* Redis gives nothing or what is under the key of the request.
LEMMA CachedType ==
    ASSUME TypeOK, NEW r \in Request, Cached(r) # None
    PROVE  /\ Key(endpoint, r) \in Keys
           /\ Cached(r) = redis[Key(endpoint, r)]
           /\ redis[Key(endpoint, r)] \in CachedAnswer
  BY DEF TypeOK, Cached, Keys

\* What is kept is under the key of its request, for the whole time to live.
LEMMA KeepType ==
    ASSUME TypeOK, NEW r \in Request, NEW status \in {"OK", "NotFound"}, NEW parts \in Seq(Feed),
           Keep(r, status, parts), UNCHANGED endpoint
    PROVE  /\ redis' \in [Keys -> CachedAnswer \cup {None}]
           /\ \A k \in Keys : redis'[k] # redis[k] =>
                 /\ k = Key(endpoint, r)
                 /\ redis'[k] = [status |-> status, parts |-> parts, of |-> r, left |-> Ttl(endpoint)]
<1>1. Key(endpoint, r) \in Keys
  BY DEF Keys
<1>2. CASE up /\ Ttl(endpoint) > 0
  <2>1. Ttl(endpoint) \in 1 .. Ttl(endpoint)
    BY <1>2, TtlType
  <2>2. [status |-> status, parts |-> parts, of |-> r, left |-> Ttl(endpoint)] \in CachedAnswer
    BY <2>1 DEF CachedAnswer
  <2> QED BY <1>1, <1>2, <2>2 DEF TypeOK, Keep
<1>3. CASE ~(up /\ Ttl(endpoint) > 0)
  BY <1>3 DEF TypeOK, Keep
<1> QED BY <1>2, <1>3

\* An entry that is not gone loses a tick of its time.
LEMMA ExpireType ==
    ASSUME TypeOK, NEW k \in Keys
    PROVE  /\ Expire(redis[k]) \in CachedAnswer \cup {None}
           /\ Expire(redis[k]) # None =>
                 /\ redis[k] # None
                 /\ redis[k] \in CachedAnswer
                 /\ Expire(redis[k]) = [redis[k] EXCEPT !.left = @ - 1]
<1>1. CASE redis[k] = None \/ redis[k].left = 1
  BY <1>1 DEF Expire
<1>2. CASE ~(redis[k] = None \/ redis[k].left = 1)
  <2>1. redis[k] \in CachedAnswer
    BY <1>2 DEF TypeOK
  <2>2. redis[k].left \in 1 .. Ttl(endpoint)
    BY <2>1 DEF CachedAnswer
  <2>3. redis[k].left - 1 \in 1 .. Ttl(endpoint)
    BY <1>2, <2>2, TtlType
  <2> QED BY <1>2, <2>1, <2>3 DEF Expire, CachedAnswer
<1> QED BY <1>1, <1>2

\* An answer in the type of replies.
LEMMA AnswerType ==
    ASSUME NEW status \in {"OK", "NotFound", "Error"}, NEW parts \in Seq(Feed),
           NEW to \in Request, NEW of \in Request, NEW s \in Feed
    PROVE  /\ Answer(status, parts, to, of, s) \in Reply
           /\ Answer(status, parts, to, of, s).status = status
           /\ Answer(status, parts, to, of, s).parts = parts
           /\ Answer(status, parts, to, of, s).to = to
           /\ Answer(status, parts, to, of, s).of = of
           /\ Answer(status, parts, to, of, s).since = s
  BY DEF Answer, Reply

\* A request that is done is answered from what its queries returned.
LEMMA DoneType ==
    ASSUME TypeOK, NEW c \in Client, asked[c] # None,
           NEW status \in {"OK", "NotFound", "Error"}, Done(c, status),
           UNCHANGED <<endpoint, feed>>
    PROVE  /\ asked[c] \in Pending
           /\ asked' \in [Client -> Pending \cup {None}]
           /\ \A d \in Client : asked'[d] # None => asked'[d] = asked[d]
           /\ reply' \in Reply
           /\ reply'.status = status
           /\ reply'.parts = asked[c].parts
           /\ reply'.to = asked[c].request
           /\ reply'.of = asked[c].request
           /\ reply'.since = asked[c].since
<1>1. asked[c] \in Pending
  BY DEF TypeOK
<1>2. /\ asked[c].parts \in Seq(Feed) /\ asked[c].request \in Request
      /\ asked[c].since \in Feed
  BY <1>1 DEF Pending
<1>3. reply' = Answer(status, asked[c].parts, asked[c].request, asked[c].request, asked[c].since)
  BY DEF Done
<1>4. /\ asked' \in [Client -> Pending \cup {None}]
      /\ \A d \in Client : asked'[d] # None => asked'[d] = asked[d]
  BY DEF TypeOK, Done
<1> QED BY <1>1, <1>2, <1>3, <1>4, AnswerType

\* A hit gives the entry under the key of the request.
LEMMA HitType ==
    ASSUME TypeOK, NEW c \in Client, NEW r \in Request, Hit(c, r)
    PROVE  /\ Key(endpoint, r) \in Keys
           /\ redis[Key(endpoint, r)] \in CachedAnswer
           /\ redis[Key(endpoint, r)] # None
           /\ reply' \in Reply
           /\ reply'.status = redis[Key(endpoint, r)].status
           /\ reply'.parts = redis[Key(endpoint, r)].parts
           /\ reply'.to = r
           /\ reply'.of = redis[Key(endpoint, r)].of
           /\ reply'.since = feed
<1>1. Cached(r) # None
  BY DEF Hit
<1> DEFINE e == redis[Key(endpoint, r)]
<1>2. Key(endpoint, r) \in Keys /\ Cached(r) = e /\ e \in CachedAnswer /\ e # None
  BY <1>1, CachedType
<1>3. e.status \in {"OK", "NotFound", "Error"} /\ e.parts \in Seq(Feed) /\ e.of \in Request
  BY <1>2 DEF CachedAnswer
<1>4. reply' = Answer(e.status, e.parts, r, e.of, feed)
  BY <1>2 DEF Hit
<1>5. feed \in Feed
  BY DEF TypeOK
<1> HIDE DEF e
<1>6. /\ reply' \in Reply /\ reply'.status = e.status /\ reply'.parts = e.parts
      /\ reply'.to = r /\ reply'.of = e.of /\ reply'.since = feed
  BY <1>3, <1>4, <1>5, AnswerType
<1> QED BY <1>2, <1>6 DEF e

\* A query adds the live feed to what the request has read.
LEMMA QueryType ==
    ASSUME TypeOK, NEW c \in Client, Query(c)
    PROVE  /\ asked[c] # None /\ asked[c] \in Pending
           /\ asked' = [asked EXCEPT ![c] = [asked[c] EXCEPT !.parts = Append(@, feed)]]
           /\ asked'[c] \in Pending
           /\ asked'[c].parts = Append(asked[c].parts, feed)
           /\ asked'[c].age = asked[c].age /\ asked'[c].since = asked[c].since
<1>1. asked[c] # None /\ asked[c] \in Pending
  BY DEF TypeOK, Query
<1>2. Append(asked[c].parts, feed) \in Seq(Feed)
  BY <1>1 DEF TypeOK, Pending
<1>3. asked' = [asked EXCEPT ![c] = [asked[c] EXCEPT !.parts = Append(@, feed)]]
  BY DEF TypeOK, Query
<1>4. asked'[c] = [asked[c] EXCEPT !.parts = Append(@, feed)]
  BY <1>3 DEF TypeOK
<1> QED BY <1>1, <1>2, <1>3, <1>4 DEF Pending

\* A tick lets every request that is not answered get older.
LEMMA TickType ==
    ASSUME TypeOK, Tick, NEW c \in Client, asked'[c] # None
    PROVE  /\ asked[c] # None /\ asked[c] \in Pending /\ asked'[c] \in Pending
           /\ asked'[c] = [asked[c] EXCEPT !.age = @ + 1]
           /\ asked'[c].age = asked[c].age + 1
           /\ asked'[c].parts = asked[c].parts /\ asked'[c].since = asked[c].since
<1>1. asked[c] # None
  BY DEF Tick
<1>2. asked'[c] = [asked[c] EXCEPT !.age = @ + 1] /\ asked[c].age < ComputeTime
  BY <1>1 DEF Tick
<1>3. asked[c] \in Pending
  BY <1>1 DEF TypeOK
<1>4. asked[c].age + 1 \in 0 .. ComputeTime
  BY <1>2, <1>3, CacheAssumption DEF Pending
<1>5. asked'[c] \in Pending
  BY <1>2, <1>3, <1>4 DEF Pending, Tick
<1> QED BY <1>1, <1>2, <1>3, <1>5 DEF Pending

\* The parts of the state keep their types.
LEMMA TypeInductive == TypeOK /\ [Next]_vars => TypeOK'
<1> SUFFICES ASSUME TypeOK, [Next]_vars PROVE TypeOK'
  OBVIOUS
<1>1. ASSUME NEW c \in Client, NEW r \in Request, Hit(c, r) PROVE TypeOK'
  <2>1. reply' \in Reply
    BY <1>1, HitType
  <2>2. UNCHANGED <<endpoint, present, feed, past, up, redis, asked>>
    BY <1>1 DEF Hit
  <2>3. Keys' = Keys /\ CachedAnswer' = CachedAnswer /\ Pending' = Pending /\ Reply' = Reply
    BY <2>2 DEF Keys, CachedAnswer, Pending, Reply, Request
  <2> QED BY <2>1, <2>2, <2>3 DEF TypeOK
<1>2. ASSUME NEW c \in Client, NEW r \in Request, Miss(c, r) PROVE TypeOK'
  <2>1. UNCHANGED <<endpoint, present, feed, past, up, redis>> /\ reply' = None
    BY <1>2 DEF Miss
  <2>2. [request |-> r, parts |-> <<>>, since |-> feed, age |-> 0] \in Pending
    BY CacheAssumption DEF Pending, TypeOK
  <2>3. asked' \in [Client -> Pending \cup {None}]
    BY <1>2, <2>2 DEF Miss, TypeOK
  <2>4. Keys' = Keys /\ CachedAnswer' = CachedAnswer /\ Pending' = Pending /\ Reply' = Reply
    BY <2>1 DEF Keys, CachedAnswer, Pending, Reply, Request
  <2> QED BY <2>1, <2>3, <2>4 DEF TypeOK
<1>3. ASSUME NEW c \in Client, Query(c) PROVE TypeOK'
  <2>1. UNCHANGED <<endpoint, present, feed, past, up, redis>> /\ reply' = None
    BY <1>3 DEF Query
  <2>2. asked' \in [Client -> Pending \cup {None}]
    <3>1. /\ asked' = [asked EXCEPT ![c] = [asked[c] EXCEPT !.parts = Append(@, feed)]]
          /\ asked'[c] \in Pending
      BY <1>3, QueryType
    <3>2. asked' = [asked EXCEPT ![c] = asked'[c]]
      BY <3>1 DEF TypeOK
    <3> QED BY <3>1, <3>2 DEF TypeOK
  <2>3. Keys' = Keys /\ CachedAnswer' = CachedAnswer /\ Pending' = Pending /\ Reply' = Reply
    BY <2>1 DEF Keys, CachedAnswer, Pending, Reply, Request
  <2> QED BY <2>1, <2>2, <2>3 DEF TypeOK
<1>4. ASSUME NEW c \in Client, NotFound(c) \/ Fails(c) PROVE TypeOK'
  <2>1. UNCHANGED <<endpoint, present, feed, past, up, redis>>
    BY <1>4 DEF NotFound, Fails
  <2>2. asked' \in [Client -> Pending \cup {None}] /\ reply' \in Reply
    BY <1>4, <2>1, DoneType DEF NotFound, Fails
  <2>3. Keys' = Keys /\ CachedAnswer' = CachedAnswer /\ Pending' = Pending /\ Reply' = Reply
    BY <2>1 DEF Keys, CachedAnswer, Pending, Reply, Request
  <2> QED BY <2>1, <2>2, <2>3 DEF TypeOK
<1>5. ASSUME NEW c \in Client, Finish(c) PROVE TypeOK'
  <2>1. UNCHANGED <<endpoint, present, feed, past, up>>
    BY <1>5 DEF Finish
  <2>2. asked[c] \in Pending /\ asked' \in [Client -> Pending \cup {None}] /\ reply' \in Reply
    BY <1>5, <2>1, DoneType DEF Finish
  <2>3. asked[c].request \in Request /\ asked[c].parts \in Seq(Feed)
    BY <2>2 DEF Pending
  <2>4. redis' \in [Keys -> CachedAnswer \cup {None}]
    BY <1>5, <2>1, <2>3, KeepType DEF Finish
  <2>5. Keys' = Keys /\ CachedAnswer' = CachedAnswer /\ Pending' = Pending /\ Reply' = Reply
    BY <2>1 DEF Keys, CachedAnswer, Pending, Reply, Request
  <2> QED BY <2>1, <2>2, <2>4, <2>5 DEF TypeOK
<1>6. CASE Swap
  <2>1. feed' \in Feed
    BY <1>6, CacheAssumption DEF Swap, TypeOK, Feed
  <2> QED BY <1>6, <2>1 DEF Swap, TypeOK, Keys, CachedAnswer, Pending, Reply, Request
<1>7. CASE RedisFails \/ RedisBack
  BY <1>7 DEF RedisFails, RedisBack, TypeOK, Keys, CachedAnswer, Pending, Reply, Request
<1>8. ASSUME NEW k \in Keys, Evict(k) PROVE TypeOK'
  BY <1>8 DEF Evict, TypeOK, Keys, CachedAnswer, Pending, Reply, Request
<1>9. CASE Tick
  <2>1. UNCHANGED <<endpoint, present, feed, up>> /\ reply' = None
    BY <1>9 DEF Tick
  <2>2. past' \in [Feed -> 0 .. MaxAge(endpoint)]
    <3>1. MaxAge(endpoint) \in Nat
      BY TtlType, CacheAssumption DEF MaxAge
    <3>2. \A f \in Feed : past[f] \in 0 .. MaxAge(endpoint) /\ past[f] \in Int
      BY <3>1 DEF TypeOK
    <3> QED BY <1>9, <3>1, <3>2 DEF Tick
  <2>3. redis' \in [Keys -> CachedAnswer \cup {None}]
    BY <1>9, ExpireType DEF Tick
  <2>4. asked' \in [Client -> Pending \cup {None}]
    <3>1. \A c \in Client : asked'[c] \in Pending \cup {None}
      BY <1>9, TickType
    <3> QED BY <1>9, <3>1 DEF Tick
  <2>5. Keys' = Keys /\ CachedAnswer' = CachedAnswer /\ Pending' = Pending /\ Reply' = Reply
    BY <2>1 DEF Keys, CachedAnswer, Pending, Reply, Request
  <2> QED BY <2>1, <2>2, <2>3, <2>4, <2>5 DEF TypeOK
<1>10. CASE UNCHANGED vars
  BY <1>10 DEF vars, TypeOK, Keys, CachedAnswer, Pending, Reply, Request
<1> QED BY <1>1, <1>2, <1>3, <1>4, <1>5, <1>6, <1>7, <1>8, <1>9, <1>10 DEF Next

\* A feed is replaced by a swap only, and what was read is not older after it.
LEMMA FreshStays ==
    ASSUME TypeOK, LiveNow, Swap \/ UNCHANGED <<feed, past>>, UNCHANGED endpoint,
           NEW parts \in Seq(Feed), NEW b \in Nat, Fresh(parts, b)
    PROVE  FreshNext(parts, b)
<1> SUFFICES ASSUME NEW i \in DOMAIN parts, parts[i] < feed'
             PROVE  past'[parts[i]] <= b
  BY DEF FreshNext
<1>1. parts[i] \in Feed
  OBVIOUS
<1>2. CASE Swap
  <2>1. past' = past /\ feed' = feed + 1
    BY <1>2 DEF Swap
  <2>2. CASE parts[i] < feed
    BY <2>1, <2>2 DEF Fresh
  <2>3. CASE parts[i] >= feed
    BY <1>1, <2>1, <2>3 DEF LiveNow
  <2> QED BY <1>1, <2>2, <2>3 DEF Feed, TypeOK
<1>3. CASE UNCHANGED <<feed, past>>
  BY <1>3 DEF Fresh
<1> QED BY <1>2, <1>3

\* A tick makes what was read older by at most a tick.
LEMMA FreshTick ==
    ASSUME TypeOK, Tick, NEW parts \in Seq(Feed), NEW b \in Nat, Fresh(parts, b)
    PROVE  FreshNext(parts, b + 1)
<1> SUFFICES ASSUME NEW i \in DOMAIN parts, parts[i] < feed'
             PROVE  past'[parts[i]] <= b + 1
  BY DEF FreshNext
<1>1. parts[i] \in Feed /\ feed' = feed
  BY DEF Tick
<1>2. past[parts[i]] <= b
  BY <1>1 DEF Fresh
<1>3. MaxAge(endpoint) \in Nat
  BY TtlType, CacheAssumption DEF MaxAge
<1>4. past[parts[i]] \in Int
  BY <1>1, <1>3 DEF TypeOK
<1>5. past'[parts[i]] \in {past[parts[i]], past[parts[i]] + 1}
  BY <1>1 DEF Tick
<1> QED BY <1>2, <1>4, <1>5

\* The live feed was not replaced.
LEMMA LiveInductive == TypeOK /\ LiveNow /\ [Next]_vars => LiveNow'
<1> SUFFICES ASSUME TypeOK, LiveNow, [Next]_vars PROVE LiveNow'
  OBVIOUS
<1>1. CASE Swap
  BY <1>1 DEF Swap, LiveNow, TypeOK, Feed
<1>2. CASE Tick
  BY <1>2 DEF Tick, LiveNow, TypeOK, Feed
<1>3. CASE UNCHANGED <<feed, past>>
  BY <1>3 DEF LiveNow
<1> QED BY <1>1, <1>2, <1>3 DEF Next, Hit, Miss, Query, NotFound, Fails, Finish, Evict,
           RedisFails, RedisBack, vars

FreshInv == LiveNow /\ AskedFresh /\ CachedFresh /\ BoundedStaleness

\* What is kept and what is read have bounds that are numbers.
LEMMA Bounds ==
    ASSUME TypeOK
    PROVE  /\ \A c \in Client : asked[c] # None =>
                 asked[c].parts \in Seq(Feed) /\ asked[c].age \in 0 .. ComputeTime
           /\ \A k \in Keys : redis[k] # None =>
                 /\ redis[k].parts \in Seq(Feed)
                 /\ redis[k].left \in 1 .. Ttl(endpoint)
                 /\ Ttl(endpoint) + ComputeTime - redis[k].left \in Nat
<1>1. \A c \in Client : asked[c] # None => asked[c] \in Pending
  BY DEF TypeOK
<1>2. \A k \in Keys : redis[k] # None => redis[k] \in CachedAnswer
  BY DEF TypeOK
<1>3. \A k \in Keys : redis[k] # None =>
         redis[k].parts \in Seq(Feed) /\ redis[k].left \in 1 .. Ttl(endpoint)
  BY <1>2 DEF CachedAnswer
<1>4. \A k \in Keys : redis[k] # None => Ttl(endpoint) + ComputeTime - redis[k].left \in Nat
  BY <1>3, TtlType, CacheAssumption
<1> QED BY <1>1, <1>3, <1>4 DEF Pending

\* Requests read what is live, and what they read is kept for the time to live.
LEMMA FreshInductive == TypeOK /\ FreshInv /\ [Next]_vars => FreshInv'
<1> SUFFICES ASSUME TypeOK, FreshInv, [Next]_vars PROVE FreshInv'
  OBVIOUS
<1> USE DEF FreshInv
<1>0. LiveNow'
  BY LiveInductive
<1>1. ASSUME NEW c \in Client, NEW r \in Request, Hit(c, r) PROVE FreshInv'
  <2>1. UNCHANGED <<endpoint, present, feed, past, up, redis, asked>>
    BY <1>1 DEF Hit
  <2>2. AskedFresh' /\ CachedFresh'
    BY <2>1 DEF AskedFresh, CachedFresh, Fresh, Keys, Request
  <2> DEFINE e == redis[Key(endpoint, r)]
  <2>3. Key(endpoint, r) \in Keys /\ e # None /\ reply'.parts = e.parts /\ e.parts \in Seq(Feed)
        /\ e.left \in 1 .. Ttl(endpoint)
    BY <1>1, HitType, Bounds
  <2>4. Fresh(e.parts, Ttl(endpoint) + ComputeTime - e.left)
    BY <2>3 DEF CachedFresh
  <2>5. \A i \in DOMAIN e.parts : e.parts[i] \in Feed /\ past[e.parts[i]] \in Int
    BY <2>3, TtlType, CacheAssumption DEF TypeOK, MaxAge
  <2> HIDE DEF e
  <2>6. \A i \in DOMAIN e.parts : e.parts[i] < feed => past[e.parts[i]] <= Ttl(endpoint) + ComputeTime
    BY <2>3, <2>4, <2>5, TtlType, CacheAssumption DEF Fresh
  <2> QED BY <1>0, <2>1, <2>2, <2>3, <2>6 DEF BoundedStaleness
<1>2. ASSUME NEW c \in Client, NEW r \in Request, Miss(c, r) PROVE FreshInv'
  <2>1. UNCHANGED <<endpoint, present, feed, past, up, redis>> /\ reply' = None
    BY <1>2 DEF Miss
  <2>2. \A d \in Client : asked'[d] # None => asked'[d] = asked[d] \/ (d = c /\ asked'[d].parts = <<>>)
    BY <1>2 DEF Miss, TypeOK
  <2>3. AskedFresh'
    BY <2>1, <2>2 DEF AskedFresh, Fresh
  <2> QED BY <1>0, <2>1, <2>3 DEF CachedFresh, Fresh, Keys, Request, BoundedStaleness
<1>3. ASSUME NEW c \in Client, Query(c) PROVE FreshInv'
  <2>1. UNCHANGED <<endpoint, present, feed, past, up, redis>> /\ reply' = None
    BY <1>3 DEF Query
  <2>2. /\ \A d \in Client : d # c => asked'[d] = asked[d]
        /\ asked[c] # None /\ asked'[c].parts = Append(asked[c].parts, feed)
        /\ asked'[c].age = asked[c].age
    BY <1>3, QueryType DEF TypeOK
  <2>3. Fresh(asked[c].parts, asked[c].age) /\ asked[c].parts \in Seq(Feed)
    BY <2>2, Bounds DEF AskedFresh
  <2>4. Fresh(Append(asked[c].parts, feed), asked[c].age)
    BY <2>3 DEF Fresh, TypeOK, Feed
  <2>5. AskedFresh'
    BY <2>1, <2>2, <2>4 DEF AskedFresh, Fresh
  <2> QED BY <1>0, <2>1, <2>5 DEF CachedFresh, Fresh, Keys, Request, BoundedStaleness
<1>4. ASSUME NEW c \in Client, NotFound(c) \/ Fails(c) \/ Finish(c) PROVE FreshInv'
  <2>1. UNCHANGED <<endpoint, present, feed, past, up>>
    BY <1>4 DEF NotFound, Fails, Finish
  <2>2. /\ asked[c] # None
        /\ \A d \in Client : asked'[d] # None => asked'[d] = asked[d]
        /\ reply'.parts = asked[c].parts
    BY <1>4, <2>1, DoneType DEF NotFound, Fails, Finish
  <2>3. AskedFresh'
    BY <2>1, <2>2 DEF AskedFresh, Fresh
  <2>4. /\ Fresh(asked[c].parts, asked[c].age)
        /\ asked[c].parts \in Seq(Feed) /\ asked[c].age \in 0 .. ComputeTime
    BY <2>2, Bounds DEF AskedFresh
  <2>5. \A i \in DOMAIN asked[c].parts : past[asked[c].parts[i]] \in Int
    BY <2>4, TtlType, CacheAssumption DEF TypeOK, MaxAge
  <2>6. Fresh(asked[c].parts, ComputeTime) /\ Fresh(asked[c].parts, Ttl(endpoint) + ComputeTime)
    BY <2>4, <2>5, TtlType, CacheAssumption DEF Fresh
  <2>7. CachedFresh'
    <3>1. CASE UNCHANGED redis
      BY <2>1, <3>1 DEF CachedFresh, Fresh, Keys, Request
    <3>2. CASE Finish(c)
      <4>1. asked[c].request \in Request
        BY <2>2 DEF TypeOK, Pending
      <4>2. \A k \in Keys : redis'[k] # redis[k] =>
               redis'[k] = [status |-> "OK", parts |-> asked[c].parts, of |-> asked[c].request,
                            left |-> Ttl(endpoint)]
        BY <2>1, <2>4, <3>2, <4>1, KeepType DEF Finish
      <4>3. Ttl(endpoint) + ComputeTime - Ttl(endpoint) = ComputeTime
        BY TtlType, CacheAssumption
      <4>4. \A k \in Keys : redis'[k] # redis[k] =>
               Fresh(redis'[k].parts, Ttl(endpoint) + ComputeTime - redis'[k].left)
        BY <2>6, <4>2, <4>3
      <4> QED BY <2>1, <4>4 DEF CachedFresh, Fresh, Keys, Request
    <3> QED BY <1>4, <3>1, <3>2 DEF NotFound, Fails
  <2>8. BoundedStaleness'
    BY <2>1, <2>2, <2>6 DEF BoundedStaleness, Fresh
  <2> QED BY <1>0, <2>3, <2>7, <2>8
<1>5. CASE Swap
  <2>1. UNCHANGED <<endpoint, redis, asked>> /\ reply' = None
    BY <1>5 DEF Swap
  <2>2. AskedFresh'
    BY <1>5, <2>1, Bounds, FreshStays, CacheAssumption DEF AskedFresh, Fresh, FreshNext
  <2>3. CachedFresh'
    BY <1>5, <2>1, Bounds, FreshStays DEF CachedFresh, Fresh, FreshNext, Keys, Request
  <2> QED BY <1>0, <2>1, <2>2, <2>3 DEF BoundedStaleness
<1>6. CASE RedisFails \/ RedisBack
  BY <1>0, <1>6 DEF RedisFails, RedisBack, AskedFresh, CachedFresh, Fresh, Keys, Request, BoundedStaleness
<1>7. ASSUME NEW k \in Keys, Evict(k) PROVE FreshInv'
  BY <1>0, <1>7 DEF Evict, TypeOK, AskedFresh, CachedFresh, Fresh, Keys, Request, BoundedStaleness
<1>8. CASE Tick
  <2>1. UNCHANGED <<endpoint, feed>> /\ reply' = None
    BY <1>8 DEF Tick
  <2>2. AskedFresh'
    <3> SUFFICES ASSUME NEW c \in Client, asked'[c] # None
                 PROVE  FreshNext(asked'[c].parts, asked'[c].age)
      BY DEF AskedFresh, Fresh, FreshNext
    <3>1. asked[c] # None /\ asked'[c].parts = asked[c].parts /\ asked'[c].age = asked[c].age + 1
      BY <1>8, TickType
    <3>2. FreshNext(asked[c].parts, asked[c].age + 1)
      BY <1>8, <3>1, Bounds, FreshTick, CacheAssumption DEF AskedFresh
    <3> QED BY <3>1, <3>2
  <2>3. CachedFresh'
    <3> SUFFICES ASSUME NEW k \in Keys, redis'[k] # None
                 PROVE  FreshNext(redis'[k].parts, Ttl(endpoint) + ComputeTime - redis'[k].left)
      BY <2>1 DEF CachedFresh, Fresh, FreshNext, Keys, Request
    <3>1. redis[k] # None /\ redis[k] \in CachedAnswer /\ redis'[k] = [redis[k] EXCEPT !.left = @ - 1]
      BY <1>8, ExpireType DEF Tick
    <3>2. redis'[k].parts = redis[k].parts /\ redis'[k].left = redis[k].left - 1
      BY <3>1 DEF CachedAnswer
    <3> DEFINE b == Ttl(endpoint) + ComputeTime - redis[k].left
    <3>3. /\ redis[k].parts \in Seq(Feed) /\ b \in Nat
          /\ Ttl(endpoint) + ComputeTime - redis'[k].left = b + 1
      BY <3>1, <3>2, Bounds, TtlType, CacheAssumption
    <3>4. Fresh(redis[k].parts, b)
      BY <3>1 DEF CachedFresh
    <3> HIDE DEF b
    <3>5. FreshNext(redis[k].parts, b + 1)
      BY <1>8, <3>3, <3>4, FreshTick
    <3> QED BY <3>2, <3>3, <3>5
  <2> QED BY <1>0, <2>1, <2>2, <2>3 DEF BoundedStaleness
<1>9. CASE UNCHANGED vars
  BY <1>0, <1>9 DEF vars, AskedFresh, CachedFresh, Fresh, Keys, Request, BoundedStaleness
<1> QED BY <1>1, <1>2, <1>3, <1>4, <1>5, <1>6, <1>7, <1>8, <1>9 DEF Next

TruthInv == AskedInOrder /\ CachedInOrder /\ NotFoundIsTrue /\ AnswersItsRequest

\* A key determines the request, but for places.
LEMMA KeyOfRequest ==
    ASSUME NEW r \in Request, NEW q \in Request, Key(endpoint, r) = Key(endpoint, q)
    PROVE  r = q \/ (endpoint = "nearby" /\ r.subject = q.subject)
  BY DEF Key, Request

\* What Redis keeps and what a client is told is an answer to the request.
LEMMA TruthInductive == TypeOK /\ TruthInv /\ [Next]_vars => TruthInv'
<1> SUFFICES ASSUME TypeOK, TruthInv, [Next]_vars PROVE TruthInv'
  OBVIOUS
<1> USE DEF TruthInv
<1>1. ASSUME NEW c \in Client, NEW r \in Request, Hit(c, r) PROVE TruthInv'
  <2>1. UNCHANGED <<endpoint, present, feed, past, up, redis, asked>>
    BY <1>1 DEF Hit
  <2>2. AskedInOrder' /\ CachedInOrder'
    BY <2>1 DEF AskedInOrder, CachedInOrder, Rising, Keys, Request
  <2> DEFINE e == redis[Key(endpoint, r)]
  <2>3. /\ Key(endpoint, r) \in Keys /\ e # None /\ e \in CachedAnswer
        /\ reply'.status = e.status /\ reply'.parts = e.parts
        /\ reply'.to = r /\ reply'.of = e.of
    BY <1>1, HitType
  <2>4. e.status = "OK" /\ Key(endpoint, e.of) = Key(endpoint, r) /\ Rising(e.parts)
    BY <2>3 DEF CachedInOrder
  <2>5. e.of \in Request
    BY <2>3 DEF CachedAnswer
  <2> HIDE DEF e
  <2>6. e.of = r \/ (endpoint = "nearby" /\ e.of.subject = r.subject)
    BY <2>4, <2>5, KeyOfRequest
  <2>7. NotFoundIsTrue'
    BY <2>3, <2>4 DEF NotFoundIsTrue
  <2>8. AnswersItsRequest'
    BY <2>1, <2>3, <2>4, <2>6 DEF AnswersItsRequest, Rising
  <2> QED BY <2>2, <2>7, <2>8
<1>2. ASSUME NEW c \in Client, NEW r \in Request, Miss(c, r) PROVE TruthInv'
  <2>1. UNCHANGED <<endpoint, present, feed, past, up, redis>> /\ reply' = None
    BY <1>2 DEF Miss
  <2>2. \A d \in Client : asked'[d] # None =>
           asked'[d] = asked[d] \/ (asked'[d].parts = <<>> /\ asked'[d].since = feed)
    BY <1>2 DEF Miss, TypeOK
  <2>3. AskedInOrder'
    BY <2>1, <2>2 DEF AskedInOrder, Rising, TypeOK, Feed
  <2> QED BY <2>1, <2>3 DEF CachedInOrder, Rising, Keys, Request, NotFoundIsTrue, AnswersItsRequest
<1>3. ASSUME NEW c \in Client, Query(c) PROVE TruthInv'
  <2>1. UNCHANGED <<endpoint, present, feed, past, up, redis>> /\ reply' = None
    BY <1>3 DEF Query
  <2>2. /\ \A d \in Client : d # c => asked'[d] = asked[d]
        /\ asked[c] # None /\ asked'[c].parts = Append(asked[c].parts, feed)
        /\ asked'[c].since = asked[c].since
    BY <1>3, QueryType DEF TypeOK
  <2>3. asked[c].parts \in Seq(Feed)
    BY <2>2, Bounds
  <2>4. /\ asked[c].since <= feed
        /\ Rising(asked[c].parts)
        /\ \A i \in DOMAIN asked[c].parts : asked[c].parts[i] <= feed
    BY <2>2 DEF AskedInOrder
  <2> DEFINE p == asked[c].parts
  <2>5. feed <= feed
    BY DEF TypeOK, Feed
  <2> HIDE DEF p
  <2>6. \A i \in DOMAIN Append(p, feed) : Append(p, feed)[i] <= feed
    BY <2>3, <2>4, <2>5 DEF p
  <2>7. Rising(Append(p, feed))
    BY <2>3, <2>4, <2>6 DEF Rising, p
  <2>8. AskedInOrder'
    BY <2>1, <2>2, <2>4, <2>6, <2>7 DEF AskedInOrder, Rising, p
  <2> QED BY <2>1, <2>8 DEF CachedInOrder, Rising, Keys, Request, NotFoundIsTrue, AnswersItsRequest
<1>4. ASSUME NEW c \in Client, NotFound(c) \/ Fails(c) \/ Finish(c) PROVE TruthInv'
  <2>1. UNCHANGED <<endpoint, present, feed, past, up>>
    BY <1>4 DEF NotFound, Fails, Finish
  <2>2. /\ asked[c] # None /\ asked[c] \in Pending
        /\ \A d \in Client : asked'[d] # None => asked'[d] = asked[d]
        /\ reply'.parts = asked[c].parts /\ reply'.since = asked[c].since
        /\ reply'.to = asked[c].request /\ reply'.of = asked[c].request
    BY <1>4, <2>1, DoneType DEF NotFound, Fails, Finish
  <2>3. AskedInOrder'
    BY <2>1, <2>2 DEF AskedInOrder, Rising
  <2>4. asked[c].since <= feed /\ Rising(asked[c].parts)
    BY <2>2 DEF AskedInOrder
  <2>5. CachedInOrder'
    <3>1. CASE UNCHANGED redis
      BY <2>1, <3>1 DEF CachedInOrder, Rising, Keys, Request
    <3>2. CASE Finish(c)
      <4>1. asked[c].request \in Request /\ asked[c].parts \in Seq(Feed)
        BY <2>2 DEF Pending
      <4>2. \A k \in Keys : redis'[k] # redis[k] =>
               /\ k = Key(endpoint, asked[c].request)
               /\ redis'[k] = [status |-> "OK", parts |-> asked[c].parts, of |-> asked[c].request,
                               left |-> Ttl(endpoint)]
        BY <2>1, <3>2, <4>1, KeepType DEF Finish
      <4> QED BY <2>1, <2>4, <4>2 DEF CachedInOrder, Rising, Keys, Request
    <3> QED BY <1>4, <3>1, <3>2 DEF NotFound, Fails
  <2>6. NotFoundIsTrue'
    <3>1. CASE NotFound(c)
      <4>1. asked[c].request.subject \notin present[feed]
        BY <3>1 DEF NotFound, Absent
      <4>2. feed \in asked[c].since .. feed
        BY <2>2, <2>4 DEF Pending, TypeOK, Feed
      <4> QED BY <2>1, <2>2, <4>1, <4>2 DEF NotFoundIsTrue
    <3>2. CASE Fails(c) \/ Finish(c)
      <4>1. reply'.status \in {"Error", "OK"}
        BY <2>1, <3>2, DoneType DEF Fails, Finish
      <4> QED BY <4>1 DEF NotFoundIsTrue
    <3> QED BY <1>4, <3>1, <3>2
  <2>7. AnswersItsRequest'
    BY <2>2, <2>4 DEF AnswersItsRequest, Rising
  <2> QED BY <2>3, <2>5, <2>6, <2>7
<1>5. CASE Swap
  <2>1. UNCHANGED <<endpoint, redis, asked>> /\ reply' = None /\ feed' = feed + 1
    BY <1>5 DEF Swap
  <2>2. AskedInOrder'
    <3>1. \A c \in Client : asked[c] # None => asked[c] \in Pending
      BY DEF TypeOK
    <3>2. \A c \in Client : asked[c] # None =>
             /\ asked[c].since \in Int
             /\ \A i \in DOMAIN asked[c].parts : asked[c].parts[i] \in Int
      <4>1. \A f \in Feed : f \in Int
        BY DEF Feed
      <4>2. \A c \in Client : asked[c] # None =>
               asked[c].since \in Feed /\ asked[c].parts \in Seq(Feed)
        BY <3>1 DEF Pending
      <4> QED BY <4>1, <4>2
    <3>3. feed \in Int
      BY DEF TypeOK, Feed
    <3>4. \A c \in Client : asked[c] # None => asked[c].since <= feed + 1
      BY <3>2, <3>3 DEF AskedInOrder
    <3>5. \A c \in Client : asked[c] # None =>
             \A i \in DOMAIN asked[c].parts : asked[c].parts[i] <= feed + 1
      BY <3>2, <3>3 DEF AskedInOrder
    <3> QED BY <2>1, <3>4, <3>5 DEF AskedInOrder, Rising
  <2> QED BY <2>1, <2>2 DEF CachedInOrder, Rising, Keys, Request, NotFoundIsTrue, AnswersItsRequest
<1>6. CASE RedisFails \/ RedisBack
  BY <1>6 DEF RedisFails, RedisBack, AskedInOrder, CachedInOrder, Rising, Keys, Request,
              NotFoundIsTrue, AnswersItsRequest
<1>7. ASSUME NEW k \in Keys, Evict(k) PROVE TruthInv'
  BY <1>7 DEF Evict, TypeOK, AskedInOrder, CachedInOrder, Rising, Keys, Request,
              NotFoundIsTrue, AnswersItsRequest
<1>8. CASE Tick
  <2>1. UNCHANGED <<endpoint, present, feed, up>> /\ reply' = None
    BY <1>8 DEF Tick
  <2>2. AskedInOrder'
    BY <1>8, <2>1, TickType DEF AskedInOrder, Rising
  <2>3. \A k \in Keys : redis'[k] # None =>
           /\ redis[k] # None
           /\ redis'[k].status = redis[k].status /\ redis'[k].of = redis[k].of
           /\ redis'[k].parts = redis[k].parts
    BY <1>8, ExpireType DEF Tick, CachedAnswer
  <2>4. CachedInOrder'
    BY <2>1, <2>3 DEF CachedInOrder, Rising, Keys, Request
  <2> QED BY <2>1, <2>2, <2>4 DEF NotFoundIsTrue, AnswersItsRequest
<1>9. CASE UNCHANGED vars
  BY <1>9 DEF vars, AskedInOrder, CachedInOrder, Rising, Keys, Request, NotFoundIsTrue, AnswersItsRequest
<1> QED BY <1>1, <1>2, <1>3, <1>4, <1>5, <1>6, <1>7, <1>8, <1>9 DEF Next

IInv == TypeOK /\ FreshInv /\ TruthInv

\* Nothing was asked and nothing is kept at first.
LEMMA InitInv == Init => IInv
<1> SUFFICES ASSUME Init PROVE IInv
  OBVIOUS
<1>1. 0 \in Feed
  BY CacheAssumption DEF Feed
<1>2. Ttl(endpoint) \in Nat
  BY DEF Init, Endpoint, Ttl
<1>3. TypeOK
  BY <1>1, <1>2, CacheAssumption DEF Init, TypeOK, MaxAge
<1> QED BY <1>3 DEF Init, IInv, FreshInv, TruthInv, LiveNow, AskedFresh, CachedFresh, AskedInOrder,
           CachedInOrder, BoundedStaleness, NotFoundIsTrue, AnswersItsRequest

\* The invariant holds in every reachable state.
LEMMA Invariant == Spec => []IInv
<1>1. IInv /\ [Next]_vars => IInv'
  BY TypeInductive, FreshInductive, TruthInductive DEF IInv
<1> QED BY InitInv, <1>1, PTL DEF Spec

\* Every part of the cache's state has its type: an entry has time left as long as it
\* is there.
THEOREM CacheTypes == Spec => []TypeOK
  BY Invariant, PTL DEF IInv

\* No answer has a part of a feed that was replaced longer ago than the time to live of
\* its endpoint and the time that an answer takes (CacheService with no invalidation).
THEOREM NoInvalidationNeeded == Spec => []BoundedStaleness
  BY Invariant, PTL DEF IInv, FreshInv

\* A 404 is told only to who asked while there was no such row (the services throw
\* before they cache).
THEOREM NotFoundTrue == Spec => []NotFoundIsTrue
  BY Invariant, PTL DEF IInv, TruthInv

\* A kept answer is given to the request it was computed for, but for the limit of
\* places nearby, and its parts are of rising feeds.
THEOREM AnswersMatch == Spec => []AnswersItsRequest
  BY Invariant, PTL DEF IInv, TruthInv
=============================================================================
