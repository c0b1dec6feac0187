------------------------------- MODULE ApiCache -------------------------------
(***************************************************************************)
(* How the API answers: from Redis if it has an answer under the request's *)
(* key, else by queries one after the other, each of which reads what is   *)
(* live when it runs, whose result it keeps for the time to live of the    *)
(* endpoint.  A load swaps a new feed in at any time, and nothing in Redis *)
(* is invalidated by it.  Redis and the database may fail.                 *)
(*                                                                         *)
(* An answer is the feeds its queries read.  Time goes by in ticks.        *)
(***************************************************************************)
EXTENDS Integers, Sequences

CONSTANTS
    Client,
    Subject,      \* the routes, trips, stops, places that are asked for
    Limit,        \* the limits that may be asked with
    MaxFeed,      \* bound: feeds are 0 .. MaxFeed
    ComputeTime,  \* bound: the ticks in which a request gets its answer
    None

Endpoint == {"routes", "route", "shape", "trip", "search", "arrivals", "nearby", "stopRoutes"}

\* In ticks, from the five seconds of arrivals to the hour of routes and the day of
\* a stop's routes; a shape is not cached.
Ttl(e) ==
    [shape |-> 0, arrivals |-> 1, search |-> 1, nearby |-> 2, trip |-> 2,
     routes |-> 3, route |-> 3, stopRoutes |-> 3][e]

ASSUME CacheAssumption ==
    /\ MaxFeed \in Nat
    /\ ComputeTime \in Nat

\* Ages count up to the first one that is too old.
MaxAge(e) == Ttl(e) + ComputeTime + 1

Feed == 0 .. MaxFeed

\* The limit None is that of endpoints without one.
Limits(e) == IF e \in {"routes", "search", "arrivals", "nearby"} THEN Limit ELSE {None}

VARIABLES
    endpoint,  \* the one that is asked; they share nothing
    present,   \* present[f]: the subjects of feed f
    feed,      \* the live feed
    past,      \* past[f]: how long ago feed f was replaced, at most MaxAge(endpoint)
    up,        \* Redis answers
    redis,     \* redis[k]: the answer under a key and the time it has left
    asked,     \* asked[c]: the request of a client, what its queries returned, its age
    reply      \* what this step answered

Request == [subject : Subject, limit : Limits(endpoint)]

vars == <<endpoint, present, feed, past, up, redis, asked, reply>>

\* Faulty variant: no key has the limit.
KeyWithoutLimit(e, r) == <<e, r.subject>>

\* The key of a place leaves out the limit.
Key(e, r) == IF e = "nearby" THEN <<e, r.subject>> ELSE <<e, r.subject, r.limit>>

Keys == {Key(endpoint, r) : r \in Request}

CachedAnswer == [status : {"OK", "NotFound"}, parts : Seq(Feed), of : Request, left : 1 .. Ttl(endpoint)]

Pending == [request : Request, parts : Seq(Feed), since : Feed, age : 0 .. ComputeTime]

Reply ==
    [status : {"OK", "NotFound", "Error"}, parts : Seq(Feed), to : Request, of : Request, since : Feed]

TypeOK ==
    /\ endpoint \in Endpoint
    /\ present \in [Feed -> SUBSET Subject]
    /\ feed \in Feed
    /\ past \in [Feed -> 0 .. MaxAge(endpoint)]
    /\ up \in BOOLEAN
    /\ redis \in [Keys -> CachedAnswer \cup {None}]
    /\ asked \in [Client -> Pending \cup {None}]
    /\ reply \in Reply \cup {None}

\* The queries of an endpoint, the most that it makes: "found" where no row is a 404, of
\* a route, a trip, or the agency of a board.  (A trip of no agency is one that is not
\* found.)  Those for the stops of a board count as one, and so do those for the names
\* of added trips.
Queries(e) ==
    LET Rows(n) == [i \in 1 .. n |-> "rows"]
    IN  [routes |-> Rows(2), route |-> <<"found", "rows", "found", "rows">>,
         shape |-> <<"found">> \o Rows(2), trip |-> Rows(2) \o <<"found">>,
         search |-> Rows(2), arrivals |-> <<"found">> \o Rows(5),
         nearby |-> Rows(6), stopRoutes |-> Rows(1)][e]

Init ==
    /\ endpoint \in Endpoint
    /\ present \in [Feed -> SUBSET Subject]
    /\ (\E i \in DOMAIN Queries(endpoint) : Queries(endpoint)[i] = "found")
          \/ present = [f \in Feed |-> Subject]  \* the others do not look
    /\ endpoint = "arrivals" =>                 \* an agency stays
          \A f \in Feed : \A older \in 0 .. f : present[older] \subseteq present[f]
    /\ feed = 0
    /\ past = [f \in Feed |-> 0]
    /\ up = TRUE
    /\ redis = [k \in Keys |-> None]
    /\ asked = [c \in Client |-> None]
    /\ reply = None
----------------------------------------------------------------------------
Answer(status, parts, to, of, since) ==
    [status |-> status, parts |-> parts, to |-> to, of |-> of, since |-> since]

\* CacheService.get, which returns nothing when Redis does not answer.
Cached(r) == IF up /\ Ttl(endpoint) > 0 THEN redis[Key(endpoint, r)] ELSE None

Hit(c, r) ==
    /\ asked[c] = None
    /\ Cached(r) # None
    /\ reply' = Answer(Cached(r).status, Cached(r).parts, r, Cached(r).of, feed)
    /\ UNCHANGED <<endpoint, present, feed, past, up, redis, asked>>

Miss(c, r) ==
    /\ asked[c] = None
    /\ Cached(r) = None
    /\ asked' = [asked EXCEPT ![c] = [request |-> r, parts |-> <<>>, since |-> feed, age |-> 0]]
    /\ reply' = None
    /\ UNCHANGED <<endpoint, present, feed, past, up, redis>>

NextQuery(c) == Queries(endpoint)[Len(asked[c].parts) + 1]

\* NotFoundException; it is not cached.
Absent(c) ==
    NextQuery(c) = "found" /\ asked[c].request.subject \notin present[feed]

Query(c) ==
    /\ asked[c] # None
    /\ Len(asked[c].parts) < Len(Queries(endpoint))
    /\ ~Absent(c)
    /\ asked' = [asked EXCEPT ![c].parts = Append(@, feed)]
    /\ reply' = None
    /\ UNCHANGED <<endpoint, present, feed, past, up, redis>>

\* CacheService.set, which does nothing when Redis does not answer.
Keep(r, status, parts) ==
    IF up /\ Ttl(endpoint) > 0
    THEN redis' = [redis EXCEPT ![Key(endpoint, r)] =
                      [status |-> status, parts |-> parts, of |-> r, left |-> Ttl(endpoint)]]
    ELSE UNCHANGED redis

Done(c, status) ==
    /\ asked' = [asked EXCEPT ![c] = None]
    /\ reply' = Answer(status, asked[c].parts, asked[c].request, asked[c].request, asked[c].since)

\* Faulty variant: that there is nothing is remembered too.
NotFoundKept(c) ==
    /\ asked[c] # None
    /\ Len(asked[c].parts) < Len(Queries(endpoint))
    /\ Absent(c)
    /\ Keep(asked[c].request, "NotFound", asked[c].parts)
    /\ Done(c, "NotFound")
    /\ UNCHANGED <<endpoint, present, feed, past, up>>

NotFound(c) ==
    /\ asked[c] # None
    /\ Len(asked[c].parts) < Len(Queries(endpoint))
    /\ Absent(c)
    /\ Done(c, "NotFound")
    /\ UNCHANGED <<endpoint, present, feed, past, up, redis>>

\* A query fails: a 500.
Fails(c) ==
    /\ asked[c] # None
    /\ Len(asked[c].parts) < Len(Queries(endpoint))
    /\ Done(c, "Error")
    /\ UNCHANGED <<endpoint, present, feed, past, up, redis>>

Finish(c) ==
    /\ asked[c] # None
    /\ Len(asked[c].parts) = Len(Queries(endpoint))
    /\ Keep(asked[c].request, "OK", asked[c].parts)
    /\ Done(c, "OK")
    /\ UNCHANGED <<endpoint, present, feed, past, up>>
----------------------------------------------------------------------------
Swap ==
    /\ feed < MaxFeed
    /\ feed' = feed + 1
    /\ reply' = None
    /\ UNCHANGED <<endpoint, present, past, up, redis, asked>>

\* A key goes with its time to live, or before if Redis needs the memory.
Evict(k) ==
    /\ redis[k] # None
    /\ redis' = [redis EXCEPT ![k] = None]
    /\ reply' = None
    /\ UNCHANGED <<endpoint, present, feed, past, up, asked>>

RedisFails == up /\ up' = FALSE /\ reply' = None /\ UNCHANGED <<endpoint, present, feed, past, redis, asked>>

RedisBack == ~up /\ up' = TRUE /\ reply' = None /\ UNCHANGED <<endpoint, present, feed, past, redis, asked>>

\* Faulty variants: no time to live; a tick too many.
Unexpired(entry) == entry

ExpireLate(entry) ==
    IF entry = None \/ entry.left = 0 THEN None ELSE [entry EXCEPT !.left = @ - 1]

Expire(entry) ==
    IF entry = None \/ entry.left = 1 THEN None ELSE [entry EXCEPT !.left = @ - 1]

Tick ==
    /\ \A c \in Client : asked[c] # None => asked[c].age < ComputeTime
    /\ past' = [f \in Feed |-> IF f < feed /\ past[f] < MaxAge(endpoint) THEN past[f] + 1 ELSE past[f]]
    /\ redis' = [k \in Keys |-> Expire(redis[k])]
    /\ asked' = [c \in Client |-> IF asked[c] = None THEN None ELSE [asked[c] EXCEPT !.age = @ + 1]]
    /\ reply' = None
    /\ UNCHANGED <<endpoint, present, feed, up>>

Next ==
    \/ \E c \in Client, r \in Request : Hit(c, r) \/ Miss(c, r)
    \/ \E c \in Client : Query(c) \/ NotFound(c) \/ Fails(c) \/ Finish(c)
    \/ Swap \/ Tick \/ RedisFails \/ RedisBack
    \/ \E k \in Keys : Evict(k)

Spec == Init /\ [][Next]_vars
----------------------------------------------------------------------------
\* No invalidation is needed: a feed that was replaced longer ago than the time to
\* live and the time an answer takes is in no answer, neither wholly nor beside
\* another, whichever requests overtook each other and however often Redis failed.
BoundedStaleness ==
    reply # None =>
        \A i \in DOMAIN reply.parts :
            reply.parts[i] < feed => past[reply.parts[i]] <= Ttl(endpoint) + ComputeTime

\* Who is told that there is no such route or trip has asked while there was none;
\* nobody is told because somebody else was.
NotFoundIsTrue ==
    reply # None /\ reply.status = "NotFound" =>
        \E f \in reply.since .. feed : reply.to.subject \notin present[f]

\* An answer that was computed for another request is for the same subject and the
\* same limit, but for places, whose key leaves the limit out; one whose parts are of
\* two feeds was computed while the feed changed.
AnswersItsRequest ==
    reply # None =>
        /\ reply.of = reply.to \/ (endpoint = "nearby" /\ reply.of.subject = reply.to.subject)
        /\ \A i, j \in DOMAIN reply.parts : i < j => reply.parts[i] <= reply.parts[j]
=============================================================================
