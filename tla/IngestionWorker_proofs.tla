------------------------ MODULE IngestionWorker_proofs ------------------------
(***************************************************************************)
(* For any number of agencies, with any of the feeds and as many loads and *)
(* restarts as you like: the polls never use a lookup that is older than   *)
(* the last refresh, unless one of their loads was under way when that     *)
(* refresh returned.                                                       *)
(***************************************************************************)
EXTENDS IngestionWorker, TLAPS

\* What a refresh has found was live.
InOrder == \A a \in Agency : refreshed[a] <= feed[a]

\* Only a feed that waits for get() has a load under way, of the agency polled.
Waiting ==
    /\ \A f \in Feed : load[f] # None => pollAt # 0 /\ pollPc[f] = "get"
    /\ pollAt = 0 => \A f \in Feed : pollPc[f] = "settled"

\* What was read of agency a so far is as new as its last refresh.
NewRows(rows, a) ==
    /\ rows.trips # Unread => rows.trips >= refreshed[a]
    /\ rows.stops # Unread => rows.stops >= refreshed[a]

Refreshing(a) == staticAt = a /\ stage = "refresh"

\* A refresh reads after it has begun.
RefreshReadsNew ==
    load["refresh"] # None =>
        staticAt # 0 /\ stage = "refresh" /\ NewRows(load["refresh"], staticAt)

\* A poll's load reads after the last refresh has begun if it has not raced with it.
LoadReadsNew ==
    \A f \in Feed :
        load[f] # None /\ ~Refreshing(pollAt) /\ ~raced[pollAt] => NewRows(load[f], pollAt)

IInv ==
    /\ TypeOK
    /\ InOrder
    /\ Waiting
    /\ RefreshReadsNew
    /\ LoadReadsNew
    /\ LookupNotBehind

\* The names of the feeds are not that of the refresh.
LEMMA FeedNames ==
    /\ Feed \subseteq {"trips", "alerts"}
    /\ "refresh" \notin Feed
    /\ \A a \in Agency : Feeds[a] \subseteq Feed
<1>1. \A a \in Agency : Feeds[a] \subseteq {"trips", "alerts"} /\ Feeds[a] \subseteq Feed
  BY WorkerAssumption DEF Agency, Feed
<1>2. \A f \in Feed : \E a \in Agency : f \in Feeds[a]
  BY DEF Feed
<1> QED BY <1>1, <1>2

\* The rows of a load that is under way.
LEMMA RowsType ==
    ASSUME TypeOK, NEW l \in Loader, load[l] # None
    PROVE  /\ load[l] \in Rows
           /\ load[l].trips \in Nat \cup {Unread} /\ load[l].stops \in Nat \cup {Unread}
  BY DEF TypeOK, Rows

\* A load that is under way is of an agency.
LEMMA OfAgency ==
    ASSUME IInv, NEW l \in Loader, load[l] # None
    PROVE  Of(l) \in Agency
  BY DEF IInv, Of, Loader, Waiting, RefreshReadsNew, TypeOK, Agency

\* A static run that goes on or ends.
LEMMA NextAgencyType ==
    ASSUME TypeOK, staticAt # 0, NextAgency
    PROVE  staticAt' \in 0 .. NumAgencies /\ stage' = "load"
  BY WorkerAssumption DEF TypeOK, NextAgency

\* The steps of the static run, but for those of its refresh.
LEMMA StaticSteps ==
    ASSUME IInv, StartStatic \/ IngestReturns \/ IngestThrows
    PROVE  IInv'
<1> USE DEF IInv
<1>0. UNCHANGED <<feed, up, poll, lookups, raced, restarts>>
  BY DEF StartStatic, IngestReturns, IngestThrows, cache, history
<1>1. CASE StartStatic \/ IngestThrows
  <2>1. /\ stage' = "load" /\ load' = load /\ refreshed' = refreshed
        /\ staticAt' \in 0 .. NumAgencies
        /\ stage # "refresh" \/ staticAt = 0
    BY <1>1, NextAgencyType, WorkerAssumption DEF StartStatic, IngestThrows, cache, history, NextAgency
  <2>2. load["refresh"] = None
    BY <2>1 DEF RefreshReadsNew
  <2>3. \A a \in Agency : ~Refreshing(a)
    BY <2>1 DEF Refreshing, Agency
  <2>4. TypeOK'
    BY <1>0, <2>1 DEF TypeOK, poll
  <2>5. InOrder' /\ Waiting'
    BY <1>0, <2>1 DEF InOrder, Waiting, poll
  <2>6. RefreshReadsNew'
    BY <2>1, <2>2 DEF RefreshReadsNew
  <2>7. LoadReadsNew'
    <3>1. \A f \in Feed : load[f] # None => pollAt \in Agency
      BY DEF Waiting, TypeOK, Agency
    <3> QED BY <1>0, <2>1, <2>3, <3>1 DEF LoadReadsNew, NewRows, poll
  <2>8. LookupNotBehind'
    BY <1>0, <2>1, <2>3 DEF LookupNotBehind, Since, Refreshing
  <2> QED BY <2>4, <2>5, <2>6, <2>7, <2>8
<1>2. CASE IngestReturns
  <2>1. /\ staticAt # 0 /\ stage # "refresh" /\ stage' = "refresh" /\ staticAt' = staticAt
        /\ load' = [load EXCEPT !["refresh"] = NotYet]
        /\ refreshed' = [refreshed EXCEPT ![staticAt] = feed[staticAt]]
    BY <1>2 DEF IngestReturns
  <2>2. staticAt \in Agency
    BY <2>1 DEF TypeOK, Agency
  <2>3. NotYet \in Rows /\ NotYet.trips = Unread /\ NotYet.stops = Unread
    BY DEF NotYet, Rows
  <2>4. \A f \in Feed : load'[f] = load[f]
    BY <2>1, FeedNames DEF TypeOK, Loader
  <2>5. load'["refresh"] = NotYet
    BY <2>1 DEF TypeOK, Loader
  <2>6. TypeOK'
    BY <1>0, <2>1, <2>2, <2>3 DEF TypeOK, poll
  <2>7. InOrder'
    BY <1>0, <2>1, <2>2 DEF InOrder, TypeOK
  <2>8. Waiting'
    BY <1>0, <2>4 DEF Waiting, poll
  <2>9. RefreshReadsNew'
    BY <2>1, <2>3, <2>5 DEF RefreshReadsNew, NewRows
  <2>10. LoadReadsNew'
    BY <1>0, <2>1, <2>4 DEF LoadReadsNew, NewRows, Refreshing, poll, TypeOK
  <2>11. LookupNotBehind'
    BY <1>0, <2>1 DEF LookupNotBehind, Since, TypeOK
  <2> QED BY <2>6, <2>7, <2>8, <2>9, <2>10, <2>11
<1> QED BY <1>1, <1>2

\* A new feed is newer than what was read of the ones before.
LEMMA SwapSteps ==
    ASSUME IInv, Swap \/ (\E a \in Agency : OtherSwap(a)) \/ Database
    PROVE  IInv'
<1> USE DEF IInv
<1>1. /\ UNCHANGED <<staticAt, poll, cache, history>>
      /\ stage' = stage \/ (stage # "refresh" /\ stage' = "loaded")
      /\ up' \in BOOLEAN
  BY DEF Swap, OtherSwap, Database, run, TypeOK
<1>2. feed' \in [Agency -> Nat] /\ \A a \in Agency : feed'[a] >= feed[a]
  <2>1. ASSUME NEW a \in Agency, NewFeed(a)
        PROVE  feed' \in [Agency -> Nat] /\ \A b \in Agency : feed'[b] >= feed[b]
    BY <2>1 DEF NewFeed, TypeOK
  <2>2. CASE Swap
    BY <2>1, <2>2 DEF Swap, TypeOK, Agency
  <2>3. CASE UNCHANGED feed
    BY <2>3 DEF TypeOK
  <2> QED BY <2>1, <2>2, <2>3 DEF OtherSwap, Database
<1>3. TypeOK'
  BY <1>1, <1>2 DEF TypeOK, poll, cache, history
<1>4. InOrder'
  BY <1>1, <1>2 DEF InOrder, TypeOK, history
<1> QED BY <1>1, <1>3, <1>4 DEF Waiting, RefreshReadsNew, LoadReadsNew, LookupNotBehind, NewRows,
           Refreshing, Since, poll, cache, history

\* A query of a load returns what is live, which is no older than the last refresh.
LEMMA ReadSteps ==
    ASSUME IInv, NEW l \in Loader, ReadTrips(l) \/ ReadStops(l)
    PROVE  IInv'
<1> USE DEF IInv
<1>1. load[l] # None /\ UNCHANGED <<feed, up, staticAt, stage, pollAt, pollPc, lookups, refreshed, raced, restarts>>
  BY DEF ReadTrips, ReadStops, run, poll, history
<1>2. Of(l) \in Agency
  BY <1>1, OfAgency
<1>3. feed[Of(l)] \in Nat /\ feed[Of(l)] >= refreshed[Of(l)]
  BY <1>2 DEF TypeOK, InOrder
<1>4. load[l] \in Rows
  BY <1>1, RowsType
<1> DEFINE r == load'[l]
<1>5. /\ load' = [load EXCEPT ![l] = r]
      /\ \/ r = [load[l] EXCEPT !.trips = feed[Of(l)]]
         \/ r = [load[l] EXCEPT !.stops = feed[Of(l)]]
  BY DEF ReadTrips, ReadStops, TypeOK
<1> HIDE DEF r
<1>6. /\ r \in Rows
      /\ r.trips = load[l].trips \/ r.trips = feed[Of(l)]
      /\ r.stops = load[l].stops \/ r.stops = feed[Of(l)]
  BY <1>3, <1>4, <1>5 DEF Rows
<1>7. NewRows(load[l], Of(l)) => NewRows(r, Of(l))
  BY <1>3, <1>6 DEF NewRows
<1>8. \A k \in Loader : load'[k] = IF k = l THEN r ELSE load[k]
  BY <1>5 DEF TypeOK
<1>9. TypeOK' /\ InOrder'
  BY <1>1, <1>5, <1>6 DEF TypeOK, InOrder
<1>10. Waiting'
  BY <1>1, <1>8 DEF Waiting, Loader
<1>11. RefreshReadsNew'
  BY <1>1, <1>7, <1>8 DEF RefreshReadsNew, NewRows, Of, Loader
<1>12. LoadReadsNew'
  <2>1. \A f \in Feed : Of(f) = pollAt /\ f \in Loader
    BY FeedNames DEF Of, Loader
  <2> QED BY <1>1, <1>7, <1>8, <2>1 DEF LoadReadsNew, NewRows, Refreshing
<1>13. LookupNotBehind'
  BY <1>1 DEF LookupNotBehind, Since
<1> QED BY <1>9, <1>10, <1>11, <1>12, <1>13

\* What a load keeps is nothing or what both of its queries returned.
Result(l, lookup) ==
    lookup = None \/
        (lookup = load[l] /\ load[l].trips # Unread /\ load[l].stops # Unread /\ load[l].trips # 0)

\* Load and LoadFails in one form.
LEMMA KeptType ==
    ASSUME IInv, NEW l \in Loader, Load(l) \/ LoadFails(l)
    PROVE  \E lookup \in [trips : Nat \ {0}, stops : Nat] \cup {None} :
              Result(l, lookup) /\ Keep(l, lookup) /\ GoOn(l) /\ load[l] # None
              /\ UNCHANGED <<feed, up, pollAt>>
<1>1. load[l] # None
  BY DEF Load, LoadFails
<1>2. load[l] \in [trips : Nat \cup {Unread}, stops : Nat \cup {Unread}]
  BY <1>1, RowsType DEF IInv, Rows
<1>3. CASE Load(l) /\ load[l].trips # 0
  <2>1. Result(l, load[l]) /\ load[l] \in [trips : Nat \ {0}, stops : Nat]
    BY <1>2, <1>3 DEF Load, Result
  <2> QED BY <1>1, <1>3, <2>1 DEF Load
<1>4. CASE LoadFails(l) \/ (Load(l) /\ load[l].trips = 0)
  <2>1. Result(l, None)
    BY DEF Result
  <2> QED BY <1>1, <1>4, <2>1 DEF Load, LoadFails
<1> QED BY <1>3, <1>4

\* A refresh leaves what it read, and knows whether a poll's load raced with it.
LEMMA RefreshEnds ==
    ASSUME IInv, NEW lookup \in [trips : Nat \ {0}, stops : Nat] \cup {None},
           Result("refresh", lookup), Keep("refresh", lookup), GoOn("refresh"),
           load["refresh"] # None, UNCHANGED <<feed, up, pollAt>>
    PROVE  IInv'
<1> USE DEF IInv
<1>1. "refresh" \in Loader /\ Of("refresh") = staticAt
  BY DEF Loader, Of
<1>2. staticAt \in Agency /\ staticAt # 0 /\ stage = "refresh" /\ NewRows(load["refresh"], staticAt)
  BY <1>1, OfAgency DEF RefreshReadsNew
<1>3. /\ lookups' = [lookups EXCEPT ![staticAt] = lookup]
      /\ load' = [load EXCEPT !["refresh"] = None]
      /\ NextAgency
      /\ raced' = [raced EXCEPT ![staticAt] = pollAt = staticAt /\ \E f \in Feed : load[f] # None]
      /\ UNCHANGED <<pollPc, refreshed, restarts>>
  BY <1>1 DEF Keep, GoOn
<1>4. staticAt' \in 0 .. NumAgencies /\ stage' = "load"
  BY <1>2, <1>3, NextAgencyType
<1>5. \A f \in Feed : load'[f] = load[f]
  BY <1>3, FeedNames DEF TypeOK, Loader
<1>6. load'["refresh"] = None
  BY <1>1, <1>3 DEF TypeOK
<1>7. (pollAt = staticAt /\ \E f \in Feed : load[f] # None) \in BOOLEAN
  OBVIOUS
<1>8. raced' \in [Agency -> BOOLEAN]
  BY <1>2, <1>3, <1>7 DEF TypeOK
<1>9. load' \in [Loader -> Rows \cup {None}] /\ lookups' \in [Agency -> [trips : Nat \ {0}, stops : Nat] \cup {None}]
  BY <1>1, <1>2, <1>3 DEF TypeOK
<1>10. TypeOK' /\ InOrder'
  BY <1>3, <1>4, <1>8, <1>9 DEF TypeOK, InOrder
<1>11. Waiting' /\ RefreshReadsNew'
  BY <1>3, <1>5, <1>6 DEF Waiting, RefreshReadsNew
<1>12. LoadReadsNew'
  <2> SUFFICES ASSUME NEW f \in Feed, load[f] # None, ~raced'[pollAt]
               PROVE  NewRows(load[f], pollAt)
    BY <1>3, <1>5 DEF LoadReadsNew, NewRows
  <2>1. pollAt \in Agency
    BY DEF Waiting, TypeOK, Agency
  <2>2. pollAt # staticAt
    BY <1>2, <1>3, <2>1 DEF TypeOK
  <2> QED BY <1>3, <2>1, <2>2 DEF LoadReadsNew, Refreshing, TypeOK
<1>13. LookupNotBehind'
  <2> SUFFICES ASSUME NEW a \in Agency, ~raced'[a], lookups'[a] # None
               PROVE  lookups'[a].trips >= refreshed[a] /\ lookups'[a].stops >= refreshed[a]
    BY <1>3 DEF LookupNotBehind, Since
  <2>1. CASE a = staticAt
    BY <1>2, <1>3, <2>1 DEF TypeOK, Result, NewRows
  <2>2. CASE a # staticAt
    BY <1>3, <2>2 DEF TypeOK, LookupNotBehind, Since
  <2> QED BY <2>1, <2>2
<1> QED BY <1>10, <1>11, <1>12, <1>13

\* A poll's load leaves what it read.
LEMMA PollLoadEnds ==
    ASSUME IInv, NEW f \in Feed, NEW lookup \in [trips : Nat \ {0}, stops : Nat] \cup {None},
           Result(f, lookup), Keep(f, lookup), GoOn(f),
           load[f] # None, UNCHANGED <<feed, up, pollAt>>
    PROVE  IInv'
<1> USE DEF IInv
<1>1. f \in Loader /\ f # "refresh" /\ Of(f) = pollAt
  BY FeedNames DEF Loader, Of
<1>2. pollAt \in Agency /\ pollAt # 0
  BY <1>1, OfAgency DEF Waiting
<1>3. /\ lookups' = [lookups EXCEPT ![pollAt] = lookup]
      /\ load' = [load EXCEPT ![f] = None]
      /\ pollPc' = [pollPc EXCEPT ![f] = "settled"]
      /\ UNCHANGED <<staticAt, stage, refreshed, raced, restarts>>
  BY <1>1 DEF Keep, GoOn, run, history
<1>4. \A l \in Loader : load'[l] = IF l = f THEN None ELSE load[l]
  BY <1>1, <1>3 DEF TypeOK
<1>5. TypeOK' /\ InOrder'
  BY <1>1, <1>2, <1>3 DEF TypeOK, InOrder
<1>6. Waiting'
  BY <1>2, <1>3, <1>4 DEF Waiting, Loader, TypeOK
<1>7. RefreshReadsNew'
  BY <1>1, <1>3, <1>4 DEF RefreshReadsNew, NewRows, Loader
<1>8. LoadReadsNew'
  BY <1>3, <1>4 DEF LoadReadsNew, NewRows, Refreshing, Loader
<1>9. LookupNotBehind'
  <2> SUFFICES ASSUME NEW a \in Agency, ~raced[a], lookups'[a] # None, ~Refreshing(a)
               PROVE  lookups'[a].trips >= refreshed[a] /\ lookups'[a].stops >= refreshed[a]
    BY <1>3 DEF LookupNotBehind, Since, Refreshing
  <2>1. CASE a = pollAt
    <3>1. NewRows(load[f], pollAt)
      BY <2>1 DEF LoadReadsNew
    <3> QED BY <1>2, <1>3, <2>1, <3>1 DEF TypeOK, Result, NewRows
  <2>2. CASE a # pollAt
    BY <1>3, <2>2 DEF TypeOK, LookupNotBehind, Since, Refreshing
  <2> QED BY <2>1, <2>2
<1> QED BY <1>5, <1>6, <1>7, <1>8, <1>9

\* The steps of a poll up to its load.
LEMMA PollSteps ==
    ASSUME IInv, StartPoll \/ PollNext \/ \E f \in Feed : FetchFails(f) \/ Get(f)
    PROVE  IInv'
<1> USE DEF IInv
<1>0. UNCHANGED <<feed, up, staticAt, stage, lookups, refreshed, raced, restarts>>
  BY DEF StartPoll, PollNext, FetchFails, Get, run, cache, history
<1>1. LookupNotBehind' /\ InOrder'
  BY <1>0 DEF LookupNotBehind, Since, InOrder
<1>2. CASE StartPoll \/ PollNext
  <2>1. \A f \in Feed : pollPc[f] = "settled"
    BY <1>2 DEF StartPoll, PollNext, Waiting
  <2>2. load' = load /\ \A f \in Feed : load[f] = None
    BY <1>2, <2>1 DEF StartPoll, PollNext, cache, Waiting
  <2>3. \A a \in Agency : Fetching(a) \in [Feed -> {"fetch", "get", "settled"}]
    BY DEF Fetching
  <2>4. pollAt' \in 0 .. NumAgencies /\ pollPc' \in [Feed -> {"fetch", "get", "settled"}]
        /\ (pollAt' = 0 => pollPc' = pollPc)
    BY <1>2, <2>3, WorkerAssumption DEF StartPoll, PollNext, TypeOK, Agency
  <2>5. TypeOK'
    BY <1>0, <2>2, <2>4 DEF TypeOK
  <2> QED BY <1>0, <1>1, <2>1, <2>2, <2>4, <2>5 DEF Waiting, RefreshReadsNew, LoadReadsNew, NewRows
<1>3. ASSUME NEW f \in Feed, FetchFails(f) \/ Get(f) PROVE IInv'
  <2>1. pollAt' = pollAt /\ pollPc[f] = "fetch" /\ pollAt # 0
    BY <1>3 DEF FetchFails, Get, Waiting
  <2>2. CASE pollPc' = [pollPc EXCEPT ![f] = "settled"] /\ load' = load
    <3>1. load[f] = None
      BY <2>1 DEF Waiting
    <3>2. TypeOK'
      BY <1>0, <2>1, <2>2 DEF TypeOK
    <3>3. Waiting'
      BY <2>1, <2>2, <3>1 DEF Waiting, TypeOK
    <3> QED BY <1>0, <1>1, <2>1, <2>2, <3>2, <3>3 DEF RefreshReadsNew, LoadReadsNew, NewRows, Refreshing
  <2>3. CASE pollPc' = [pollPc EXCEPT ![f] = "get"] /\ load' = [load EXCEPT ![f] = NotYet]
    <3>1. NotYet \in Rows /\ \A a \in Agency : NewRows(NotYet, a)
      BY DEF NotYet, Rows, NewRows
    <3>2. f \in Loader /\ f # "refresh" /\ \A l \in Loader : load'[l] = IF l = f THEN NotYet ELSE load[l]
      BY <2>3, FeedNames DEF Loader, TypeOK
    <3>3. TypeOK'
      BY <1>0, <2>1, <2>3, <3>1, <3>2 DEF TypeOK
    <3>4. Waiting'
      BY <2>1, <2>3, <3>2 DEF Waiting, TypeOK, Loader
    <3>5. RefreshReadsNew'
      BY <1>0, <3>2 DEF RefreshReadsNew, NewRows, Loader
    <3>6. LoadReadsNew'
      <4>1. pollAt \in Agency
        BY <2>1 DEF TypeOK, Agency
      <4> QED BY <1>0, <2>1, <3>1, <3>2, <4>1 DEF LoadReadsNew, NewRows, Refreshing, Loader
    <3> QED BY <1>1, <3>3, <3>4, <3>5, <3>6
  <2> QED BY <1>3, <2>2, <2>3 DEF FetchFails, Get, cache
<1> QED BY <1>2, <1>3

\* A worker that starts anew has no lookup.
LEMMA RestartStep ==
    ASSUME IInv, Restart
    PROVE  IInv'
<1> USE DEF IInv
<1>1. /\ UNCHANGED <<feed, up, refreshed>> /\ restarts' \in 0 .. MaxRestart
      /\ staticAt' = 0 /\ stage' = "load" /\ pollAt' = 0
      /\ pollPc' = [f \in Feed |-> "settled"] /\ lookups' = [a \in Agency |-> None]
      /\ load' = [l \in Loader |-> None] /\ raced' = [a \in Agency |-> FALSE]
  BY WorkerAssumption DEF Restart, TypeOK
<1>2. TypeOK' /\ InOrder'
  BY <1>1, WorkerAssumption DEF TypeOK, InOrder
<1> QED BY <1>1, <1>2 DEF Waiting, RefreshReadsNew, LoadReadsNew, LookupNotBehind, Since, Loader

\* Every step keeps the invariant.
LEMMA Inductive == IInv /\ [Next]_vars => IInv'
<1> SUFFICES ASSUME IInv, [Next]_vars PROVE IInv'
  OBVIOUS
<1>1. ASSUME NEW l \in Loader, Load(l) \/ LoadFails(l) PROVE IInv'
  <2>1. PICK lookup \in [trips : Nat \ {0}, stops : Nat] \cup {None} :
           Result(l, lookup) /\ Keep(l, lookup) /\ GoOn(l) /\ load[l] # None
           /\ UNCHANGED <<feed, up, pollAt>>
    BY <1>1, KeptType
  <2>2. CASE l = "refresh"
    BY <2>1, <2>2, RefreshEnds
  <2>3. CASE l \in Feed
    BY <2>1, <2>3, PollLoadEnds
  <2> QED BY <2>2, <2>3 DEF Loader
<1>2. CASE UNCHANGED vars
  BY <1>2 DEF vars, run, poll, cache, history, IInv, TypeOK, InOrder, Waiting, RefreshReadsNew,
              LoadReadsNew, LookupNotBehind, Since, NewRows, Refreshing
<1>3. CASE Next
  <2>1. CASE StartStatic \/ IngestReturns \/ IngestThrows
    BY <2>1, StaticSteps
  <2>2. CASE Swap \/ (\E a \in Agency : OtherSwap(a)) \/ Database
    BY <2>2, SwapSteps
  <2>3. ASSUME NEW l \in Loader, LoadStep(l) PROVE IInv'
    BY <1>1, <2>3, ReadSteps DEF LoadStep
  <2>4. CASE StartPoll \/ PollNext \/ \E f \in Feed : FetchFails(f) \/ Get(f)
    BY <2>4, PollSteps
  <2>5. CASE Restart
    BY <2>5, RestartStep
  <2> QED BY <1>3, <2>1, <2>2, <2>3, <2>4, <2>5 DEF Next, Ingest
<1> QED BY <1>2, <1>3

\* Nothing was loaded at first.
LEMMA InitInv == Init => IInv
<1> SUFFICES ASSUME Init PROVE IInv
  OBVIOUS
<1>1. TypeOK
  BY WorkerAssumption DEF Init, TypeOK
<1>2. InOrder /\ Waiting
  BY DEF Init, InOrder, Waiting, Loader
<1>3. RefreshReadsNew /\ LoadReadsNew /\ LookupNotBehind
  BY DEF Init, RefreshReadsNew, LoadReadsNew, LookupNotBehind, Since, Loader
<1> QED BY <1>1, <1>2, <1>3 DEF IInv

\* The invariant holds in every reachable state.
LEMMA Invariant == Spec => []IInv
  BY InitInv, Inductive, PTL DEF Spec

\* What the scheduler and the lookup service keep has its type; a lookup that is kept
\* has trips.
THEOREM WorkerTypes == Spec => []TypeOK
  BY Invariant, PTL DEF IInv

\* Both halves of a lookup are as new as the last refresh (StaticLookupService.refresh),
\* unless a poll's own load was under way when that refresh returned.
THEOREM NotBehind == Spec => []LookupNotBehind
  BY Invariant, PTL DEF IInv
=============================================================================
