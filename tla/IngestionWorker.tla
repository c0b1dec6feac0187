---------------------------- MODULE IngestionWorker ----------------------------
(***************************************************************************)
(* IngestionScheduler and StaticLookupService in one worker process: the   *)
(* static run, which loads agency after agency and refreshes the lookup of *)
(* each, beside the realtime poll, whose feeds get the lookup and load it  *)
(* when it is missing.  All of them interleave at their awaits.            *)
(*                                                                         *)
(* What a load of an agency does is StaticLoad's subject; here it either   *)
(* swaps a new feed in or does not, and returns or throws.  Feeds are      *)
(* numbered: feed[a] is the feed of agency a in the live tables, 0 if it   *)
(* has never been loaded.                                                  *)
(***************************************************************************)
EXTENDS Integers

CONSTANTS
    NumAgencies,  \* agencies are numbered in the order of getAllAgencies
    Feeds,        \* Feeds[a]: the feeds of agency a that get() the lookup, of "trips", "alerts"
    None,         \* no lookup in the map, no load under way
    MaxFeed,      \* bound: MaxFeed[a] feeds of agency a are swapped in
    MaxRestart    \* bound: times the worker is restarted

ASSUME WorkerAssumption ==
    /\ NumAgencies \in Nat \ {0}
    /\ Feeds \in [1 .. NumAgencies -> SUBSET {"trips", "alerts"}]
    /\ MaxFeed \in [1 .. NumAgencies -> Nat]
    /\ MaxRestart \in Nat
    /\ None \notin [trips : Int, stops : Int]

Agency == 1 .. NumAgencies

Feed == UNION {Feeds[a] : a \in Agency}

Loader == Feed \cup {"refresh"}  \* who may have a load() under way

Unread == -1                     \* a query of load() that has not answered

VARIABLES
    \* the database
    feed,      \* feed[a]: the feed in trips and stops
    up,        \* the database answers
    \* the static run
    staticAt,  \* the agency it is at; 0: isStaticIngestionRunning is FALSE
    stage,     \* "load": ingestAgency, "loaded": it has swapped, "refresh"
    \* the realtime poll
    pollAt,    \* the agency it is at; 0: isRealtimePollRunning is FALSE
    pollPc,    \* pollPc[f]: where the poll of the feed stands
    \* StaticLookupService
    lookups,   \* lookups[a]: the feed its trips and its stops were read from
    load,      \* load[l]: what the two queries of l's load() returned so far
    \* history
    refreshed, \* refreshed[a]: the feed in the database when a's last refresh() began
    raced,     \* raced[a]: a poll's load() was under way when it returned
    restarts

run     == <<staticAt, stage>>
poll    == <<pollAt, pollPc>>
cache   == <<lookups, load>>
history == <<refreshed, raced, restarts>>
vars    == <<feed, up, run, poll, cache, history>>

Rows == [trips : Nat \cup {Unread}, stops : Nat \cup {Unread}]

\* A lookup is never one of a feed without trips: it would turn every trip of
\* the realtime feed into an added one.
TypeOK ==
    /\ feed \in [Agency -> Nat]
    /\ up \in BOOLEAN
    /\ staticAt \in 0 .. NumAgencies
    /\ stage \in {"load", "loaded", "refresh"}
    /\ pollAt \in 0 .. NumAgencies
    /\ pollPc \in [Feed -> {"fetch", "get", "settled"}]
    /\ lookups \in [Agency -> [trips : Nat \ {0}, stops : Nat] \cup {None}]
    /\ load \in [Loader -> Rows \cup {None}]
    /\ refreshed \in [Agency -> Nat]
    /\ raced \in [Agency -> BOOLEAN]
    /\ restarts \in 0 .. MaxRestart

Init ==
    /\ staticAt = 0 /\ stage = "load"
    /\ pollAt = 0 /\ pollPc = [f \in Feed |-> "settled"]
    /\ lookups = [a \in Agency |-> None]
    /\ load = [l \in Loader |-> None]
    /\ feed = [a \in Agency |-> 0]
    /\ up = TRUE
    /\ refreshed = [a \in Agency |-> 0]
    /\ raced = [a \in Agency |-> FALSE]
    /\ restarts = 0

\* The agency whose lookup l loads.
Of(l) == IF l = "refresh" THEN staticAt ELSE pollAt

NotYet == [trips |-> Unread, stops |-> Unread]
----------------------------------------------------------------------------
(***************************************************************************)
(* runStaticIngestion.                                                     *)
(***************************************************************************)
NextAgency == staticAt' = (IF staticAt = NumAgencies THEN 0 ELSE staticAt + 1) /\ stage' = "load"

\* The cron job, and once after startup; a tick during a run is skipped.
StartStatic ==
    /\ staticAt = 0
    /\ staticAt' = 1
    /\ stage' = "load"
    /\ UNCHANGED <<feed, up, poll, cache, history>>

NewFeed(a) ==
    /\ feed[a] < MaxFeed[a]
    /\ feed' = [feed EXCEPT ![a] = @ + 1]

\* ingestAgency's transaction commits.
Swap ==
    /\ staticAt # 0 /\ stage = "load" /\ up
    /\ NewFeed(staticAt)
    /\ stage' = "loaded"
    /\ UNCHANGED <<up, staticAt, poll, cache, history>>

\* Another worker's commits, or the one of a session this worker has lost.
OtherSwap(a) ==
    /\ up
    /\ NewFeed(a)
    /\ UNCHANGED <<up, run, poll, cache, history>>

\* After the swap, or because another worker holds the agency's lock.
IngestReturns ==
    /\ staticAt # 0 /\ stage \in {"load", "loaded"}
    /\ stage' = "refresh"
    /\ load' = [load EXCEPT !["refresh"] = NotYet]
    /\ refreshed' = [refreshed EXCEPT ![staticAt] = feed[staticAt]]
    /\ UNCHANGED <<feed, up, staticAt, poll, lookups, raced, restarts>>

\* Faulty variant: one agency's error ends the run.
ThrowEndsRun ==
    /\ staticAt # 0 /\ stage \in {"load", "loaded"}
    /\ staticAt' = 0 /\ stage' = "load"
    /\ UNCHANGED <<feed, up, poll, cache, history>>

\* A failed download, copy or check, a lost connection, or an ANALYZE that
\* fails when the new feed is live already.
IngestThrows ==
    /\ staticAt # 0 /\ stage \in {"load", "loaded"}
    /\ NextAgency
    /\ UNCHANGED <<feed, up, poll, cache, history>>
----------------------------------------------------------------------------
(***************************************************************************)
(* StaticLookupService.load: two queries on connections of their own, then *)
(* the lookup is replaced.                                                 *)
(***************************************************************************)
ReadTrips(l) ==
    /\ load[l] # None /\ up
    /\ load[l].trips = Unread
    /\ load' = [load EXCEPT ![l].trips = feed[Of(l)]]
    /\ UNCHANGED <<feed, up, run, poll, lookups, history>>

ReadStops(l) ==
    /\ load[l] # None /\ up
    /\ load[l].stops = Unread
    /\ load' = [load EXCEPT ![l].stops = feed[Of(l)]]
    /\ UNCHANGED <<feed, up, run, poll, lookups, history>>

\* Who called goes on: the run with the next agency, the feed to its write.
GoOn(l) ==
    IF l = "refresh"
    THEN /\ NextAgency
         /\ raced' = [raced EXCEPT ![staticAt] =
                         pollAt = staticAt /\ \E f \in Feed : load[f] # None]
         /\ UNCHANGED <<pollPc, refreshed, restarts>>
    ELSE pollPc' = [pollPc EXCEPT ![l] = "settled"] /\ UNCHANGED <<run, history>>

Keep(l, lookup) ==
    /\ lookups' = [lookups EXCEPT ![Of(l)] = lookup]
    /\ load' = [load EXCEPT ![l] = None]

\* Faulty variant: a lookup without trips is kept like any other.
LoadEmpty(l) ==
    /\ load[l] # None
    /\ load[l].trips # Unread /\ load[l].stops # Unread
    /\ Keep(l, load[l])
    /\ GoOn(l)
    /\ UNCHANGED <<feed, up, pollAt>>

Load(l) ==
    /\ load[l] # None
    /\ load[l].trips # Unread /\ load[l].stops # Unread
    /\ Keep(l, IF load[l].trips = 0 THEN None ELSE load[l])
    /\ GoOn(l)
    /\ UNCHANGED <<feed, up, pollAt>>

\* Faulty variant: the cached copy survives a failed refresh.
LoadFailsQuietly(l) ==
    /\ load[l] # None /\ ~up
    /\ load[l].trips = Unread \/ load[l].stops = Unread
    /\ load' = [load EXCEPT ![l] = None]
    /\ GoOn(l)
    /\ UNCHANGED <<feed, up, pollAt, lookups>>

\* One query fails, so Promise.all does; refresh() drops the lookup, and the
\* scheduler or get() catches the error.
LoadFails(l) ==
    /\ load[l] # None /\ ~up
    /\ load[l].trips = Unread \/ load[l].stops = Unread
    /\ Keep(l, None)
    /\ GoOn(l)
    /\ UNCHANGED <<feed, up, pollAt>>
----------------------------------------------------------------------------
(***************************************************************************)
(* runRealtimePoll and pollAgency.                                         *)
(***************************************************************************)
Fetching(a) == [f \in Feed |-> IF f \in Feeds[a] THEN "fetch" ELSE "settled"]

StartPoll ==
    /\ pollAt = 0
    /\ pollAt' = 1
    /\ pollPc' = Fetching(1)
    /\ UNCHANGED <<feed, up, run, cache, history>>

\* No answer, or one that isFeedFresh rejects.
FetchFails(f) ==
    /\ pollPc[f] = "fetch"
    /\ pollPc' = [pollPc EXCEPT ![f] = "settled"]
    /\ UNCHANGED <<feed, up, run, pollAt, cache, history>>

\* Faulty variant: a missing lookup is left for the next static run.
GetCached(f) ==
    /\ pollPc[f] = "fetch"
    /\ pollPc' = [pollPc EXCEPT ![f] = "settled"]
    /\ UNCHANGED <<feed, up, run, pollAt, cache, history>>

\* The feed is written with the lookup of the map, or get() has to load it.
Get(f) ==
    /\ pollPc[f] = "fetch"
    /\ IF lookups[pollAt] # None
       THEN pollPc' = [pollPc EXCEPT ![f] = "settled"] /\ UNCHANGED load
       ELSE /\ pollPc' = [pollPc EXCEPT ![f] = "get"]
            /\ load' = [load EXCEPT ![f] = NotYet]
    /\ UNCHANGED <<feed, up, run, pollAt, lookups, history>>

\* Promise.allSettled, then the next agency.
PollNext ==
    /\ pollAt # 0
    /\ \A f \in Feed : pollPc[f] = "settled"
    /\ IF pollAt = NumAgencies
       THEN pollAt' = 0 /\ UNCHANGED pollPc
       ELSE pollAt' = pollAt + 1 /\ pollPc' = Fetching(pollAt + 1)
    /\ UNCHANGED <<feed, up, run, cache, history>>
----------------------------------------------------------------------------
\* Everything the worker knows is in memory.
Restart ==
    /\ restarts < MaxRestart
    /\ restarts' = restarts + 1
    /\ staticAt' = 0 /\ stage' = "load"
    /\ pollAt' = 0 /\ pollPc' = [f \in Feed |-> "settled"]
    /\ lookups' = [a \in Agency |-> None]
    /\ load' = [l \in Loader |-> None]
    /\ raced' = [a \in Agency |-> FALSE]
    /\ UNCHANGED <<feed, up, refreshed>>

Database == up' = ~up /\ UNCHANGED <<feed, run, poll, cache, history>>

Ingest == Swap \/ IngestReturns \/ IngestThrows

LoadStep(l) == ReadTrips(l) \/ ReadStops(l) \/ Load(l) \/ LoadFails(l)

Next ==
    \/ StartStatic \/ Ingest
    \/ \E a \in Agency : OtherSwap(a)
    \/ \E l \in Loader : LoadStep(l)
    \/ StartPoll \/ PollNext
    \/ \E f \in Feed : FetchFails(f) \/ Get(f)
    \/ Restart \/ Database

Spec == Init /\ [][Next]_vars

\* Both timers tick for ever, a load of an agency and a query end somehow, a
\* fetch is aborted after ten seconds, and an agency's feeds answer again and
\* again.
Fairness ==
    /\ WF_vars(StartStatic) /\ WF_vars(IngestReturns \/ IngestThrows)
    /\ \A l \in Loader : WF_vars(LoadStep(l))
    /\ WF_vars(StartPoll) /\ WF_vars(PollNext)
    /\ \A f \in Feed : WF_vars(FetchFails(f) \/ Get(f))
    /\ \A a \in {x \in Agency : Feeds[x] # {}} : SF_vars(pollAt = a /\ \E f \in Feed : Get(f))

FairSpec == Spec /\ Fairness
----------------------------------------------------------------------------
\* What a refresh found, or a later feed, is what the polls use from then on
\* (or nothing, until they have loaded it), unless a poll's load was under way
\* when the refresh returned.  Both halves of the lookup are that new, even if
\* they are of two feeds.
Since(a) ==
    lookups[a] # None /\ ~(staticAt = a /\ stage = "refresh") =>
        lookups[a].trips >= refreshed[a] /\ lookups[a].stops >= refreshed[a]

LookupNotBehind == \A a \in Agency : ~raced[a] => Since(a)

\* A lookup that is missing or was dropped comes back by itself once the
\* database stays up, without a static run.
LookupComesBack ==
    <>[]up => \A a \in {x \in Agency : Feeds[x] # {}} : feed[a] > 0 /\ lookups[a] = None ~> lookups[a] # None

\* No agency keeps the others from being loaded and polled, whatever fails.
EveryAgencyHasItsTurn == \A a \in Agency : []<>(staticAt = a) /\ []<>(pollAt = a)
=============================================================================
