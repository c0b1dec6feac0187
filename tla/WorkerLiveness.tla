---------------------------- MODULE WorkerLiveness ----------------------------
(***************************************************************************)
(* The realtime poll loop of the ingestion worker, timer by timer, and the *)
(* watchdog that ends the process when the loop is stuck.  A poll of one   *)
(* agency ends within AgencyTime whatever the feeds answer (fetches are    *)
(* aborted after REALTIME_FETCH_TIMEOUT_MS), unless an await that has no   *)
(* time limit, a database query or a Redis command, holds it up.           *)
(***************************************************************************)
EXTENDS Integers

CONSTANTS
    NumAgencies,  \* agencies with a realtime feed, polled one after another
    AgencyTime,   \* longest poll of one agency when nothing hangs
    PollEvery,    \* GTFS_REALTIME_POLL_INTERVAL_MS
    CheckEvery,   \* WATCHDOG_CHECK_MS
    StallExit     \* WORKER_STALL_EXIT_MS

\* The configuration the constants of the worker are fit for: nothing in the
\* code relates the number of agencies to WORKER_STALL_EXIT_MS.
ASSUME TimingAssumption ==
    /\ NumAgencies \in Nat
    /\ AgencyTime \in Nat
    /\ PollEvery \in Nat \ {0}
    /\ CheckEvery \in Nat \ {0}
    /\ StallExit \in Nat
    /\ PollEvery + NumAgencies * AgencyTime <= StallExit

VARIABLES
    pollIn,   \* time to the next tick of the realtime-poll interval
    checkIn,  \* time to the next tick of the watchdog
    stalled,  \* now - lastAliveAt
    running,  \* isRealtimePollRunning
    agency,   \* the agency whose poll is awaited; the loop is past the last one
    spent,    \* how long it has been
    hung,     \* an await of this loop outlasts every limit
    exited    \* the process has exited

loop == <<running, agency, spent, hung>>
vars == <<pollIn, checkIn, stalled, loop, exited>>

TypeOK ==
    /\ pollIn \in 0 .. PollEvery
    /\ checkIn \in 0 .. CheckEvery
    /\ stalled \in Nat
    /\ running \in BOOLEAN
    /\ agency \in 1 .. NumAgencies + 1
    /\ spent \in 0 .. AgencyTime
    /\ hung \in BOOLEAN
    /\ exited \in BOOLEAN

\* onModuleInit of the scheduler and of the liveness service.
Init ==
    /\ pollIn = PollEvery
    /\ checkIn = CheckEvery
    /\ stalled = 0
    /\ running = FALSE
    /\ agency = 1
    /\ spent = 0
    /\ hung = FALSE
    /\ exited = FALSE

Polling == running /\ agency <= NumAgencies
----------------------------------------------------------------------------
\* Faulty variant: a tick that is skipped counts as a sign of life.
SkipAlive ==
    /\ ~exited
    /\ pollIn = 0
    /\ running
    /\ pollIn' = PollEvery
    /\ stalled' = 0
    /\ UNCHANGED <<checkIn, loop, exited>>

SkipTick ==
    /\ ~exited
    /\ pollIn = 0
    /\ running
    /\ pollIn' = PollEvery
    /\ UNCHANGED <<checkIn, stalled, loop, exited>>

StartLoop ==
    /\ ~exited
    /\ pollIn = 0
    /\ ~running
    /\ pollIn' = PollEvery
    /\ running' = TRUE
    /\ agency' = 1
    /\ spent' = 0
    /\ UNCHANGED <<checkIn, stalled, hung, exited>>

\* pollAgency settles, with whatever outcome, and the loop goes on.
AgencyPolled ==
    /\ ~exited
    /\ Polling
    /\ agency' = agency + 1
    /\ spent' = 0
    /\ UNCHANGED <<pollIn, checkIn, stalled, running, hung, exited>>

Hang ==
    /\ ~exited
    /\ Polling
    /\ ~hung
    /\ hung' = TRUE
    /\ UNCHANGED <<pollIn, checkIn, stalled, running, agency, spent, exited>>

\* Faulty variant: only a loop that some feed answered counts.
LoopEndsAnswered ==
    /\ ~exited
    /\ running
    /\ agency = NumAgencies + 1
    /\ running' = FALSE
    /\ hung' = FALSE
    /\ stalled' \in {0, stalled}
    /\ UNCHANGED <<pollIn, checkIn, agency, spent, exited>>

\* The finally block, with markAlive.
LoopEnds ==
    /\ ~exited
    /\ running
    /\ agency = NumAgencies + 1
    /\ running' = FALSE
    /\ hung' = FALSE
    /\ stalled' = 0
    /\ UNCHANGED <<pollIn, checkIn, agency, spent, exited>>

\* Faulty variant: the watchdog warns and leaves it at that.
CheckWarns ==
    /\ ~exited
    /\ checkIn = 0
    /\ checkIn' = CheckEvery
    /\ UNCHANGED <<pollIn, stalled, loop, exited>>

Check ==
    /\ ~exited
    /\ checkIn = 0
    /\ checkIn' = CheckEvery
    /\ exited' = (stalled > StallExit)
    /\ UNCHANGED <<pollIn, stalled, loop>>

\* Docker's restart policy: a new process, from its first statement.
Restart ==
    /\ exited
    /\ pollIn' = PollEvery
    /\ checkIn' = CheckEvery
    /\ stalled' = 0
    /\ running' = FALSE
    /\ agency' = 1
    /\ spent' = 0
    /\ hung' = FALSE
    /\ exited' = FALSE

\* Faulty variant: fetches are not aborted.
TickNoAbort ==
    /\ ~exited
    /\ pollIn > 0
    /\ checkIn > 0
    /\ pollIn' = pollIn - 1
    /\ checkIn' = checkIn - 1
    /\ stalled' = stalled + 1
    /\ spent' = IF Polling /\ ~hung THEN spent + 1 ELSE spent
    /\ UNCHANGED <<running, agency, hung, exited>>

\* Time passes up to the next timer, and in a loop that does not hang up to the
\* limit of the poll that is awaited.
Tick ==
    /\ ~exited
    /\ pollIn > 0
    /\ checkIn > 0
    /\ ~hung => /\ ~(running /\ ~Polling)
                /\ Polling => spent < AgencyTime
    /\ pollIn' = pollIn - 1
    /\ checkIn' = checkIn - 1
    /\ stalled' = stalled + 1
    /\ spent' = IF Polling /\ ~hung THEN spent + 1 ELSE spent
    /\ UNCHANGED <<running, agency, hung, exited>>
----------------------------------------------------------------------------
\* What happens by itself: the event loop runs, Docker restarts the container.
Due == SkipTick \/ StartLoop \/ LoopEnds \/ Check \/ Restart \/ Tick

Next == Due \/ AgencyPolled \/ Hang

Spec == Init /\ [][Next]_vars

\* A poll that does not hang ends, for Tick waits for it at its limit.
Fairness == WF_vars(Due) /\ WF_vars(~hung /\ AgencyPolled)

FairSpec == Spec /\ Fairness
----------------------------------------------------------------------------
\* "A feed outage must not restart the worker": it exits only when an await of
\* the loop hangs, however long the feeds take to fail.
OutageDoesNotRestart == exited => hung

\* "But a hung loop must": no worker lives on with a loop that has not been
\* through for longer than the limit and one period of the watchdog.
StuckWorkerEnds == ~exited => stalled <= StallExit + CheckEvery

\* Ticks are skipped while a loop is running, but not for good: every loop is
\* through at some time, or the process it hangs in is replaced.
LoopEndsOrRestarts == running ~> ~running
=============================================================================
