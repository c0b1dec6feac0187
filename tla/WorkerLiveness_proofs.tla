------------------------ MODULE WorkerLiveness_proofs ------------------------
(***************************************************************************)
(* For every number of agencies and all times that fit the assumption: the *)
(* watchdog ends the worker only for a loop that hangs, and no worker with *)
(* such a loop lives on.                                                   *)
(***************************************************************************)
EXTENDS WorkerLiveness, TLAPS

\* The most time the agencies before the a-th take when nothing hangs.
Before(a) == (a - 1) * AgencyTime

\* What the watchdog reads is bounded by what the loop has done since it last
\* completed: it waited for a tick, then polled some of the agencies.
LoopInTime ==
    ~hung => /\ running => stalled <= PollEvery + Before(agency) + spent
             /\ ~running => stalled + pollIn <= PollEvery

\* How far the watchdog lets a loop get before it looks again.
WatchdogInTime == ~exited => stalled + checkIn <= StallExit + CheckEvery

\* A loop that is past its last agency has nothing left to await.
Settled ==
    /\ agency = NumAgencies + 1 => spent = 0
    /\ hung => running

IInv ==
    /\ TypeOK
    /\ LoopInTime
    /\ WatchdogInTime
    /\ Settled
    /\ OutageDoesNotRestart

\* Before grows by one agency's time with each agency.
LEMMA NextAgency ==
    ASSUME NEW a \in Nat, a >= 1
    PROVE  Before(a + 1) = Before(a) + AgencyTime /\ Before(1) = 0
  BY TimingAssumption DEF Before

\* A loop's agencies and the wait for its tick fit the limit of the watchdog.
LEMMA LoopFits ==
    ASSUME NEW a \in 1 .. NumAgencies + 1, NEW t \in 0 .. AgencyTime,
           a = NumAgencies + 1 => t = 0
    PROVE  PollEvery + Before(a) + t <= StallExit
<1>1. CASE a = NumAgencies + 1
  BY <1>1, TimingAssumption DEF Before
<1>2. CASE a <= NumAgencies
  <2>1. Before(a) + AgencyTime = a * AgencyTime
    BY TimingAssumption DEF Before
  <2>2. PICK k \in Nat : NumAgencies = a + k
    <3>1. NumAgencies - a \in Nat /\ NumAgencies = a + (NumAgencies - a)
      BY <1>2, TimingAssumption
    <3> QED BY <3>1
  <2>3. NumAgencies * AgencyTime = a * AgencyTime + k * AgencyTime
    BY <2>2, TimingAssumption
  <2>4. k * AgencyTime >= 0
    BY TimingAssumption
  <2>5. Before(a) \in Int /\ a * AgencyTime \in Int /\ k * AgencyTime \in Int
        /\ NumAgencies * AgencyTime \in Int
    BY TimingAssumption DEF Before
  <2> QED BY <2>1, <2>3, <2>4, <2>5, TimingAssumption
<1> QED BY <1>1, <1>2, TimingAssumption

LEMMA InitInv == Init => IInv
<1> SUFFICES ASSUME Init PROVE IInv
  OBVIOUS
<1>1. TypeOK
  <2>1. 1 \in 1 .. NumAgencies + 1 /\ 0 \in 0 .. AgencyTime /\ 0 \in Nat
    BY TimingAssumption
  <2>2. PollEvery \in 0 .. PollEvery /\ CheckEvery \in 0 .. CheckEvery
    BY TimingAssumption
  <2> QED BY <2>1, <2>2 DEF Init, TypeOK
<1>2. LoopInTime
  BY TimingAssumption DEF Init, LoopInTime
<1>3. WatchdogInTime
  BY TimingAssumption DEF Init, WatchdogInTime
<1> QED BY <1>1, <1>2, <1>3 DEF Init, IInv, Settled, OutageDoesNotRestart

LEMMA StepInv == IInv /\ [Next]_vars => IInv'
<1> SUFFICES ASSUME IInv, [Next]_vars PROVE IInv'
  OBVIOUS
<1>t. /\ NumAgencies \in Nat /\ AgencyTime \in Nat /\ StallExit \in Nat
      /\ PollEvery \in Nat \ {0} /\ CheckEvery \in Nat \ {0}
  BY TimingAssumption
<1> USE <1>t DEF IInv, TypeOK
<1>0. \A a \in 1 .. NumAgencies + 1 : Before(a) \in Int
  BY DEF Before
<1>1. CASE SkipTick
  BY <1>1 DEF SkipTick, loop, LoopInTime, WatchdogInTime, Settled, OutageDoesNotRestart
<1>2. CASE StartLoop
  <2>1. Before(1) = 0
    BY DEF Before
  <2>2. stalled <= PollEvery /\ ~hung
    BY <1>2 DEF StartLoop, LoopInTime, Settled
  <2>3. LoopInTime'
    BY <1>2, <2>1, <2>2 DEF StartLoop, LoopInTime, Before
  <2> QED BY <1>2, <2>2, <2>3 DEF StartLoop, WatchdogInTime, Settled, OutageDoesNotRestart
<1>3. CASE AgencyPolled
  <2>1. agency \in Nat /\ agency >= 1 /\ agency <= NumAgencies
    BY <1>3 DEF AgencyPolled, Polling
  <2>2. Before(agency + 1) = Before(agency) + AgencyTime
    BY <2>1, NextAgency
  <2>3. agency' = agency + 1 /\ agency' \in 1 .. NumAgencies + 1
    BY <1>3, <2>1 DEF AgencyPolled
  <2>4. Before(agency') = Before(agency) + AgencyTime
    BY <2>2, <2>3
  <2>5. Before(agency)' = Before(agency')
    BY DEF Before
  <2>6. LoopInTime'
    BY <1>0, <1>3, <2>1, <2>3, <2>4, <2>5 DEF AgencyPolled, Polling, LoopInTime
  <2> QED BY <1>3, <2>3, <2>6
        DEF AgencyPolled, Polling, WatchdogInTime, Settled, OutageDoesNotRestart
<1>4. CASE Hang
  BY <1>4 DEF Hang, Polling, LoopInTime, WatchdogInTime, Settled, OutageDoesNotRestart
<1>5. CASE LoopEnds
  <2>1. TypeOK'
    BY <1>5 DEF LoopEnds
  <2>2. LoopInTime' /\ WatchdogInTime'
    BY <1>5 DEF LoopEnds, LoopInTime, WatchdogInTime
  <2> QED BY <1>5, <2>1, <2>2 DEF LoopEnds, Settled, OutageDoesNotRestart
<1>6. CASE Check
  <2>1. stalled > StallExit => hung
    <3> SUFFICES ASSUME ~hung PROVE stalled <= StallExit
      OBVIOUS
    <3>1. CASE running
      <4>1. PollEvery + Before(agency) + spent <= StallExit
        BY LoopFits DEF Settled
      <4> QED BY <1>0, <3>1, <4>1 DEF LoopInTime
    <3>2. CASE ~running
      <4>1. PollEvery <= StallExit
        <5>1. NumAgencies * AgencyTime \in Nat
          OBVIOUS
        <5> QED BY <5>1, TimingAssumption
      <4> QED BY <3>2, <4>1 DEF LoopInTime
    <3> QED BY <3>1, <3>2
  <2>2. OutageDoesNotRestart'
    BY <1>6, <2>1 DEF Check, loop, OutageDoesNotRestart
  <2>3. WatchdogInTime'
    <3>1. CASE stalled > StallExit
      <4>1. exited'
        BY <1>6, <3>1 DEF Check
      <4> QED BY <4>1 DEF WatchdogInTime
    <3>2. CASE ~(stalled > StallExit)
      <4>1. stalled <= StallExit
        BY <3>2
      <4> QED BY <1>6, <4>1 DEF Check, WatchdogInTime
    <3> QED BY <3>1, <3>2
  <2>4. LoopInTime' /\ Settled'
    BY <1>6 DEF Check, loop, LoopInTime, Settled, Before
  <2>5. TypeOK'
    <3>1. exited' \in BOOLEAN
      BY <1>6 DEF Check
    <3> QED BY <1>6, <3>1 DEF Check, loop
  <2> QED BY <2>2, <2>3, <2>4, <2>5
<1>7. CASE Restart
  <2>1. TypeOK'
    <3>1. 1 \in 1 .. NumAgencies + 1 /\ 0 \in 0 .. AgencyTime
      OBVIOUS
    <3>2. PollEvery \in 0 .. PollEvery /\ CheckEvery \in 0 .. CheckEvery
      OBVIOUS
    <3> QED BY <1>7, <3>1, <3>2, Zenon DEF Restart
  <2>2. LoopInTime' /\ WatchdogInTime'
    BY <1>7 DEF Restart, LoopInTime, WatchdogInTime
  <2> QED BY <1>7, <2>1, <2>2 DEF Restart, Settled, OutageDoesNotRestart
<1>8. CASE Tick
  <2>1. Before(agency)' = Before(agency)
    BY <1>8 DEF Tick, Before
  <2>2. LoopInTime'
    BY <1>0, <1>8, <2>1 DEF Tick, Polling, LoopInTime
  <2>3. spent' \in 0 .. AgencyTime
    BY <1>8 DEF Tick, Polling
  <2> QED BY <1>8, <2>2, <2>3
        DEF Tick, Polling, WatchdogInTime, Settled, OutageDoesNotRestart
<1>9. CASE UNCHANGED vars
  BY <1>9 DEF vars, loop, LoopInTime, WatchdogInTime, Settled, OutageDoesNotRestart, Before
<1> QED
  BY <1>1, <1>2, <1>3, <1>4, <1>5, <1>6, <1>7, <1>8, <1>9 DEF Next, Due

LEMMA InvariantHolds == Spec => []IInv
<1>1. IInv /\ [Next]_vars => IInv'
  BY StepInv
<1> QED BY InitInv, <1>1, PTL DEF Spec

\* The variables of the poll loop and the watchdog keep their types; no poll
\* of an agency overruns its limit.
THEOREM TypeCorrect == Spec => []TypeOK
<1>1. IInv => TypeOK
  BY DEF IInv
<1> QED BY InvariantHolds, <1>1, PTL

\* Feeds that fail, as slowly as their time limit allows, never make the
\* watchdog exit, for as many agencies as fit the limit.
THEOREM OutageIsSurvived == Spec => []OutageDoesNotRestart
<1>1. IInv => OutageDoesNotRestart
  BY DEF IInv
<1> QED BY InvariantHolds, <1>1, PTL

\* The watchdog ends every worker whose loop has not completed for the limit
\* and one watchdog period.
THEOREM StuckWorkerIsEnded == Spec => []StuckWorkerEnds
<1>1. IInv => StuckWorkerEnds
  BY TimingAssumption DEF IInv, TypeOK, WatchdogInTime, StuckWorkerEnds
<1> QED BY InvariantHolds, <1>1, PTL
=============================================================================
