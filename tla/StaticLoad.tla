----------------------------- MODULE StaticLoad -----------------------------
(***************************************************************************)
(* GtfsStaticService.ingestAgency for one agency, run by several worker    *)
(* processes against one Postgres database: download, per-agency advisory  *)
(* lock, session-private staging tables, row-count check, and the swap of  *)
(* every table in one transaction.                                         *)
(*                                                                         *)
(* Postgres is modelled at READ COMMITTED, statement by statement: a       *)
(* DELETE sees the rows committed when it starts and waits for a           *)
(* transaction that is deleting the same rows; an INSERT ... ON CONFLICT   *)
(* DO NOTHING waits for uncommitted rows of its table.  Nothing in the     *)
(* database itself keeps two swaps apart: only the advisory lock does.     *)
(*                                                                         *)
(* What can go wrong: a statement fails on a live session; a connection is *)
(* lost, and the server notices later (the session lives on as an orphan,  *)
(* with its lock and its open transaction, and a COMMIT already sent may   *)
(* still be applied); the process dies.                                    *)
(***************************************************************************)
EXTENDS Integers, FiniteSets

CONSTANTS
    Feed, NumTables, CoreTables, Calendars, Row, Rows, Staged,  \* as in AgencyData
    Key,          \* Key[r]: the value of r in the table's unique key
    Worker,       \* worker processes
    Conn,         \* database sessions
    PoolOf,       \* PoolOf[c]: the worker whose connection pool c belongs to
    NoConn, NoFeed,
    MaxVersion,   \* bound: no load starts once data_version has reached it
    MaxLockDepth  \* bound: a session that holds the lock so often can unlock it

\* A feed may repeat a unique key; ON CONFLICT DO NOTHING then keeps one of the
\* rows, so a table can end up with fewer rows than were staged.
ASSUME LoadAssumption ==
    /\ NumTables \in Nat \ {0}
    /\ CoreTables \subseteq 1 .. NumTables
    /\ Calendars \subseteq 1 .. NumTables
    /\ Rows \in [Feed -> [1 .. NumTables -> SUBSET Row]]
    /\ Staged \in [Feed -> [1 .. NumTables -> Nat]]
    /\ \A f \in Feed, t \in 1 .. NumTables :
          /\ Cardinality(Rows[f][t]) <= Staged[f][t]
          /\ \A r, q \in Rows[f][t] : Key[r] = Key[q] => r = q
    /\ PoolOf \in [Conn -> Worker]
    /\ NoConn \notin Conn
    /\ NoFeed \notin Feed
    /\ MaxVersion \in Nat
    /\ MaxLockDepth \in Nat

VARIABLES
    \* the worker processes
    pc,           \* pc[w]: where ingestAgency stands
    using,        \* using[w]: the session of its query runner
    feed,         \* feed[w]: the downloaded feed
    result,       \* result[w]: how the last load ended, as its caller sees it
    replaced,     \* replaced[w]: history, the load's transaction committed
    \* the database
    live,         \* live[t]: the agency's committed rows in table t
    dataVersion,  \* agencies.data_version
    agencyRow,    \* whether the agency has its row in agencies
    \* the database sessions
    sess,         \* sess[c]: who knows about the session
    locks,        \* locks[c]: how many times it holds the advisory lock
    stage,        \* stage[c]: the feed in its staging tables
    txn,          \* txn[c]: its transaction
    at,           \* at[c]: the table the transaction works on
    seen,         \* seen[c]: the rows its running DELETE found
    del,          \* del[c][t]: rows deleted, not yet committed
    ins,          \* ins[c][t]: rows inserted, not yet committed
    bumped        \* bumped[c]: the UPDATE of agencies is done

workerVars == <<pc, using, feed, result, replaced>>
dbVars     == <<live, dataVersion, agencyRow>>
txnVars    == <<txn, at, seen, del, ins, bumped>>
vars       == <<workerVars, dbVars, sess, locks, stage, txnVars>>

Table  == 1 .. NumTables
Data   == [Table -> SUBSET Row]
NoData == [t \in Table |-> {}]

Promise == INSTANCE AgencyData WITH data <- live, version <- dataVersion

(***************************************************************************)
(* Phases of ingestAgency.  From "create" on the load holds the lock; from *)
(* "delete" to "commit" its transaction is open.                           *)
(***************************************************************************)
StagePhase == {"create", "copy", "check", "begin"}
SwapPhase  == {"delete", "deleting", "insert", "bump", "commit"}
CleanPhase == {"drop", "unlock"}
LockPhase  == StagePhase \cup SwapPhase \cup CleanPhase
ConnPhase  == LockPhase \cup {"lock"}
Phase      == ConnPhase \cup {"idle", "download", "upsert", "connect", "analyze"}

TypeOK ==
    /\ pc \in [Worker -> Phase]
    /\ using \in [Worker -> Conn \cup {NoConn}]
    /\ feed \in [Worker -> Feed \cup {NoFeed}]
    /\ result \in [Worker -> {"none", "ok", "skipped", "failed"}]
    /\ replaced \in [Worker -> BOOLEAN]
    /\ live \in Data
    /\ dataVersion \in Nat
    /\ agencyRow \in BOOLEAN
    /\ sess \in [Conn -> {"pooled", "used", "leaked", "orphan"}]
    /\ locks \in [Conn -> Nat]
    /\ stage \in [Conn -> Feed \cup {NoFeed}]
    /\ txn \in [Conn -> {"none", "open", "commit"}]
    /\ at \in [Conn -> Table]
    /\ seen \in [Conn -> SUBSET Row]
    /\ del \in [Conn -> Data]
    /\ ins \in [Conn -> Data]
    /\ bumped \in [Conn -> BOOLEAN]

Init ==
    /\ pc = [w \in Worker |-> "idle"]
    /\ using = [w \in Worker |-> NoConn]
    /\ feed = [w \in Worker |-> NoFeed]
    /\ result = [w \in Worker |-> "none"]
    /\ replaced = [w \in Worker |-> FALSE]
    /\ live = NoData
    /\ dataVersion = 0
    /\ agencyRow = FALSE
    /\ sess = [c \in Conn |-> "pooled"]
    /\ locks = [c \in Conn |-> 0]
    /\ stage = [c \in Conn |-> NoFeed]
    /\ txn = [c \in Conn |-> "none"]
    /\ at = [c \in Conn |-> 1]
    /\ seen = [c \in Conn |-> {}]
    /\ del = [c \in Conn |-> NoData]
    /\ ins = [c \in Conn |-> NoData]
    /\ bumped = [c \in Conn |-> FALSE]

Goto(w, phase) == pc' = [pc EXCEPT ![w] = phase]

(***************************************************************************)
(* ingestAgency throws (to runStaticIngestion) or returns.                 *)
(***************************************************************************)
EndLoad(w, outcome) ==
    /\ Goto(w, "idle")
    /\ feed' = [feed EXCEPT ![w] = NoFeed]
    /\ result' = [result EXCEPT ![w] = outcome]
----------------------------------------------------------------------------
(***************************************************************************)
(* Up to the advisory lock.                                                *)
(***************************************************************************)
\* The scheduler's isStaticIngestionRunning keeps a worker to one load at a time.
StartLoad(w) ==
    /\ pc[w] = "idle"
    /\ dataVersion < MaxVersion
    /\ Goto(w, "download")
    /\ result' = [result EXCEPT ![w] = "none"]
    /\ replaced' = [replaced EXCEPT ![w] = FALSE]
    /\ UNCHANGED <<using, feed, dbVars, sess, locks, stage, txnVars>>

Download(w, f) ==
    /\ pc[w] = "download"
    /\ Goto(w, "upsert")
    /\ feed' = [feed EXCEPT ![w] = f]
    /\ UNCHANGED <<using, result, replaced, dbVars, sess, locks, stage, txnVars>>

\* ON CONFLICT DO UPDATE: it waits for a transaction that updates the row.
UpsertAgency(w) ==
    /\ pc[w] = "upsert"
    /\ \A c \in Conn : ~bumped[c]
    /\ Goto(w, "connect")
    /\ agencyRow' = TRUE
    /\ UNCHANGED <<using, feed, result, replaced, live, dataVersion, sess, locks, stage, txnVars>>

\* A timeout, an HTTP error, a bad zip, a missing file; or the upsert or the
\* pool failing: nothing is held yet, the error goes straight to the caller.
FailBeforeLock(w) ==
    /\ pc[w] \in {"download", "upsert", "connect"}
    /\ EndLoad(w, "failed")
    /\ UNCHANGED <<using, replaced, dbVars, sess, locks, stage, txnVars>>

\* createQueryRunner, connect: any session of the pool that is not checked out.
Connect(w, c) ==
    /\ pc[w] = "connect"
    /\ PoolOf[c] = w /\ sess[c] = "pooled"
    /\ Goto(w, "lock")
    /\ using' = [using EXCEPT ![w] = c]
    /\ sess' = [sess EXCEPT ![c] = "used"]
    /\ UNCHANGED <<feed, result, replaced, dbVars, locks, stage, txnVars>>

\* Faulty variant: a lock that only sees the loads of its own process.
LockFreeInProcess(c) ==
    \A d \in Conn \ {c} : PoolOf[d] = PoolOf[c] => locks[d] = 0

\* Faulty variant: no lock, isStaticIngestionRunning alone keeps loads apart.
LockUnused(c) == TRUE

LockFree(c) == \A d \in Conn \ {c} : locks[d] = 0

Release(w, c) ==
    /\ using' = [using EXCEPT ![w] = NoConn]
    /\ sess' = [sess EXCEPT ![c] = "pooled"]

\* pg_try_advisory_lock is granted again to the session that has the lock.
LockTaken(w) == LET c == using[w] IN
    /\ pc[w] = "lock"
    /\ LockFree(c)
    /\ Goto(w, "create")
    /\ locks' = [locks EXCEPT ![c] = @ + 1]
    /\ UNCHANGED <<using, feed, result, replaced, dbVars, sess, stage, txnVars>>

\* Faulty variant: pg_advisory_lock, which waits for the other load.
LockWaits(w) == FALSE

LockBusy(w) == LET c == using[w] IN
    /\ pc[w] = "lock"
    /\ ~LockFree(c)
    /\ EndLoad(w, "skipped")
    /\ Release(w, c)
    /\ UNCHANGED <<replaced, dbVars, locks, stage, txnVars>>

\* The lock query is outside the try block: its failure skips release().
LockQueryFails(w) == LET c == using[w] IN
    /\ pc[w] = "lock"
    /\ EndLoad(w, "failed")
    /\ using' = [using EXCEPT ![w] = NoConn]
    /\ sess' = [sess EXCEPT ![c] = "leaked"]
    /\ UNCHANGED <<replaced, dbVars, locks, stage, txnVars>>
----------------------------------------------------------------------------
(***************************************************************************)
(* Staging and the row-count check.                                        *)
(***************************************************************************)
\* Drops what an earlier load left in this session, then creates the tables.
CreateStagingTables(w) == LET c == using[w] IN
    /\ pc[w] = "create"
    /\ Goto(w, "copy")
    /\ stage' = [stage EXCEPT ![c] = NoFeed]
    /\ UNCHANGED <<using, feed, result, replaced, dbVars, sess, locks, txnVars>>

\* copyIntoStage for every file, then buildDerivedTables.
CopyIntoStage(w) == LET c == using[w] IN
    /\ pc[w] = "copy"
    /\ Goto(w, "check")
    /\ stage' = [stage EXCEPT ![c] = feed[w]]
    /\ UNCHANGED <<using, feed, result, replaced, dbVars, sess, locks, txnVars>>

RowCountsPass(f, current) == Promise!RowCountsPass(f, current)

\* Faulty variant: the check is logged and the load goes on.
CheckIgnored(w) ==
    /\ pc[w] = "check"
    /\ Goto(w, "begin")
    /\ UNCHANGED <<using, feed, result, replaced, dbVars, sess, locks, stage, txnVars>>

\* liveCounts, then checkRowCounts on them.
CheckRowCounts(w) ==
    /\ pc[w] = "check"
    /\ IF RowCountsPass(feed[w], live)
       THEN Goto(w, "begin") /\ UNCHANGED result
       ELSE Goto(w, "drop") /\ result' = [result EXCEPT ![w] = "failed"]
    /\ UNCHANGED <<using, feed, replaced, dbVars, sess, locks, stage, txnVars>>
----------------------------------------------------------------------------
(***************************************************************************)
(* swapIn.                                                                 *)
(***************************************************************************)
NoTransaction(c) ==
    /\ txn' = [txn EXCEPT ![c] = "none"]
    /\ at' = [at EXCEPT ![c] = 1]
    /\ seen' = [seen EXCEPT ![c] = {}]
    /\ del' = [del EXCEPT ![c] = NoData]
    /\ ins' = [ins EXCEPT ![c] = NoData]
    /\ bumped' = [bumped EXCEPT ![c] = FALSE]

\* The rows of table t as statements of c's own transaction see them.
Visible(c, t) == (live[t] \ del[c][t]) \cup ins[c][t]

\* ON CONFLICT DO NOTHING: rows whose key is not taken.
InsertedRows(c, t) ==
    {r \in Rows[stage[c]][t] : \A q \in Visible(c, t) : Key[q] # Key[r]}

ApplyCommit(c) ==
    /\ live' = [t \in Table |-> Visible(c, t)]
    /\ dataVersion' = IF bumped[c] THEN dataVersion + 1 ELSE dataVersion
    /\ NoTransaction(c)

StartTransaction(w) == LET c == using[w] IN
    /\ pc[w] = "begin"
    /\ Goto(w, "delete")
    /\ txn' = [txn EXCEPT ![c] = "open"]
    /\ UNCHANGED <<using, feed, result, replaced, dbVars, sess, locks, stage,
                   at, seen, del, ins, bumped>>

\* The DELETE of table at[c] takes its snapshot ...
DeleteRows(w) == LET c == using[w] IN
    /\ pc[w] = "delete"
    /\ Goto(w, "deleting")
    /\ seen' = [seen EXCEPT ![c] = Visible(c, at[c])]
    /\ UNCHANGED <<using, feed, result, replaced, dbVars, sess, locks, stage,
                   txn, at, del, ins, bumped>>

\* ... and ends once no other transaction is deleting the same rows; the ones
\* that another has deleted meanwhile are skipped.
RowsDeleted(w) == LET c == using[w] IN
    /\ pc[w] = "deleting"
    /\ \A d \in Conn \ {c} : seen[c] \cap del[d][at[c]] = {}
    /\ Goto(w, "insert")
    /\ del' = [del EXCEPT ![c][at[c]] = seen[c] \cap live[at[c]]]
    /\ seen' = [seen EXCEPT ![c] = {}]
    /\ UNCHANGED <<using, feed, result, replaced, dbVars, sess, locks, stage,
                   txn, at, ins, bumped>>

\* Faulty variant: one table too many.
InsertPastTheEnd(w) == LET c == using[w] IN
    /\ pc[w] = "insert"
    /\ ins' = [ins EXCEPT ![c][at[c]] = InsertedRows(c, at[c])]
    /\ IF at[c] <= NumTables
       THEN Goto(w, "delete") /\ at' = [at EXCEPT ![c] = @ + 1]
       ELSE Goto(w, "bump") /\ UNCHANGED at
    /\ UNCHANGED <<using, feed, result, replaced, dbVars, sess, locks, stage,
                   txn, seen, del, bumped>>

InsertRows(w) == LET c == using[w] IN
    /\ pc[w] = "insert"
    /\ \A d \in Conn \ {c} : ins[d][at[c]] = {}
    /\ ins' = [ins EXCEPT ![c][at[c]] = InsertedRows(c, at[c])]
    /\ IF at[c] < NumTables
       THEN Goto(w, "delete") /\ at' = [at EXCEPT ![c] = @ + 1]
       ELSE Goto(w, "bump") /\ UNCHANGED at
    /\ UNCHANGED <<using, feed, result, replaced, dbVars, sess, locks, stage,
                   txn, seen, del, bumped>>

\* Faulty variant: data_version is not increased.
VersionForgotten(w) ==
    /\ pc[w] = "bump"
    /\ Goto(w, "commit")
    /\ UNCHANGED <<using, feed, result, replaced, dbVars, sess, locks, stage, txnVars>>

\* The UPDATE of the agency's row waits for another transaction's.
BumpVersion(w) == LET c == using[w] IN
    /\ pc[w] = "bump"
    /\ \A d \in Conn \ {c} : ~bumped[d]
    /\ Goto(w, "commit")
    /\ bumped' = [bumped EXCEPT ![c] = agencyRow]
    /\ UNCHANGED <<using, feed, result, replaced, dbVars, sess, locks, stage,
                   txn, at, seen, del, ins>>

Commit(w) == LET c == using[w] IN
    /\ pc[w] = "commit"
    /\ Goto(w, "drop")
    /\ ApplyCommit(c)
    /\ replaced' = [replaced EXCEPT ![w] = TRUE]
    /\ result' = [result EXCEPT ![w] = "ok"]
    /\ UNCHANGED <<using, feed, agencyRow, sess, locks, stage>>

\* Faulty variant: swapIn without its catch block.
FailsWithoutRollback(w) ==
    /\ pc[w] \in StagePhase \cup SwapPhase
    /\ Goto(w, "drop")
    /\ result' = [result EXCEPT ![w] = "failed"]
    /\ UNCHANGED <<using, feed, replaced, dbVars, sess, locks, stage, txnVars>>

\* A statement fails on a live session: a bad row, a full disk, a cancelled
\* query.  Inside swapIn the catch block rolls back.
StatementFails(w) == LET c == using[w] IN
    /\ pc[w] \in StagePhase \cup SwapPhase
    /\ Goto(w, "drop")
    /\ result' = [result EXCEPT ![w] = "failed"]
    /\ NoTransaction(c)
    /\ UNCHANGED <<using, feed, replaced, dbVars, sess, locks, stage>>
----------------------------------------------------------------------------
(***************************************************************************)
(* The finally block and what follows it.                                  *)
(***************************************************************************)
\* After release(): a load that threw ends here, one that swapped goes on.
AfterRelease(w) ==
    IF result[w] = "ok"
    THEN Goto(w, "analyze") /\ UNCHANGED <<feed, result>>
    ELSE EndLoad(w, "failed")

\* A failing DROP is logged and leaves the tables in the session.
DropStagingTables(w) == LET c == using[w] IN
    /\ pc[w] = "drop"
    /\ Goto(w, "unlock")
    /\ stage' \in {stage, [stage EXCEPT ![c] = NoFeed]}
    /\ UNCHANGED <<using, feed, result, replaced, dbVars, sess, locks, txnVars>>

\* Faulty variant: the cleanup is done after a successful swap only.
UnlockOnSuccess(w) == LET c == using[w] IN
    /\ pc[w] = "unlock"
    /\ IF result[w] = "ok"
       THEN locks' = [locks EXCEPT ![c] = @ - 1] /\ Release(w, c)
       ELSE using' = [using EXCEPT ![w] = NoConn] /\ UNCHANGED <<locks, sess>>
    /\ AfterRelease(w)
    /\ UNCHANGED <<replaced, dbVars, stage, txnVars>>

\* A failing unlock is logged and leaves the lock with the session.
Unlock(w) == LET c == using[w] IN
    /\ pc[w] = "unlock"
    /\ \/ locks' = [locks EXCEPT ![c] = @ - 1]
       \/ locks[c] < MaxLockDepth /\ UNCHANGED locks
    /\ AfterRelease(w)
    /\ Release(w, c)
    /\ UNCHANGED <<replaced, dbVars, stage, txnVars>>

\* ANALYZE of every table, on any connections of the pool.  It runs after the
\* swap is committed and the lock released, but its failure fails the load.
Analyze(w) ==
    /\ pc[w] = "analyze"
    /\ \E outcome \in {"ok", "failed"} : EndLoad(w, outcome)
    /\ UNCHANGED <<using, replaced, dbVars, sess, locks, stage, txnVars>>
----------------------------------------------------------------------------
(***************************************************************************)
(* Lost connections and dead processes.                                    *)
(***************************************************************************)
\* What the server may still do for a statement that was under way.
MayBeLocked(c) ==
    {locks} \cup (IF LockFree(c) THEN {[locks EXCEPT ![c] = @ + 1]} ELSE {})

Sent(w, c) ==
    /\ IF pc[w] = "lock" THEN locks' \in MayBeLocked(c) ELSE UNCHANGED locks
    /\ txn' = IF pc[w] = "commit" THEN [txn EXCEPT ![c] = "commit"] ELSE txn

\* The pool drops the client; the query runner's later statements fail at once,
\* so rollback, drop and unlock do nothing and release() has nothing to return.
ConnectionLost(w) == LET c == using[w] IN
    /\ pc[w] \in ConnPhase
    /\ sess' = [sess EXCEPT ![c] = "orphan"]
    /\ Sent(w, c)
    /\ using' = [using EXCEPT ![w] = NoConn]
    /\ AfterRelease(w)
    /\ UNCHANGED <<replaced, dbVars, stage, at, seen, del, ins, bumped>>

\* The process exits (watchdog, SIGTERM, out of memory) and is restarted.
Crash(w) ==
    /\ sess' = [c \in Conn |-> IF PoolOf[c] = w THEN "orphan" ELSE sess[c]]
    /\ IF pc[w] \in ConnPhase THEN Sent(w, using[w]) ELSE UNCHANGED <<locks, txn>>
    /\ using' = [using EXCEPT ![w] = NoConn]
    /\ replaced' = [replaced EXCEPT ![w] = FALSE]
    /\ EndLoad(w, "none")
    /\ UNCHANGED <<dbVars, stage, at, seen, del, ins, bumped>>

\* The server applies a COMMIT that was sent before the connection was lost.
LateCommit(c) ==
    /\ txn[c] = "commit"
    /\ ApplyCommit(c)
    /\ UNCHANGED <<workerVars, agencyRow, sess, locks, stage>>

\* A session ends: the server rolls its transaction back and frees its lock and
\* temporary tables.  It notices a lost connection, or the pool closes a
\* connection that has been idle (pg-pool does so after ten seconds).
SessionEnds(c) ==
    /\ sess[c] \in {"orphan", "pooled"}
    /\ sess' = [sess EXCEPT ![c] = "pooled"]
    /\ locks' = [locks EXCEPT ![c] = 0]
    /\ stage' = [stage EXCEPT ![c] = NoFeed]
    /\ NoTransaction(c)
    /\ UNCHANGED <<workerVars, dbVars>>
----------------------------------------------------------------------------
Step(w) ==
    \/ StartLoad(w) \/ (\E f \in Feed : Download(w, f)) \/ UpsertAgency(w)
    \/ FailBeforeLock(w)
    \/ (\E c \in Conn : Connect(w, c))
    \/ LockTaken(w) \/ LockBusy(w) \/ LockQueryFails(w)
    \/ CreateStagingTables(w) \/ CopyIntoStage(w) \/ CheckRowCounts(w)
    \/ StartTransaction(w) \/ DeleteRows(w) \/ RowsDeleted(w) \/ InsertRows(w)
    \/ BumpVersion(w) \/ Commit(w) \/ StatementFails(w)
    \/ DropStagingTables(w) \/ Unlock(w) \/ Analyze(w)
    \/ ConnectionLost(w) \/ Crash(w)

Next ==
    \/ \E w \in Worker : Step(w)
    \/ \E c \in Conn : LateCommit(c) \/ SessionEnds(c)

Spec == Init /\ [][Next]_vars
----------------------------------------------------------------------------
(***************************************************************************)
(* Properties.                                                             *)
(***************************************************************************)

\* "Readers never see a partial or doubled data set": after any interleaving of
\* loads, lost connections and crashes the committed rows are one feed's, in
\* every table.
WholeFeed == live = NoData \/ \E f \in Feed : live = Rows[f]

\* checkRowCounts looks at the live rows some time before the swap replaces
\* them; what it found stays true until the swap commits.
Checked == {"begin"} \cup SwapPhase

CheckStillHolds ==
    \A w \in Worker : pc[w] \in Checked => RowCountsPass(feed[w], live)

\* A load is one atomic, counted replacement of the agency's rows by a feed
\* that passed the row-count check against the very rows it replaced.
ImplementsAgencyData == Promise!Spec

\* What the error log of ingestAgency says of every failed load: "live data
\* unchanged".  (It does not hold: ANALYZE runs after the commit.)
FailedLoadChangesNothing ==
    \A w \in Worker : result[w] = "failed" => ~replaced[w]

----------------------------------------------------------------------------
(***************************************************************************)
(* The inductive invariant.                                                *)
(***************************************************************************)
\* A query runner is the only user of a session of its worker's pool.
SessionInv ==
    \A w \in Worker :
        IF pc[w] \in ConnPhase
        THEN using[w] \in Conn /\ PoolOf[using[w]] = w /\ sess[using[w]] = "used"
        ELSE using[w] = NoConn

\* The advisory lock is held by one session at most, and by every load that is
\* past the lock query.
LockInv ==
    /\ \A c, d \in Conn : locks[c] > 0 /\ locks[d] > 0 => c = d
    /\ \A w \in Worker : pc[w] \in LockPhase => locks[using[w]] > 0

\* What is staged is what was downloaded, never what an earlier load left.
StageInv ==
    \A w \in Worker :
        /\ pc[w] \in ConnPhase \ CleanPhase => feed[w] \in Feed
        /\ pc[w] = "connect" => feed[w] \in Feed
        /\ pc[w] = "upsert" => feed[w] \in Feed
        /\ pc[w] \in ConnPhase \cup {"connect"} => agencyRow
        /\ pc[w] \in {"check"} \cup Checked => stage[using[w]] = feed[w]

\* Table t is replaced in c's transaction, or not touched yet.
Swapped(c, t)   == del[c][t] = live[t] /\ ins[c][t] = Rows[stage[c]][t]
Untouched(c, t) == del[c][t] = {} /\ ins[c][t] = {}

\* A transaction that may still commit has replaced the tables it has been
\* through, and one that is over has left nothing behind.
OwnerSwaps(c) ==
    LET w == PoolOf[c]
    IN  txn[c] = "open" /\ sess[c] = "used" /\ using[w] = c /\ pc[w] \in SwapPhase

ReadyToCommit(c) ==
    /\ bumped[c] /\ stage[c] \in Feed /\ RowCountsPass(stage[c], live)
    /\ \A t \in Table : Swapped(c, t)

TxnInv ==
    \A c \in Conn :
        /\ txn[c] = "none" =>
              at[c] = 1 /\ del[c] = NoData /\ ins[c] = NoData /\ ~bumped[c]
        /\ txn[c] # "none" => locks[c] > 0 /\ (sess[c] = "orphan" \/ OwnerSwaps(c))
        /\ txn[c] = "commit" => ReadyToCommit(c)

SwapProgress(w) == LET c == using[w] IN
    /\ txn[c] = "open"
    /\ \A t \in Table : t < at[c] => Swapped(c, t)
    /\ \A t \in Table : t > at[c] => Untouched(c, t)
    /\ pc[w] \in {"delete", "deleting"} => Untouched(c, at[c])
    /\ pc[w] = "deleting" => seen[c] = live[at[c]]
    /\ pc[w] = "insert" => del[c][at[c]] = live[at[c]] /\ ins[c][at[c]] = {}
    /\ pc[w] \in {"bump", "commit"} => at[c] = NumTables /\ Swapped(c, at[c])
    /\ pc[w] = "commit" => bumped[c]

SwapInv == \A w \in Worker : pc[w] \in SwapPhase => SwapProgress(w)

LoadInv ==
    /\ TypeOK
    /\ SessionInv
    /\ LockInv
    /\ StageInv
    /\ TxnInv
    /\ SwapInv
    /\ CheckStillHolds
    /\ WholeFeed

----------------------------------------------------------------------------
(***************************************************************************)
(* Fairness: a statement that was sent is answered or its connection is    *)
(* lost, a download is cut off after STATIC_DOWNLOAD_TIMEOUT_MS, and a     *)
(* session whose client is gone, or that stays idle, is closed in the end. *)
(* The pool closes an idle connection after seconds and loads are a day    *)
(* apart, so reuse cannot keep it open for ever: strong fairness.  So for  *)
(* the upsert, for which Postgres queues up the waiting transactions.  No  *)
(* failure has to happen.                                                  *)
(***************************************************************************)
Proceed(w) ==
    \/ (\E f \in Feed : Download(w, f)) \/ UpsertAgency(w)
    \/ (\E c \in Conn : Connect(w, c))
    \/ LockTaken(w) \/ LockBusy(w)
    \/ CreateStagingTables(w) \/ CopyIntoStage(w) \/ CheckRowCounts(w)
    \/ StartTransaction(w) \/ DeleteRows(w) \/ RowsDeleted(w) \/ InsertRows(w)
    \/ BumpVersion(w) \/ Commit(w)
    \/ DropStagingTables(w) \/ Unlock(w) \/ Analyze(w)

Fairness ==
    /\ \A w \in Worker : WF_vars(Proceed(w)) /\ SF_vars(UpsertAgency(w))
    /\ \A c \in Conn : SF_vars(SessionEnds(c))

FairSpec == Spec /\ Fairness

\* A query runner that was never released is lost to the pool for good.
PoolExhausted(w) == \A c \in Conn : PoolOf[c] = w => sess[c] = "leaked"

\* Every load comes to an end (a hung one would block all later ticks of its
\* worker), unless failed lock queries have used up the connection pool.
LoadEnds ==
    \A w \in Worker : pc[w] # "idle" ~> (pc[w] = "idle" \/ PoolExhausted(w))

\* No lost connection, crash or failed unlock keeps the agency locked: every
\* session that has the lock gives it up.
LockFreed ==
    \A c \in Conn : locks[c] > 0 ~> (locks[c] = 0 \/ sess[c] = "leaked")
=============================================================================
