--------------------------- MODULE StaticLoad_proofs ---------------------------
(***************************************************************************)
(* LoadInv is an inductive invariant of StaticLoad, and what follows from  *)
(* it for any number of workers, sessions, feeds and tables: the database  *)
(* holds one whole feed at all times (WholeFeed), the row-count check is   *)
(* still true when its swap commits (CheckStillHolds), and the load        *)
(* implements AgencyData.                                                  *)
(***************************************************************************)
EXTENDS StaticLoad, TLAPS

USE LoadAssumption
    DEF StagePhase, SwapPhase, CleanPhase, LockPhase, ConnPhase, Phase, Checked
----------------------------------------------------------------------------
(***************************************************************************)
(* Sessions, the lock and transactions.                                    *)
(***************************************************************************)
\* A load has its session to itself.
LEMMA SessionOfLoad ==
  ASSUME LoadInv, NEW w \in Worker, pc[w] \in ConnPhase
  PROVE  /\ using[w] \in Conn
         /\ PoolOf[using[w]] = w
         /\ sess[using[w]] = "used"
         /\ \A v \in Worker \ {w} : using[v] # using[w]
  BY LoadAssumption DEF LoadInv, SessionInv

\* The advisory lock: one load of the agency at a time is past the lock query.
LEMMA OneLoadPastTheLock ==
  ASSUME LoadInv, NEW w \in Worker, pc[w] \in LockPhase
  PROVE  /\ locks[using[w]] > 0
         /\ \A v \in Worker \ {w} : pc[v] \notin LockPhase
<1>1. pc[w] \in ConnPhase
  BY DEF ConnPhase
<1>2. \A v \in Worker : pc[v] \in LockPhase => locks[using[v]] > 0
  BY DEF LoadInv, LockInv
<1>3. ASSUME NEW v \in Worker \ {w}, pc[v] \in LockPhase
      PROVE  FALSE
  <2>1. using[v] \in Conn /\ using[w] \in Conn /\ using[v] # using[w]
    BY <1>1, <1>3, SessionOfLoad DEF ConnPhase
  <2>. QED
    BY <1>2, <1>3, <2>1 DEF LoadInv, LockInv
<1>. QED
  BY <1>2, <1>3

\* Beside a session that has the lock no other one has a transaction.
LEMMA OneTransaction ==
  ASSUME LoadInv, NEW c \in Conn, locks[c] > 0
  PROVE  \A d \in Conn \ {c} :
            txn[d] = "none" /\ del[d] = NoData /\ ins[d] = NoData /\ ~bumped[d]
  BY DEF LoadInv, TypeOK, LockInv, TxnInv

\* Every transaction is run by the session that has the lock.
LEMMA TransactionHoldsLock ==
  ASSUME LoadInv, NEW c \in Conn, txn[c] # "none"
  PROVE  locks[c] > 0
  BY DEF LoadInv, TypeOK, TxnInv

\* While an orphaned session has the lock no load is past the lock query.
LEMMA NoLoadBesideOrphan ==
  ASSUME LoadInv, NEW c \in Conn, locks[c] > 0, sess[c] # "used"
  PROVE  \A w \in Worker : pc[w] \notin LockPhase
BY DEF LoadInv, SessionInv, LockInv

----------------------------------------------------------------------------
(***************************************************************************)
(* The swap.                                                               *)
(***************************************************************************)
\* Once a table's old rows are deleted, ON CONFLICT DO NOTHING skips nothing.
LEMMA SwapInserts ==
  ASSUME LoadInv, NEW c \in Conn, NEW t \in Table, stage[c] \in Feed,
         del[c][t] = live[t], ins[c][t] = {}
  PROVE  InsertedRows(c, t) = Rows[stage[c]][t]
  BY LoadAssumption DEF InsertedRows, Visible, Table

\* A load about to commit has replaced every table.
LEMMA CommitIsReady ==
  ASSUME LoadInv, NEW w \in Worker, pc[w] = "commit"
  PROVE  ReadyToCommit(using[w])
<1>. DEFINE c == using[w]
<1>1. c \in Conn
  BY SessionOfLoad
<1>2. stage[c] \in Feed /\ stage[c] = feed[w]
  BY DEF LoadInv, StageInv
<1>3. RowCountsPass(stage[c], live)
  BY <1>2 DEF LoadInv, CheckStillHolds
<1>4. /\ at[c] = NumTables /\ Swapped(c, at[c]) /\ bumped[c]
      /\ \A t \in Table : t < at[c] => Swapped(c, t)
  BY DEF LoadInv, SwapInv, SwapProgress
<1>5. \A t \in Table : t < NumTables \/ t = NumTables
  BY DEF Table
<1>. QED
  BY <1>2, <1>3, <1>4, <1>5 DEF ReadyToCommit

\* What the commit of a finished swap makes of the agency's rows.
LEMMA SwapCommits ==
  ASSUME LoadInv, NEW c \in Conn, ReadyToCommit(c), ApplyCommit(c)
  PROVE  live' = Rows[stage[c]] /\ dataVersion' = dataVersion + 1
<1>1. \A t \in Table : Visible(c, t) = Rows[stage[c]][t]
  BY DEF ReadyToCommit, Swapped, Visible
<1>2. Rows[stage[c]] = [t \in Table |-> Rows[stage[c]][t]]
  BY LoadAssumption DEF ReadyToCommit, Table
<1>. QED
  BY <1>1, <1>2 DEF ApplyCommit, ReadyToCommit

----------------------------------------------------------------------------
(***************************************************************************)
(* Statements whose connection is lost.                                    *)
(***************************************************************************)
\* What a statement that was under way may still do.
LEMMA SentStatement ==
  ASSUME LoadInv, NEW w \in Worker, pc[w] \in ConnPhase, Sent(w, using[w])
  PROVE  /\ \/ locks' = locks
            \/ LockFree(using[w]) /\ locks' = [locks EXCEPT ![using[w]] = @ + 1]
         /\ \/ txn' = txn
            \/ /\ pc[w] = "commit" /\ txn[using[w]] = "open"
               /\ txn' = [txn EXCEPT ![using[w]] = "commit"]
<1>1. pc[w] = "commit" => txn[using[w]] = "open"
  BY DEF LoadInv, SwapInv, SwapProgress
<1>2. locks' = locks \/ locks' \in MayBeLocked(using[w])
  BY DEF Sent
<1>3. MayBeLocked(using[w]) \subseteq {locks, [locks EXCEPT ![using[w]] = @ + 1]}
  BY DEF MayBeLocked
<1>4. LockFree(using[w]) \/ MayBeLocked(using[w]) = {locks}
  BY DEF MayBeLocked
<1>. QED
  BY <1>1, <1>2, <1>3, <1>4 DEF Sent

\* A lock granted to a lost session is granted to it alone.
LEMMA LocksStayExclusive ==
  ASSUME LoadInv, NEW c \in Conn,
         \/ locks' = locks
         \/ LockFree(c) /\ locks' = [locks EXCEPT ![c] = @ + 1]
  PROVE  /\ locks' \in [Conn -> Nat]
         /\ \A d, e \in Conn : locks'[d] > 0 /\ locks'[e] > 0 => d = e
         /\ \A d \in Conn : locks[d] > 0 => locks'[d] > 0
<1>1. CASE locks' = locks
  BY <1>1 DEF LoadInv, TypeOK, LockInv
<1>2. CASE LockFree(c) /\ locks' = [locks EXCEPT ![c] = @ + 1]
  <2>1. /\ locks' \in [Conn -> Nat] /\ locks'[c] = locks[c] + 1
        /\ \A d \in Conn \ {c} : locks'[d] = locks[d] /\ locks[d] = 0
    BY <1>2 DEF LoadInv, TypeOK, LockFree
  <2>2. locks \in [Conn -> Nat]
    BY DEF LoadInv, TypeOK
  <2>3. \A d \in Conn : locks'[d] > 0 => d = c
    BY <2>1
  <2>4. \A d \in Conn : locks[d] > 0 => locks'[d] > 0
    BY <2>1, <2>2
  <2>. QED
    BY <2>1, <2>3, <2>4
<1>. QED
  BY <1>1, <1>2

----------------------------------------------------------------------------
(***************************************************************************)
(* Every step keeps the invariant: up to the lock ...                      *)
(***************************************************************************)
\* Starting a load keeps the invariant.
LEMMA StartLoadStep ==
  ASSUME LoadInv, NEW w \in Worker, StartLoad(w)
  PROVE  LoadInv'
<1>. USE DEF LoadInv, StartLoad, Goto, dbVars, txnVars
<1>1. TypeOK'
  BY DEF TypeOK
<1>2. SessionInv'
  BY DEF TypeOK, SessionInv
<1>3. LockInv'
  BY DEF TypeOK, SessionInv, LockInv
<1>4. StageInv'
  BY DEF TypeOK, StageInv, SessionInv
<1>5. TxnInv'
  BY DEF TypeOK, TxnInv, OwnerSwaps, ReadyToCommit, Swapped, SessionInv
<1>6. SwapInv'
  BY DEF TypeOK, SwapInv, SwapProgress, Swapped, Untouched, SessionInv
<1>7. CheckStillHolds'
  BY DEF TypeOK, CheckStillHolds
<1>8. WholeFeed'
  BY DEF WholeFeed
<1>. QED
  BY <1>1, <1>2, <1>3, <1>4, <1>5, <1>6, <1>7, <1>8

\* A download that ends keeps the invariant.
LEMMA DownloadStep ==
  ASSUME LoadInv, NEW w \in Worker, NEW f \in Feed, Download(w, f)
  PROVE  LoadInv'
<1>. USE DEF LoadInv, Download, Goto, dbVars, txnVars
<1>1. TypeOK'
  BY DEF TypeOK
<1>2. SessionInv'
  BY DEF TypeOK, SessionInv
<1>3. LockInv'
  BY DEF TypeOK, SessionInv, LockInv
<1>4. StageInv'
  BY DEF TypeOK, StageInv, SessionInv
<1>5. TxnInv'
  BY DEF TypeOK, TxnInv, OwnerSwaps, ReadyToCommit, Swapped, SessionInv
<1>6. SwapInv'
  BY DEF TypeOK, SwapInv, SwapProgress, Swapped, Untouched, SessionInv
<1>7. CheckStillHolds'
  BY DEF TypeOK, CheckStillHolds
<1>8. WholeFeed'
  BY DEF WholeFeed
<1>. QED
  BY <1>1, <1>2, <1>3, <1>4, <1>5, <1>6, <1>7, <1>8

\* The upsert keeps the invariant.
LEMMA UpsertAgencyStep ==
  ASSUME LoadInv, NEW w \in Worker, UpsertAgency(w)
  PROVE  LoadInv'
<1>. USE DEF LoadInv, UpsertAgency, Goto, txnVars
<1>1. TypeOK'
  BY DEF TypeOK
<1>2. SessionInv'
  BY DEF TypeOK, SessionInv
<1>3. LockInv'
  BY DEF TypeOK, SessionInv, LockInv
<1>4. StageInv'
  BY DEF TypeOK, StageInv, SessionInv
<1>5. TxnInv'
  BY DEF TypeOK, TxnInv, OwnerSwaps, ReadyToCommit, Swapped, SessionInv
<1>6. SwapInv'
  BY DEF TypeOK, SwapInv, SwapProgress, Swapped, Untouched, SessionInv
<1>7. CheckStillHolds'
  BY DEF TypeOK, CheckStillHolds
<1>8. WholeFeed'
  BY DEF WholeFeed
<1>. QED
  BY <1>1, <1>2, <1>3, <1>4, <1>5, <1>6, <1>7, <1>8

\* A failure before the lock keeps the invariant.
LEMMA FailBeforeLockStep ==
  ASSUME LoadInv, NEW w \in Worker, FailBeforeLock(w)
  PROVE  LoadInv'
<1>. USE DEF LoadInv, FailBeforeLock, EndLoad, Goto, dbVars, txnVars
<1>1. TypeOK'
  BY DEF TypeOK
<1>2. SessionInv'
  BY DEF TypeOK, SessionInv
<1>3. LockInv'
  BY DEF TypeOK, SessionInv, LockInv
<1>4. StageInv'
  BY DEF TypeOK, StageInv, SessionInv
<1>5. TxnInv'
  BY DEF TypeOK, TxnInv, OwnerSwaps, ReadyToCommit, Swapped, SessionInv
<1>6. SwapInv'
  BY DEF TypeOK, SwapInv, SwapProgress, Swapped, Untouched, SessionInv
<1>7. CheckStillHolds'
  BY DEF TypeOK, CheckStillHolds
<1>8. WholeFeed'
  BY DEF WholeFeed
<1>. QED
  BY <1>1, <1>2, <1>3, <1>4, <1>5, <1>6, <1>7, <1>8

\* Checking a connection out keeps the invariant.
LEMMA ConnectStep ==
  ASSUME LoadInv, NEW w \in Worker, NEW c \in Conn, Connect(w, c)
  PROVE  LoadInv'
<1>. USE DEF LoadInv, Connect, Goto, dbVars, txnVars
<1>1. TypeOK'
  BY DEF TypeOK
<1>2. SessionInv'
  BY DEF TypeOK, SessionInv
<1>3. LockInv'
  BY DEF TypeOK, SessionInv, LockInv
<1>4. StageInv'
  BY DEF TypeOK, StageInv, SessionInv
<1>5. TxnInv'
  BY DEF TypeOK, TxnInv, OwnerSwaps, ReadyToCommit, Swapped, SessionInv
<1>6. SwapInv'
  BY DEF TypeOK, SwapInv, SwapProgress, Swapped, Untouched, SessionInv
<1>7. CheckStillHolds'
  BY DEF TypeOK, CheckStillHolds
<1>8. WholeFeed'
  BY DEF WholeFeed
<1>. QED
  BY <1>1, <1>2, <1>3, <1>4, <1>5, <1>6, <1>7, <1>8

\* A granted lock keeps the invariant.
LEMMA LockTakenStep ==
  ASSUME LoadInv, NEW w \in Worker, LockTaken(w)
  PROVE  LoadInv'
<1>. DEFINE c == using[w]
<1>. USE DEF LoadInv, LockTaken, Goto, dbVars, txnVars
<1>a. c \in Conn /\ \A v \in Worker \ {w} : using[v] # c
  BY SessionOfLoad
<1>1. TypeOK'
  BY <1>a DEF TypeOK
<1>2. SessionInv'
  BY DEF TypeOK, SessionInv
<1>3. LockInv'
  BY <1>a DEF TypeOK, SessionInv, LockFree, LockInv
<1>4. StageInv'
  BY DEF TypeOK, StageInv
<1>5. TxnInv'
  BY <1>a DEF TypeOK, TxnInv, OwnerSwaps, ReadyToCommit, Swapped
<1>6. SwapInv'
  BY DEF TypeOK, SwapInv, SwapProgress, Swapped, Untouched
<1>7. CheckStillHolds'
  BY DEF TypeOK, CheckStillHolds
<1>8. WholeFeed'
  BY DEF WholeFeed
<1>. QED
  BY <1>1, <1>2, <1>3, <1>4, <1>5, <1>6, <1>7, <1>8

\* A skipped load keeps the invariant.
LEMMA LockBusyStep ==
  ASSUME LoadInv, NEW w \in Worker, LockBusy(w)
  PROVE  LoadInv'
<1>. USE DEF LoadInv, LockBusy, EndLoad, Goto, Release, dbVars, txnVars
<1>1. TypeOK'
  BY DEF TypeOK
<1>2. SessionInv'
  BY DEF TypeOK, SessionInv
<1>3. LockInv'
  BY DEF TypeOK, SessionInv, LockInv
<1>4. StageInv'
  BY DEF TypeOK, StageInv, SessionInv
<1>5. TxnInv'
  BY DEF TypeOK, TxnInv, OwnerSwaps, ReadyToCommit, Swapped, SessionInv
<1>6. SwapInv'
  BY DEF TypeOK, SwapInv, SwapProgress, Swapped, Untouched, SessionInv
<1>7. CheckStillHolds'
  BY DEF TypeOK, CheckStillHolds
<1>8. WholeFeed'
  BY DEF WholeFeed
<1>. QED
  BY <1>1, <1>2, <1>3, <1>4, <1>5, <1>6, <1>7, <1>8

\* A failed lock query keeps the invariant.
LEMMA LockQueryFailsStep ==
  ASSUME LoadInv, NEW w \in Worker, LockQueryFails(w)
  PROVE  LoadInv'
<1>. USE DEF LoadInv, LockQueryFails, EndLoad, Goto, dbVars, txnVars
<1>1. TypeOK'
  BY DEF TypeOK
<1>2. SessionInv'
  BY DEF TypeOK, SessionInv
<1>3. LockInv'
  BY DEF TypeOK, SessionInv, LockInv
<1>4. StageInv'
  BY DEF TypeOK, StageInv, SessionInv
<1>5. TxnInv'
  BY DEF TypeOK, TxnInv, OwnerSwaps, ReadyToCommit, Swapped, SessionInv
<1>6. SwapInv'
  BY DEF TypeOK, SwapInv, SwapProgress, Swapped, Untouched, SessionInv
<1>7. CheckStillHolds'
  BY DEF TypeOK, CheckStillHolds
<1>8. WholeFeed'
  BY DEF WholeFeed
<1>. QED
  BY <1>1, <1>2, <1>3, <1>4, <1>5, <1>6, <1>7, <1>8

----------------------------------------------------------------------------
(***************************************************************************)
(* ... staging and the row-count check ...                                 *)
(***************************************************************************)
\* Creating the staging tables keeps the invariant.
LEMMA CreateStagingTablesStep ==
  ASSUME LoadInv, NEW w \in Worker, CreateStagingTables(w)
  PROVE  LoadInv'
<1>. DEFINE c == using[w]
<1>. USE DEF LoadInv, CreateStagingTables, Goto, dbVars, txnVars
<1>a. c \in Conn /\ \A v \in Worker \ {w} : using[v] # c
  BY SessionOfLoad
<1>b. \A v \in Worker \ {w} : pc[v] \notin LockPhase
  BY OneLoadPastTheLock
<1>1. TypeOK'
  BY <1>a DEF TypeOK
<1>2. SessionInv'
  BY DEF TypeOK, SessionInv
<1>3. LockInv'
  BY <1>a DEF TypeOK, SessionInv, LockInv
<1>4. StageInv'
  BY <1>a, <1>b DEF TypeOK, StageInv
<1>5. TxnInv'
  BY <1>a DEF TypeOK, SessionInv, TxnInv, OwnerSwaps, ReadyToCommit, Swapped
<1>6. SwapInv'
  BY <1>a, <1>b DEF TypeOK, SwapInv, SwapProgress
<1>7. CheckStillHolds'
  BY DEF TypeOK, CheckStillHolds
<1>8. WholeFeed'
  BY DEF WholeFeed
<1>. QED
  BY <1>1, <1>2, <1>3, <1>4, <1>5, <1>6, <1>7, <1>8

\* Staging the feed keeps the invariant.
LEMMA CopyIntoStageStep ==
  ASSUME LoadInv, NEW w \in Worker, CopyIntoStage(w)
  PROVE  LoadInv'
<1>. DEFINE c == using[w]
<1>. USE DEF LoadInv, CopyIntoStage, Goto, dbVars, txnVars
<1>a. c \in Conn /\ \A v \in Worker \ {w} : using[v] # c
  BY SessionOfLoad
<1>b. \A v \in Worker \ {w} : pc[v] \notin LockPhase
  BY OneLoadPastTheLock
<1>1. TypeOK'
  BY <1>a DEF TypeOK, StageInv
<1>2. SessionInv'
  BY DEF TypeOK, SessionInv
<1>3. LockInv'
  BY <1>a DEF TypeOK, SessionInv, LockInv
<1>4. StageInv'
  BY <1>a, <1>b DEF TypeOK, StageInv
<1>5. TxnInv'
  BY <1>a DEF TypeOK, SessionInv, TxnInv, OwnerSwaps, ReadyToCommit, Swapped
<1>6. SwapInv'
  BY <1>a, <1>b DEF TypeOK, SwapInv, SwapProgress
<1>7. CheckStillHolds'
  BY DEF TypeOK, CheckStillHolds
<1>8. WholeFeed'
  BY DEF WholeFeed
<1>. QED
  BY <1>1, <1>2, <1>3, <1>4, <1>5, <1>6, <1>7, <1>8

\* The row-count check keeps the invariant.
LEMMA CheckRowCountsStep ==
  ASSUME LoadInv, NEW w \in Worker, CheckRowCounts(w)
  PROVE  LoadInv'
<1>. DEFINE c == using[w]
<1>. USE DEF LoadInv, CheckRowCounts, Goto, dbVars, txnVars
<1>a. c \in Conn /\ \A v \in Worker \ {w} : using[v] # c
  BY SessionOfLoad
<1>b. \A v \in Worker \ {w} : pc[v] \notin LockPhase
  BY OneLoadPastTheLock
<1>1. TypeOK'
  BY <1>a DEF TypeOK
<1>c. PICK p \in {"begin", "drop"} : pc' = [pc EXCEPT ![w] = p]
  OBVIOUS
<1>2. SessionInv'
  BY <1>a, <1>c DEF TypeOK, SessionInv
<1>3. LockInv'
  BY <1>a DEF TypeOK, SessionInv, LockInv
<1>4. StageInv'
  BY <1>a, <1>b DEF TypeOK, StageInv
<1>5. TxnInv'
  BY <1>a, <1>c
     DEF TypeOK, SessionInv, TxnInv, OwnerSwaps, ReadyToCommit, Swapped
<1>6. SwapInv'
  BY <1>a, <1>b DEF TypeOK, SwapInv, SwapProgress
<1>7. CheckStillHolds'
  BY <1>b DEF TypeOK, CheckStillHolds
<1>8. WholeFeed'
  BY DEF WholeFeed
<1>. QED
  BY <1>1, <1>2, <1>3, <1>4, <1>5, <1>6, <1>7, <1>8

----------------------------------------------------------------------------
(***************************************************************************)
(* ... the swap ...                                                        *)
(***************************************************************************)
\* Opening the transaction keeps the invariant.
LEMMA StartTransactionStep ==
  ASSUME LoadInv, NEW w \in Worker, StartTransaction(w)
  PROVE  LoadInv'
<1>. DEFINE c == using[w]
<1>. USE DEF LoadInv, StartTransaction, Goto, dbVars, txnVars
<1>a. /\ c \in Conn /\ PoolOf[c] = w /\ sess[c] = "used"
      /\ \A v \in Worker \ {w} : using[v] # c
  BY SessionOfLoad
<1>b. locks[c] > 0 /\ \A v \in Worker \ {w} : pc[v] \notin LockPhase
  BY OneLoadPastTheLock
<1>c. txn[c] = "none" /\ at[c] = 1 /\ del[c] = NoData /\ ins[c] = NoData /\ ~bumped[c]
  BY <1>a DEF TypeOK, TxnInv, OwnerSwaps
<1>1. TypeOK'
  BY <1>a DEF TypeOK
<1>2. SessionInv'
  BY DEF TypeOK, SessionInv
<1>3. LockInv'
  BY <1>a DEF TypeOK, SessionInv, LockInv
<1>4. StageInv'
  BY <1>a, <1>b DEF TypeOK, StageInv
<1>5. TxnInv'
  BY <1>a, <1>b DEF TypeOK, TxnInv, OwnerSwaps, ReadyToCommit, Swapped
<1>6. SwapInv'
  <2>1. \A v \in Worker \ {w} : pc'[v] \notin SwapPhase
    BY <1>b DEF TypeOK
  <2>2. /\ pc'[w] = "delete" /\ using'[w] = c /\ txn'[c] = "open"
        /\ at'[c] = 1 /\ del'[c] = NoData /\ ins'[c] = NoData
    BY <1>a, <1>c DEF TypeOK
  <2>. QED
    BY <2>1, <2>2 DEF SwapInv, SwapProgress, Swapped, Untouched, NoData, Table
<1>7. CheckStillHolds'
  BY <1>b DEF TypeOK, CheckStillHolds
<1>8. WholeFeed'
  BY DEF WholeFeed
<1>. QED
  BY <1>1, <1>2, <1>3, <1>4, <1>5, <1>6, <1>7, <1>8

\* The start of a DELETE keeps the invariant.
LEMMA DeleteRowsStep ==
  ASSUME LoadInv, NEW w \in Worker, DeleteRows(w)
  PROVE  LoadInv'
<1>. DEFINE c == using[w]
<1>. USE DEF LoadInv, DeleteRows, Goto, dbVars, txnVars
<1>a. /\ c \in Conn /\ PoolOf[c] = w /\ sess[c] = "used"
      /\ \A v \in Worker \ {w} : using[v] # c
  BY SessionOfLoad
<1>b. locks[c] > 0 /\ \A v \in Worker \ {w} : pc[v] \notin LockPhase
  BY OneLoadPastTheLock
<1>c. at[c] \in Table /\ Visible(c, at[c]) = live[at[c]]
  BY <1>a DEF TypeOK, SwapInv, SwapProgress, Untouched, Visible
<1>1. TypeOK'
  BY <1>a, <1>c DEF TypeOK, Data
<1>2. SessionInv'
  BY DEF TypeOK, SessionInv
<1>3. LockInv'
  BY <1>a DEF TypeOK, SessionInv, LockInv
<1>4. StageInv'
  BY <1>a, <1>b DEF TypeOK, StageInv
<1>5. TxnInv'
  BY <1>a, <1>b DEF TypeOK, TxnInv, OwnerSwaps, ReadyToCommit, Swapped
<1>6. SwapInv'
  BY <1>a, <1>b, <1>c DEF TypeOK, SwapInv, SwapProgress, Swapped, Untouched
<1>7. CheckStillHolds'
  BY <1>b DEF TypeOK, CheckStillHolds
<1>8. WholeFeed'
  BY DEF WholeFeed
<1>. QED
  BY <1>1, <1>2, <1>3, <1>4, <1>5, <1>6, <1>7, <1>8

\* The end of a DELETE keeps the invariant.
LEMMA RowsDeletedStep ==
  ASSUME LoadInv, NEW w \in Worker, RowsDeleted(w)
  PROVE  LoadInv'
<1>. DEFINE c == using[w]
<1>. USE DEF LoadInv, RowsDeleted, Goto, dbVars, txnVars
<1>a. /\ c \in Conn /\ PoolOf[c] = w /\ sess[c] = "used"
      /\ \A v \in Worker \ {w} : using[v] # c
  BY SessionOfLoad
<1>b. locks[c] > 0 /\ \A v \in Worker \ {w} : pc[v] \notin LockPhase
  BY OneLoadPastTheLock
<1>c. at[c] \in Table /\ seen[c] \cap live[at[c]] = live[at[c]]
  BY <1>a DEF TypeOK, SwapInv, SwapProgress
<1>1. TypeOK'
  BY <1>a, <1>c DEF TypeOK, Data
<1>2. SessionInv'
  BY DEF TypeOK, SessionInv
<1>3. LockInv'
  BY <1>a DEF TypeOK, SessionInv, LockInv
<1>4. StageInv'
  BY <1>a, <1>b DEF TypeOK, StageInv
<1>5. TxnInv'
  BY <1>a, <1>b
     DEF TypeOK, SwapInv, SwapProgress, TxnInv, OwnerSwaps, ReadyToCommit, Swapped
<1>6. SwapInv'
  <2>1. \A v \in Worker \ {w} : pc'[v] \notin SwapPhase
    BY <1>b DEF TypeOK
  <2>2. /\ pc'[w] = "insert" /\ using'[w] = c
        /\ del'[c][at[c]] = live[at[c]] /\ ins'[c] = ins[c]
        /\ \A t \in Table \ {at[c]} : del'[c][t] = del[c][t]
    BY <1>a, <1>c DEF TypeOK, Data
  <2>. QED
    BY <1>a, <1>c, <2>1, <2>2
       DEF TypeOK, SwapInv, SwapProgress, Swapped, Untouched, Table
<1>7. CheckStillHolds'
  BY <1>b DEF TypeOK, CheckStillHolds
<1>8. WholeFeed'
  BY DEF WholeFeed
<1>. QED
  BY <1>1, <1>2, <1>3, <1>4, <1>5, <1>6, <1>7, <1>8

\* An INSERT keeps the invariant.
LEMMA InsertRowsStep ==
  ASSUME LoadInv, NEW w \in Worker, InsertRows(w)
  PROVE  LoadInv'
<1>. DEFINE c == using[w]
<1>. USE DEF LoadInv, InsertRows, Goto, dbVars, txnVars
<1>a. /\ c \in Conn /\ PoolOf[c] = w /\ sess[c] = "used"
      /\ \A v \in Worker \ {w} : using[v] # c
  BY SessionOfLoad
<1>b. locks[c] > 0 /\ \A v \in Worker \ {w} : pc[v] \notin LockPhase
  BY OneLoadPastTheLock
<1>c. /\ at[c] \in Table /\ stage[c] \in Feed
      /\ InsertedRows(c, at[c]) = Rows[stage[c]][at[c]]
      /\ Rows[stage[c]][at[c]] \subseteq Row
  <2>1. at[c] \in Table /\ stage[c] = feed[w] /\ feed[w] \in Feed
    BY <1>a DEF TypeOK, StageInv
  <2>2. del[c][at[c]] = live[at[c]] /\ ins[c][at[c]] = {}
    BY DEF SwapInv, SwapProgress
  <2>3. Rows[stage[c]][at[c]] \subseteq Row
    BY <2>1 DEF Table
  <2>4. InsertedRows(c, at[c]) = Rows[stage[c]][at[c]]
    BY <1>a, <2>1, <2>2, SwapInserts
  <2>. QED
    BY <2>1, <2>3, <2>4
<1>d. PICK p \in {"delete", "bump"} : pc' = [pc EXCEPT ![w] = p]
  OBVIOUS
<1>1. TypeOK'
  <2>1. at' \in [Conn -> Table]
    <3>1. CASE at[c] < NumTables
      <4>1. at[c] + 1 \in Table
        BY <1>c, <3>1 DEF Table
      <4>. QED
        BY <3>1, <4>1 DEF TypeOK
    <3>2. CASE ~(at[c] < NumTables)
      BY <3>2 DEF TypeOK
    <3>. QED
      BY <3>1, <3>2
  <2>2. ins' \in [Conn -> Data]
    BY <1>a, <1>c DEF TypeOK, Data
  <2>. QED
    BY <1>d, <2>1, <2>2 DEF TypeOK
<1>2. SessionInv'
  BY <1>a, <1>d DEF TypeOK, SessionInv
<1>3. LockInv'
  BY <1>a, <1>d DEF TypeOK, SessionInv, LockInv
<1>4. StageInv'
  BY <1>a, <1>b, <1>d DEF TypeOK, StageInv
<1>5. TxnInv'
  BY <1>a, <1>b, <1>d
     DEF TypeOK, SwapInv, SwapProgress, TxnInv, OwnerSwaps, ReadyToCommit, Swapped
<1>6. SwapInv'
  <2>1. \A v \in Worker \ {w} : pc'[v] \notin SwapPhase
    BY <1>b DEF TypeOK
  <2>2. /\ using'[w] = c
        /\ ins'[c][at[c]] = Rows[stage[c]][at[c]] /\ del'[c] = del[c]
        /\ \A t \in Table \ {at[c]} : ins'[c][t] = ins[c][t]
    BY <1>a, <1>c DEF TypeOK, Data
  <2>3. \/ pc'[w] = "delete" /\ at'[c] = at[c] + 1
        \/ pc'[w] = "bump" /\ at'[c] = at[c] /\ at[c] = NumTables
    BY <1>a, <1>c DEF TypeOK, Table
  <2>4. /\ txn[c] = "open" /\ del[c][at[c]] = live[at[c]]
        /\ \A t \in Table : t < at[c] => Swapped(c, t)
        /\ \A t \in Table : t > at[c] => Untouched(c, t)
    BY DEF SwapInv, SwapProgress
  <2>5. \A t \in Table : t <= at[c] => Swapped(c, t)'
    BY <1>c, <2>2, <2>4 DEF Swapped, Table
  <2>6. \A t \in Table : t > at[c] => Untouched(c, t)'
    BY <1>c, <2>2, <2>4 DEF Untouched, Table
  <2>. QED
    <3>1. CASE pc'[w] = "delete" /\ at'[c] = at[c] + 1
      <4>1. at'[c] \in Table /\ at[c] \in Nat
        BY <1>a, <1>c, <1>1 DEF TypeOK, Table
      <4>2. \A t \in Table : t < at'[c] => Swapped(c, t)'
        BY <2>5, <3>1, <4>1 DEF Table
      <4>3. \A t \in Table : t >= at'[c] => Untouched(c, t)'
        BY <2>6, <3>1, <4>1 DEF Table
      <4>4. Untouched(c, at[c])'
        BY <3>1, <4>1, <4>3 DEF Table, Untouched
      <4>. QED
        BY <1>a, <2>1, <2>2, <2>4, <3>1, <4>1, <4>2, <4>3, <4>4
           DEF SwapInv, SwapProgress, Table
    <3>2. CASE pc'[w] = "bump" /\ at'[c] = at[c] /\ at[c] = NumTables
      BY <1>a, <1>c, <2>1, <2>2, <2>4, <2>5, <2>6, <3>2
         DEF SwapInv, SwapProgress, Table
    <3>. QED
      BY <2>3, <3>1, <3>2
<1>7. CheckStillHolds'
  BY <1>b, <1>d DEF TypeOK, CheckStillHolds
<1>8. WholeFeed'
  BY DEF WholeFeed
<1>. QED
  BY <1>1, <1>2, <1>3, <1>4, <1>5, <1>6, <1>7, <1>8

\* The update of data_version keeps the invariant.
LEMMA BumpVersionStep ==
  ASSUME LoadInv, NEW w \in Worker, BumpVersion(w)
  PROVE  LoadInv'
<1>. DEFINE c == using[w]
<1>. USE DEF LoadInv, BumpVersion, Goto, dbVars, txnVars
<1>a. /\ c \in Conn /\ PoolOf[c] = w /\ sess[c] = "used"
      /\ \A v \in Worker \ {w} : using[v] # c
  BY SessionOfLoad
<1>b. locks[c] > 0 /\ \A v \in Worker \ {w} : pc[v] \notin LockPhase
  BY OneLoadPastTheLock
<1>c. agencyRow
  BY DEF StageInv
<1>1. TypeOK'
  BY <1>a DEF TypeOK
<1>2. SessionInv'
  BY DEF TypeOK, SessionInv
<1>3. LockInv'
  BY <1>a DEF TypeOK, SessionInv, LockInv
<1>4. StageInv'
  BY <1>a, <1>b DEF TypeOK, StageInv
<1>5. TxnInv'
  BY <1>a, <1>b
     DEF TypeOK, SwapInv, SwapProgress, TxnInv, OwnerSwaps, ReadyToCommit, Swapped
<1>6. SwapInv'
  BY <1>a, <1>b, <1>c DEF TypeOK, SwapInv, SwapProgress, Swapped, Untouched
<1>7. CheckStillHolds'
  BY <1>b DEF TypeOK, CheckStillHolds
<1>8. WholeFeed'
  BY DEF WholeFeed
<1>. QED
  BY <1>1, <1>2, <1>3, <1>4, <1>5, <1>6, <1>7, <1>8

\* The commit of a swap keeps the invariant.
LEMMA CommitStep ==
  ASSUME LoadInv, NEW w \in Worker, Commit(w)
  PROVE  LoadInv'
<1>. DEFINE c == using[w]
<1>. USE DEF LoadInv, Commit, Goto, dbVars
<1>a. /\ c \in Conn /\ PoolOf[c] = w /\ sess[c] = "used"
      /\ \A v \in Worker \ {w} : using[v] # c
  BY SessionOfLoad
<1>b. locks[c] > 0 /\ \A v \in Worker \ {w} : pc[v] \notin LockPhase
  BY OneLoadPastTheLock
<1>c. \A d \in Conn \ {c} : txn[d] = "none"
  BY <1>a, <1>b, OneTransaction
<1>d. stage[c] \in Feed
  BY <1>a DEF TypeOK, StageInv
<1>e. Rows[stage[c]] \in Data
  BY <1>d DEF Data, Table
<1>f. ReadyToCommit(c)
  BY CommitIsReady
<1>g. live' = Rows[stage[c]] /\ dataVersion' = dataVersion + 1
  BY <1>a, <1>f, SwapCommits
<1>h. NoTransaction(c)
  BY DEF ApplyCommit
<1>1. TypeOK'
  BY <1>a, <1>e, <1>g, <1>h DEF TypeOK, NoTransaction, Data, NoData, Table
<1>2. SessionInv'
  BY DEF TypeOK, SessionInv
<1>3. LockInv'
  BY <1>a DEF TypeOK, SessionInv, LockInv
<1>4. StageInv'
  BY <1>a, <1>b DEF TypeOK, StageInv
<1>5. TxnInv'
  BY <1>a, <1>c, <1>h DEF TypeOK, TxnInv, NoTransaction
<1>6. SwapInv'
  BY <1>a, <1>b DEF TypeOK, SwapInv, SwapProgress
<1>7. CheckStillHolds'
  BY <1>b DEF TypeOK, CheckStillHolds
<1>8. WholeFeed'
  BY <1>d, <1>g DEF WholeFeed
<1>. QED
  BY <1>1, <1>2, <1>3, <1>4, <1>5, <1>6, <1>7, <1>8

\* A failed statement, rolled back, keeps the invariant.
LEMMA StatementFailsStep ==
  ASSUME LoadInv, NEW w \in Worker, StatementFails(w)
  PROVE  LoadInv'
<1>. DEFINE c == using[w]
<1>. USE DEF LoadInv, StatementFails, Goto, dbVars, NoTransaction
<1>a. /\ c \in Conn /\ PoolOf[c] = w /\ sess[c] = "used"
      /\ \A v \in Worker \ {w} : using[v] # c
  BY SessionOfLoad
<1>b. locks[c] > 0 /\ \A v \in Worker \ {w} : pc[v] \notin LockPhase
  BY OneLoadPastTheLock
<1>c. \A d \in Conn \ {c} : txn[d] = "none"
  BY <1>a, <1>b, OneTransaction
<1>1. TypeOK'
  BY <1>a DEF TypeOK, Data, NoData, Table
<1>2. SessionInv'
  BY DEF TypeOK, SessionInv
<1>3. LockInv'
  BY <1>a DEF TypeOK, SessionInv, LockInv
<1>4. StageInv'
  BY <1>a, <1>b DEF TypeOK, StageInv
<1>5. TxnInv'
  BY <1>a, <1>c DEF TypeOK, TxnInv
<1>6. SwapInv'
  BY <1>a, <1>b DEF TypeOK, SwapInv, SwapProgress
<1>7. CheckStillHolds'
  BY <1>b DEF TypeOK, CheckStillHolds
<1>8. WholeFeed'
  BY DEF WholeFeed
<1>. QED
  BY <1>1, <1>2, <1>3, <1>4, <1>5, <1>6, <1>7, <1>8

----------------------------------------------------------------------------
(***************************************************************************)
(* ... the finally block ...                                               *)
(***************************************************************************)
\* Dropping the staging tables, or failing to, keeps the invariant.
LEMMA DropStagingTablesStep ==
  ASSUME LoadInv, NEW w \in Worker, DropStagingTables(w)
  PROVE  LoadInv'
<1>. DEFINE c == using[w]
<1>. USE DEF LoadInv, DropStagingTables, Goto, dbVars, txnVars
<1>a. /\ c \in Conn /\ PoolOf[c] = w /\ sess[c] = "used"
      /\ \A v \in Worker \ {w} : using[v] # c
  BY SessionOfLoad
<1>b. locks[c] > 0 /\ \A v \in Worker \ {w} : pc[v] \notin LockPhase
  BY OneLoadPastTheLock
<1>c. \A d \in Conn : txn[d] = "none"
  <2>1. txn[c] = "none"
    BY <1>a DEF TypeOK, TxnInv, OwnerSwaps
  <2>2. \A d \in Conn \ {c} : txn[d] = "none"
    BY <1>a, <1>b, OneTransaction
  <2>. QED
    BY <2>1, <2>2
<1>1. TypeOK'
  BY <1>a DEF TypeOK
<1>2. SessionInv'
  BY DEF TypeOK, SessionInv
<1>3. LockInv'
  BY <1>a DEF TypeOK, SessionInv, LockInv
<1>4. StageInv'
  BY <1>a, <1>b DEF TypeOK, StageInv
<1>5. TxnInv'
  BY <1>a, <1>c DEF TypeOK, TxnInv
<1>6. SwapInv'
  BY <1>a, <1>b DEF TypeOK, SwapInv, SwapProgress
<1>7. CheckStillHolds'
  BY <1>b DEF TypeOK, CheckStillHolds
<1>8. WholeFeed'
  BY DEF WholeFeed
<1>. QED
  BY <1>1, <1>2, <1>3, <1>4, <1>5, <1>6, <1>7, <1>8

\* Unlocking, or failing to, keeps the invariant.
LEMMA UnlockStep ==
  ASSUME LoadInv, NEW w \in Worker, Unlock(w)
  PROVE  LoadInv'
<1>. DEFINE c == using[w]
<1>. USE DEF LoadInv, Unlock, dbVars, txnVars
<1>a. /\ c \in Conn /\ PoolOf[c] = w /\ sess[c] = "used"
      /\ \A v \in Worker \ {w} : using[v] # c
  BY SessionOfLoad
<1>b. locks[c] > 0 /\ \A v \in Worker \ {w} : pc[v] \notin LockPhase
  BY OneLoadPastTheLock
<1>c. \A d \in Conn : txn[d] = "none"
  <2>1. txn[c] = "none"
    BY <1>a DEF TypeOK, TxnInv, OwnerSwaps
  <2>2. \A d \in Conn \ {c} : txn[d] = "none"
    BY <1>a, <1>b, OneTransaction
  <2>. QED
    BY <2>1, <2>2
<1>d. PICK p \in {"idle", "analyze"} : pc' = [pc EXCEPT ![w] = p]
  BY DEF AfterRelease, EndLoad, Goto
<1>e. using' = [using EXCEPT ![w] = NoConn] /\ sess' = [sess EXCEPT ![c] = "pooled"]
  BY DEF Release
<1>f. /\ locks' \in [Conn -> Nat]
      /\ \A d \in Conn \ {c} : locks'[d] = locks[d]
      /\ \A d \in Conn \ {c} : locks[d] = 0
  BY <1>a, <1>b DEF TypeOK, LockInv
<1>1. TypeOK'
  BY <1>a, <1>d, <1>e, <1>f DEF TypeOK, AfterRelease, EndLoad
<1>2. SessionInv'
  BY <1>a, <1>d, <1>e DEF TypeOK, SessionInv
<1>3. LockInv'
  BY <1>a, <1>b, <1>d, <1>e, <1>f DEF TypeOK, LockInv
<1>4. StageInv'
  BY <1>a, <1>b, <1>d, <1>e DEF TypeOK, StageInv, AfterRelease, EndLoad
<1>5. TxnInv'
  BY <1>c DEF TypeOK, TxnInv
<1>6. SwapInv'
  BY <1>a, <1>b, <1>d DEF TypeOK, SwapInv, SwapProgress
<1>7. CheckStillHolds'
  BY <1>b, <1>d DEF TypeOK, CheckStillHolds
<1>8. WholeFeed'
  BY DEF WholeFeed
<1>. QED
  BY <1>1, <1>2, <1>3, <1>4, <1>5, <1>6, <1>7, <1>8

\* ANALYZE keeps the invariant.
LEMMA AnalyzeStep ==
  ASSUME LoadInv, NEW w \in Worker, Analyze(w)
  PROVE  LoadInv'
<1>. USE DEF LoadInv, Analyze, EndLoad, Goto, dbVars, txnVars
<1>1. TypeOK'
  BY DEF TypeOK
<1>2. SessionInv'
  BY DEF TypeOK, SessionInv
<1>3. LockInv'
  BY DEF TypeOK, SessionInv, LockInv
<1>4. StageInv'
  BY DEF TypeOK, StageInv, SessionInv
<1>5. TxnInv'
  BY DEF TypeOK, TxnInv, OwnerSwaps, ReadyToCommit, Swapped, SessionInv
<1>6. SwapInv'
  BY DEF TypeOK, SwapInv, SwapProgress, Swapped, Untouched, SessionInv
<1>7. CheckStillHolds'
  BY DEF TypeOK, CheckStillHolds
<1>8. WholeFeed'
  BY DEF WholeFeed
<1>. QED
  BY <1>1, <1>2, <1>3, <1>4, <1>5, <1>6, <1>7, <1>8

----------------------------------------------------------------------------
(***************************************************************************)
(* ... lost connections, crashes and what the server does on its own.      *)
(***************************************************************************)
\* A lost connection keeps the invariant.
LEMMA ConnectionLostStep ==
  ASSUME LoadInv, NEW w \in Worker, ConnectionLost(w)
  PROVE  LoadInv'
<1>. DEFINE c == using[w]
<1>. USE DEF LoadInv, ConnectionLost, dbVars
<1>a. /\ c \in Conn /\ PoolOf[c] = w /\ sess[c] = "used"
      /\ \A v \in Worker \ {w} : using[v] # c
  BY SessionOfLoad
<1>b. PICK p \in {"idle", "analyze"} : pc' = [pc EXCEPT ![w] = p]
  BY DEF AfterRelease, EndLoad, Goto
<1>c. /\ locks' \in [Conn -> Nat] /\ \A d \in Conn : locks[d] > 0 => locks'[d] > 0
      /\ \A d, e \in Conn : locks'[d] > 0 /\ locks'[e] > 0 => d = e
  BY <1>a, SentStatement, LocksStayExclusive
<1>d. \A d \in Conn \ {c} : txn'[d] = txn[d]
  BY <1>a, SentStatement DEF TypeOK
<1>e. \/ txn'[c] = txn[c]
      \/ pc[w] = "commit" /\ txn[c] = "open" /\ txn'[c] = "commit"
  BY <1>a, SentStatement DEF TypeOK
<1>1. TypeOK'
  BY <1>a, <1>b, <1>c DEF TypeOK, AfterRelease, EndLoad, Sent
<1>2. SessionInv'
  BY <1>a, <1>b DEF TypeOK, SessionInv
<1>3. LockInv'
  <2>1. \A v \in Worker : pc[v] \in LockPhase => using[v] \in Conn /\ locks[using[v]] > 0
    BY DEF SessionInv, LockInv
  <2>. QED
    BY <1>b, <1>c, <2>1 DEF TypeOK, LockInv
<1>4. StageInv'
  BY <1>a, <1>b DEF TypeOK, StageInv, AfterRelease, EndLoad
<1>5. TxnInv'
  <2>1. \A d \in Conn : ReadyToCommit(d) => ReadyToCommit(d)'
    BY DEF ReadyToCommit, Swapped
  <2>2. \A d \in Conn \ {c} : OwnerSwaps(d) => OwnerSwaps(d)'
    BY <1>a, <1>b, <1>d DEF TypeOK, OwnerSwaps
  <2>3. pc[w] = "commit" => ReadyToCommit(c)
    BY CommitIsReady
  <2>4. sess'[c] = "orphan" /\ \A d \in Conn \ {c} : sess'[d] = sess[d]
    BY <1>a DEF TypeOK
  <2>5. \A d \in Conn : txn'[d] # "none" => locks'[d] > 0
    <3>1. \A d \in Conn : txn'[d] # "none" => locks[d] > 0
      BY <1>d, <1>e DEF TxnInv
    <3>. QED
      BY <1>c, <3>1
  <2>. QED
    BY <1>d, <1>e, <2>1, <2>2, <2>3, <2>4, <2>5 DEF TypeOK, TxnInv
<1>6. SwapInv'
  BY <1>a, <1>b, <1>d
     DEF TypeOK, SessionInv, SwapInv, SwapProgress, Swapped, Untouched
<1>7. CheckStillHolds'
  BY <1>b DEF TypeOK, CheckStillHolds, AfterRelease, EndLoad
<1>8. WholeFeed'
  BY DEF WholeFeed
<1>. QED
  BY <1>1, <1>2, <1>3, <1>4, <1>5, <1>6, <1>7, <1>8

\* A crash keeps the invariant.
LEMMA CrashStep ==
  ASSUME LoadInv, NEW w \in Worker, Crash(w)
  PROVE  LoadInv'
<1>. DEFINE c == using[w]
<1>. USE DEF LoadInv, Crash, dbVars, EndLoad, Goto
<1>a. \A v \in Worker \ {w} : pc[v] \in ConnPhase =>
          using[v] \in Conn /\ PoolOf[using[v]] = v /\ using[v] # c
  BY DEF SessionInv
<1>b. pc[w] \in ConnPhase => c \in Conn /\ PoolOf[c] = w /\ sess[c] = "used"
  BY DEF SessionInv
<1>c. /\ locks' \in [Conn -> Nat] /\ \A d \in Conn : locks[d] > 0 => locks'[d] > 0
      /\ \A d, e \in Conn : locks'[d] > 0 /\ locks'[e] > 0 => d = e
  BY <1>b, SentStatement, LocksStayExclusive DEF TypeOK, LockInv
<1>d. /\ txn' \in [Conn -> {"none", "open", "commit"}]
      /\ \A d \in Conn :
            \/ txn'[d] = txn[d]
            \/ d = c /\ pc[w] = "commit" /\ txn[c] = "open" /\ txn'[c] = "commit"
  <2>1. CASE pc[w] \in ConnPhase
    <3>1. \/ txn' = txn
          \/ pc[w] = "commit" /\ txn[c] = "open" /\ txn' = [txn EXCEPT ![c] = "commit"]
      BY <2>1, SentStatement
    <3>2. txn \in [Conn -> {"none", "open", "commit"}]
      BY DEF TypeOK
    <3>. QED
      BY <3>1, <3>2
  <2>2. CASE pc[w] \notin ConnPhase
    <3>1. txn' = txn
      BY <2>2
    <3>. QED
      BY <3>1 DEF TypeOK
  <2>. QED
    BY <2>1, <2>2
<1>1. TypeOK'
  BY <1>c, <1>d DEF TypeOK
<1>2. SessionInv'
  BY <1>a DEF TypeOK, SessionInv
<1>3. LockInv'
  <2>1. \A v \in Worker \ {w} : pc[v] \in LockPhase => locks'[using[v]] > 0
    BY <1>a, <1>c DEF TypeOK, LockInv
  <2>. QED
    BY <1>c, <2>1 DEF TypeOK, LockInv
<1>4. StageInv'
  BY DEF TypeOK, StageInv
<1>5. TxnInv'
  <2>1. \A d \in Conn : ReadyToCommit(d) => ReadyToCommit(d)'
    BY DEF ReadyToCommit, Swapped
  <2>2. \A d \in Conn : PoolOf[d] # w /\ OwnerSwaps(d) => OwnerSwaps(d)'
    BY <1>b, <1>d DEF TypeOK, OwnerSwaps
  <2>3. pc[w] = "commit" => ReadyToCommit(c)
    BY CommitIsReady
  <2>4. \A d \in Conn : sess'[d] = IF PoolOf[d] = w THEN "orphan" ELSE sess[d]
    OBVIOUS
  <2>5. \A d \in Conn : txn'[d] # "none" => locks'[d] > 0
    BY <1>c, <1>d DEF TypeOK, TxnInv
  <2>. QED
    BY <1>d, <2>1, <2>2, <2>3, <2>4, <2>5 DEF TypeOK, TxnInv
<1>6. SwapInv'
  <2>1. \A v \in Worker \ {w} : pc[v] \in ConnPhase => txn'[using[v]] = txn[using[v]]
    BY <1>a, <1>d
  <2>. QED
    BY <2>1 DEF TypeOK, SwapInv, SwapProgress, Swapped, Untouched
<1>7. CheckStillHolds'
  BY DEF TypeOK, CheckStillHolds
<1>8. WholeFeed'
  BY DEF WholeFeed
<1>. QED
  BY <1>1, <1>2, <1>3, <1>4, <1>5, <1>6, <1>7, <1>8

\* A commit applied after its client was lost keeps the invariant.
LEMMA LateCommitStep ==
  ASSUME LoadInv, NEW c \in Conn, LateCommit(c)
  PROVE  LoadInv'
<1>. USE DEF LoadInv, LateCommit, workerVars
<1>a. ReadyToCommit(c) /\ locks[c] > 0 /\ sess[c] = "orphan"
  BY DEF TxnInv, OwnerSwaps
<1>b. \A w \in Worker : pc[w] \notin LockPhase
  BY <1>a, NoLoadBesideOrphan
<1>c. \A d \in Conn \ {c} : txn[d] = "none"
  BY <1>a, OneTransaction
<1>d. stage[c] \in Feed /\ Rows[stage[c]] \in Data
  BY <1>a DEF ReadyToCommit, Data, Table
<1>e. live' = Rows[stage[c]] /\ dataVersion' = dataVersion + 1
  BY <1>a, SwapCommits
<1>f. NoTransaction(c)
  BY DEF ApplyCommit
<1>1. TypeOK'
  BY <1>d, <1>e, <1>f DEF TypeOK, NoTransaction, Data, NoData, Table
<1>2. SessionInv'
  BY DEF TypeOK, SessionInv
<1>3. LockInv'
  BY DEF LockInv
<1>4. StageInv'
  BY <1>b DEF StageInv
<1>5. TxnInv'
  BY <1>c, <1>f DEF TypeOK, TxnInv, NoTransaction
<1>6. SwapInv'
  BY <1>b DEF SwapInv, SwapProgress
<1>7. CheckStillHolds'
  BY <1>b DEF CheckStillHolds
<1>8. WholeFeed'
  BY <1>d, <1>e DEF WholeFeed
<1>. QED
  BY <1>1, <1>2, <1>3, <1>4, <1>5, <1>6, <1>7, <1>8

\* A session that ends keeps the invariant.
LEMMA SessionEndsStep ==
  ASSUME LoadInv, NEW c \in Conn, SessionEnds(c)
  PROVE  LoadInv'
<1>. USE DEF LoadInv, SessionEnds, workerVars, dbVars, NoTransaction
<1>a. \A w \in Worker : pc[w] \in ConnPhase => using[w] \in Conn /\ using[w] # c
  BY DEF SessionInv
<1>1. TypeOK'
  BY DEF TypeOK, Data, NoData, Table
<1>2. SessionInv'
  BY <1>a DEF TypeOK, SessionInv
<1>3. LockInv'
  BY <1>a DEF TypeOK, LockInv
<1>4. StageInv'
  BY <1>a DEF TypeOK, StageInv
<1>5. TxnInv'
  <2>1. \A d \in Conn \ {c} : ReadyToCommit(d) => ReadyToCommit(d)'
    BY DEF TypeOK, ReadyToCommit, Swapped
  <2>2. \A d \in Conn \ {c} : OwnerSwaps(d) => OwnerSwaps(d)'
    BY DEF TypeOK, OwnerSwaps
  <2>. QED
    BY <2>1, <2>2 DEF TypeOK, TxnInv
<1>6. SwapInv'
  BY <1>a DEF TypeOK, SwapInv, SwapProgress, Swapped, Untouched
<1>7. CheckStillHolds'
  BY DEF CheckStillHolds
<1>8. WholeFeed'
  BY DEF WholeFeed
<1>. QED
  BY <1>1, <1>2, <1>3, <1>4, <1>5, <1>6, <1>7, <1>8

----------------------------------------------------------------------------
\* The invariant holds before the first load.
LEMMA InitInv == Init => LoadInv
<1>. SUFFICES ASSUME Init
              PROVE  LoadInv
  OBVIOUS
<1>. USE DEF Init
<1>1. TypeOK
  <2>1. NoData \in Data /\ 1 \in Table
    BY DEF NoData, Data, Table
  <2>. QED
    BY <2>1 DEF TypeOK
<1>2. SessionInv /\ LockInv /\ StageInv /\ SwapInv /\ CheckStillHolds
  BY DEF SessionInv, LockInv, StageInv, SwapInv, CheckStillHolds
<1>3. TxnInv
  BY DEF TxnInv
<1>4. WholeFeed
  BY DEF WholeFeed
<1>. QED
  BY <1>1, <1>2, <1>3, <1>4 DEF LoadInv

\* Every step of the system keeps the invariant.
LEMMA StepInv == LoadInv /\ [Next]_vars => LoadInv'
<1>. SUFFICES ASSUME LoadInv, [Next]_vars
              PROVE  LoadInv'
  OBVIOUS
<1>1. ASSUME NEW w \in Worker, Step(w)
      PROVE  LoadInv'
  <2>1. CASE StartLoad(w)
    BY <2>1, StartLoadStep
  <2>2. CASE \E f \in Feed : Download(w, f)
    BY <2>2, DownloadStep
  <2>3. CASE UpsertAgency(w)
    BY <2>3, UpsertAgencyStep
  <2>4. CASE FailBeforeLock(w)
    BY <2>4, FailBeforeLockStep
  <2>5. CASE \E c \in Conn : Connect(w, c)
    BY <2>5, ConnectStep
  <2>6. CASE LockTaken(w)
    BY <2>6, LockTakenStep
  <2>7. CASE LockBusy(w)
    BY <2>7, LockBusyStep
  <2>8. CASE LockQueryFails(w)
    BY <2>8, LockQueryFailsStep
  <2>9. CASE CreateStagingTables(w)
    BY <2>9, CreateStagingTablesStep
  <2>10. CASE CopyIntoStage(w)
    BY <2>10, CopyIntoStageStep
  <2>11. CASE CheckRowCounts(w)
    BY <2>11, CheckRowCountsStep
  <2>12. CASE StartTransaction(w)
    BY <2>12, StartTransactionStep
  <2>13. CASE DeleteRows(w)
    BY <2>13, DeleteRowsStep
  <2>14. CASE RowsDeleted(w)
    BY <2>14, RowsDeletedStep
  <2>15. CASE InsertRows(w)
    BY <2>15, InsertRowsStep
  <2>16. CASE BumpVersion(w)
    BY <2>16, BumpVersionStep
  <2>17. CASE Commit(w)
    BY <2>17, CommitStep
  <2>18. CASE StatementFails(w)
    BY <2>18, StatementFailsStep
  <2>19. CASE DropStagingTables(w)
    BY <2>19, DropStagingTablesStep
  <2>20. CASE Unlock(w)
    BY <2>20, UnlockStep
  <2>21. CASE Analyze(w)
    BY <2>21, AnalyzeStep
  <2>22. CASE ConnectionLost(w)
    BY <2>22, ConnectionLostStep
  <2>23. CASE Crash(w)
    BY <2>23, CrashStep
  <2>. QED
    BY <1>1, <2>1, <2>2, <2>3, <2>4, <2>5, <2>6, <2>7, <2>8,
        <2>9, <2>10, <2>11, <2>12, <2>13, <2>14, <2>15, <2>16,
        <2>17, <2>18, <2>19, <2>20, <2>21, <2>22, <2>23 DEF Step
<1>2. ASSUME NEW c \in Conn, LateCommit(c) \/ SessionEnds(c)
      PROVE  LoadInv'
  BY <1>2, LateCommitStep, SessionEndsStep
<1>3. CASE UNCHANGED vars
  <2>1. /\ pc' = pc /\ using' = using /\ feed' = feed /\ result' = result
        /\ replaced' = replaced /\ live' = live /\ dataVersion' = dataVersion
        /\ agencyRow' = agencyRow /\ sess' = sess /\ locks' = locks /\ stage' = stage
        /\ txn' = txn /\ at' = at /\ seen' = seen /\ del' = del /\ ins' = ins
        /\ bumped' = bumped
    BY <1>3 DEF vars, workerVars, dbVars, txnVars
  <2>2. TypeOK' /\ SessionInv' /\ LockInv' /\ StageInv'
    BY <2>1 DEF LoadInv, TypeOK, SessionInv, LockInv, StageInv
  <2>3. TxnInv'
    BY <2>1 DEF LoadInv, TxnInv, OwnerSwaps, ReadyToCommit, Swapped
  <2>4. SwapInv'
    <3>1. ASSUME NEW w \in Worker, SwapProgress(w)
          PROVE  SwapProgress(w)'
      BY <2>1, <3>1 DEF SwapProgress, Swapped, Untouched
    <3>. QED
      BY <2>1, <3>1 DEF LoadInv, SwapInv
  <2>5. CheckStillHolds' /\ WholeFeed'
    BY <2>1 DEF LoadInv, CheckStillHolds, WholeFeed
  <2>. QED
    BY <2>2, <2>3, <2>4, <2>5 DEF LoadInv
<1>. QED
  BY <1>1, <1>2, <1>3 DEF Next

\* The inductive invariant of the load protocol: what the sessions, the lock,
\* the staging tables and the transactions of ingestAgency are in every state.
THEOREM LoadInvariant == Spec => []LoadInv
<1>. QED
  BY InitInv, StepInv, PTL DEF Spec

\* Type correctness: a table index stays in SWAPPED_TABLES, a lock count >= 0.
THEOREM TypeCorrect == Spec => []TypeOK
<1>1. LoadInv => TypeOK
  BY DEF LoadInv
<1>. QED
  BY <1>1, LoadInvariant, PTL

\* Readers never see a partial or doubled data set, whatever loads, crashes and
\* lost connections interleave (the doc comment of GtfsStaticService).
THEOREM ReadersSeeOneFeed == Spec => []WholeFeed
<1>1. LoadInv => WholeFeed
  BY DEF LoadInv
<1>. QED
  BY <1>1, LoadInvariant, PTL

\* The rows that checkRowCounts compared with are the rows that swapIn replaces.
THEOREM CheckIsNotStale == Spec => []CheckStillHolds
<1>1. LoadInv => CheckStillHolds
  BY DEF LoadInv
<1>. QED
  BY <1>1, LoadInvariant, PTL
----------------------------------------------------------------------------
\* Seen from outside, ingestAgency is one atomic replacement of the agency's rows
\* by a checked feed, counted in data_version: only a commit is more than a stutter.
THEOREM LoadImplementsAgencyData == Spec => ImplementsAgencyData
<1>1. Init => Promise!Init
  BY DEF Init, Promise!Init, NoData, Promise!NoData, Table, Promise!Table
<1>2. ASSUME LoadInv, NEW c \in Conn, ReadyToCommit(c), ApplyCommit(c)
      PROVE  Promise!Next
  <2>1. stage[c] \in Feed /\ Promise!RowCountsPass(stage[c], live)
    BY <1>2 DEF ReadyToCommit, RowCountsPass
  <2>2. live' = Rows[stage[c]] /\ dataVersion' = dataVersion + 1
    BY <1>2, SwapCommits
  <2>. QED
    BY <2>1, <2>2 DEF Promise!Next, Promise!Replace
<1>3. LoadInv /\ [Next]_vars => [Promise!Next]_<<live, dataVersion>>
  <2>. SUFFICES ASSUME LoadInv, [Next]_vars, ~UNCHANGED <<live, dataVersion>>
                PROVE  Promise!Next
    OBVIOUS
  <2>1. \/ \E w \in Worker : Commit(w)
        \/ \E c \in Conn : LateCommit(c)
    BY
       DEF Next, Step, vars, workerVars, dbVars, StartLoad, Download, UpsertAgency,
        FailBeforeLock, Connect, LockTaken, LockBusy, LockQueryFails,
        CreateStagingTables, CopyIntoStage, CheckRowCounts, StartTransaction,
        DeleteRows, RowsDeleted, InsertRows, BumpVersion, StatementFails,
        DropStagingTables, Unlock, Analyze, ConnectionLost, Crash, SessionEnds
  <2>2. ASSUME NEW w \in Worker, Commit(w)
        PROVE  Promise!Next
    <3>1. pc[w] = "commit" /\ ApplyCommit(using[w])
      BY <2>2 DEF Commit
    <3>2. using[w] \in Conn /\ ReadyToCommit(using[w])
      BY <3>1, SessionOfLoad, CommitIsReady
    <3>. QED
      BY <1>2, <3>1, <3>2
  <2>3. ASSUME NEW c \in Conn, LateCommit(c)
        PROVE  Promise!Next
    <3>1. ReadyToCommit(c) /\ ApplyCommit(c)
      BY <2>3 DEF LateCommit, LoadInv, TxnInv
    <3>. QED
      BY <1>2, <3>1
  <2>. QED
    BY <2>1, <2>2, <2>3
<1>. QED
  BY <1>1, <1>3, LoadInvariant, PTL DEF Spec, ImplementsAgencyData, Promise!Spec
=============================================================================
