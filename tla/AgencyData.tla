----------------------------- MODULE AgencyData -----------------------------
(***************************************************************************)
(* What the static load promises to everyone who reads the database: the   *)
(* rows of an agency are always those of one whole feed.  A load replaces  *)
(* all of them in one step, the feed it brings in was compared with the    *)
(* rows that it replaces, and every replacement is counted in              *)
(* agencies.data_version.  StaticLoad implements this module.              *)
(***************************************************************************)
EXTENDS Integers, FiniteSets

CONSTANTS
    Feed,        \* the feeds the publisher may serve
    NumTables,   \* SWAPPED_TABLES, numbered in the order of the array
    CoreTables,  \* the tables of CORE_TABLES
    Calendars,   \* service_calendars and service_calendar_dates
    Row,         \* the rows a feed can bring, with the feed's own columns
    Rows,        \* Rows[f][t]: the rows of f that end up in table t
    Staged       \* Staged[f][t]: how many rows copyIntoStage reads for table t

Table == 1 .. NumTables

Data == [Table -> SUBSET Row]

NoData == [t \in Table |-> {}]

VARIABLES
    data,     \* the agency's rows, table by table
    version   \* agencies.data_version

(***************************************************************************)
(* checkRowCounts: every core table has rows, and at least half as many as *)
(* it holds now (MIN_ROW_RATIO = 0.5); and there is some calendar.         *)
(***************************************************************************)
BigEnough(next, prev) == next # 0 /\ 2 * next >= prev

RowCountsPass(f, current) ==
    /\ \A t \in CoreTables : BigEnough(Staged[f][t], Cardinality(current[t]))
    /\ \E t \in Calendars : Staged[f][t] > 0

Init == data = NoData /\ version = 0

Replace(f) ==
    /\ RowCountsPass(f, data)
    /\ data' = Rows[f]
    /\ version' = version + 1

Next == \E f \in Feed : Replace(f)

Spec == Init /\ [][Next]_<<data, version>>
=============================================================================
