--------------------------- MODULE MCWorkerLiveness ---------------------------
(***************************************************************************)
(* The constants of the code in units of five seconds: feeds abort after   *)
(* 2, the poll runs every 3, the watchdog every 6, the limit is 36.        *)
(***************************************************************************)
EXTENDS WorkerLiveness
=============================================================================
