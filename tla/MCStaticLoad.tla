---------------------------- MODULE MCStaticLoad ----------------------------
(***************************************************************************)
(* A small instance of StaticLoad: one core table (trips) and one calendar *)
(* table; a feed with a repeated key, one of half its size, one that is    *)
(* only big enough to follow the second, and one without a calendar.       *)
(***************************************************************************)
EXTENDS StaticLoad, TLC

CONSTANTS w1, w2, c1, c2, c3

MCFeed == {"full", "half", "tiny", "nocal"}
MCRow  == MCFeed \X (1 .. 4)
MCKey  == [r \in MCRow |-> r[2]]

Trips(f) == CASE f = "half" -> 2 [] f = "tiny" -> 1 [] OTHER -> 4

MCRows == [f \in Feed |->
    << {<<f, k>> : k \in 1 .. Trips(f)},
       IF f = "nocal" THEN {} ELSE {<<f, 1>>} >>]
MCStaged == [f \in Feed |->
    << IF f = "full" THEN 5 ELSE Trips(f), IF f = "nocal" THEN 0 ELSE 1 >>]

MCPoolOf == c1 :> w1 @@ c3 :> w2   \* a pool of one connection each
=============================================================================
