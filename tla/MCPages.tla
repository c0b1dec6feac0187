------------------------------- MODULE MCPages -------------------------------
(***************************************************************************)
(* Every page, with answers within one poll interval or in up to 20 s.     *)
(***************************************************************************)
EXTENDS Pages
=============================================================================
