-------------------------- MODULE MCIngestionWorker --------------------------
(***************************************************************************)
(* Two agencies, of which one has a realtime feed.                         *)
(***************************************************************************)
EXTENDS IngestionWorker

MCFeeds == <<{"trips"}, {}>>
MCMaxFeed == <<2, 1>>
=============================================================================
