---------------------------- MODULE MCRealtimeFeed ----------------------------
EXTENDS RealtimeFeed

MCTtl == [l \in Label |-> IF l = "trips" THEN 2 ELSE 1]
=============================================================================
