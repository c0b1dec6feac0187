----------------------------- MODULE MCArrivals -----------------------------
(***************************************************************************)
(* The board of platform "P" of station "S", and the next train of "S":    *)
(* two trains of a subway line and a bus loop that stops there three       *)
(* times, the last time to drop off only, on two service days that         *)
(* overlap.  "D" is a later, shorter bus that no feed ever names: with it  *)
(* there are ten rows, one more than 3 * Limit, and some at the same time. *)
(***************************************************************************)
EXTENDS Arrivals

MCRun  == {"A", "B", "L1", "L2", "C1", "C2", "D"}
MCTrip == [A |-> 1, B |-> 2, L1 |-> 3, L2 |-> 3, C1 |-> 3, C2 |-> 3, D |-> 4]
MCDate == [A |-> 1, B |-> 1, L1 |-> 1, L2 |-> 2, C1 |-> 1, C2 |-> 1, D |-> 1]
MCNewId == [A |-> 11, B |-> 12, L1 |-> 13, L2 |-> 14, C1 |-> 15, C2 |-> 16, D |-> 17]
MCInService == {"A", "B", "L1", "L2", "D"}
MCLine == <<"red", "red", "loop", "loop">>
MCDayStart == <<0, 4>>

Stop(stop, arr, dep) == [stop |-> stop, arr |-> arr, dep |-> dep, pickup |-> TRUE]

MCTimetable ==
    << <<Stop("Q", None, 1), Stop("P", 2, 3), Stop("Z", 5, None)>>,
       <<Stop("Q", None, 4), Stop("P", 5, 6), Stop("Z", 8, None)>>,
       <<Stop("P", None, 0), Stop("Q", 1, 1), Stop("P", 3, 3),
         [Stop("P", 4, None) EXCEPT !.pickup = FALSE]>>,
       <<Stop("P", None, 6), Stop("Q", 7, 7), Stop("P", 8, 8)>> >>

MCParentOf == [P |-> "S", p |-> "S"]
MCPlatform == [P |-> "p", Q |-> "Q", Z |-> "Z"]

Of(styles, delays) == [style : styles, delay : delays]

\* Every way to run a train of the subway, alone or with the next one, every way
\* to run the bus, and a copy of it beside it.
SubwayPlans ==
    [A  : Of({"times", "delays", "added", "renamed"}, {-1, 2})
          \cup Of({"platforms"}, {2}) \cup Of({"nodata"}, {-1}) \cup Of({"silent"}, {0}),
     B  : Of({"times"}, {-1}) \cup Of({"added"}, {1}) \cup Of({"silent"}, {0}),
     L1 : Of({"canceled"}, {0}),
     L2 : Of({"canceled"}, {0}),
     C1 : Of({"silent"}, {0}),
     C2 : Of({"silent"}, {0}),
     D  : Of({"silent"}, {0})]

OtherStyles ==
    [A  : Of({"dateless", "arrivals", "departures", "skipping", "canceled"}, {2}),
     B  : Of({"times"}, {-1}),
     L1 : Of({"canceled"}, {0}),
     L2 : Of({"canceled"}, {0}),
     C1 : Of({"silent"}, {0}),
     C2 : Of({"silent"}, {0}),
     D  : Of({"silent"}, {0})]

BusPlans ==
    [A  : Of({"added"}, {2}),
     B  : Of({"silent"}, {0}),
     L1 : Of({"times", "delays"}, {2}) \cup Of({"added"}, {1})
          \cup Of({"canceled", "silent"}, {0}),
     L2 : Of({"times"}, {0}),
     C1 : Of({"copy"}, {1}) \cup Of({"silent"}, {0}),
     C2 : Of({"silent"}, {0}),
     D  : Of({"silent"}, {0})]

MCPlans == SubwayPlans \cup OtherStyles \cup BusPlans
=============================================================================
