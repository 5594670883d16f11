--------------------------- MODULE MCPnLSimulator ---------------------------
(* PnLSimulator over all bars of a small price range and over references   *)
(* on either side of the entry.                                            *)
EXTENDS PnLSimulator

Range == -4..6
MCBars == {b \in [best : Range, worst : Range, close : Range] :
               b.worst <= b.close /\ b.close <= b.best}
MCCandidates ==
    {[refs |-> FALSE, stop |-> 0, target |-> 0, atr |-> a] : a \in {0, 2}}
    \cup [refs : {TRUE}, stop : {-3, -1, 1, 2}, target : {0, 4, 6}, atr : {0, 2}]
=============================================================================
