-------------------------- MODULE MCBacktestRunner --------------------------
(* BacktestRunner over a few shapes of bars (up, down, wide, flat, gaps)   *)
(* and plans of three grades.                                              *)
EXTENDS BacktestRunner

Shape(o, b, w, c) == [open |-> o, best |-> b, worst |-> w, close |-> c]
MCBars == {Shape(0, 1, -1, 0), Shape(0, 6, 0, 5), Shape(0, 2, -3, -3), Shape(-4, -1, -5, -2)}
MCPlans == {[stop |-> -2, target |-> 5, mult |-> 1], [stop |-> -1, target |-> 3, mult |-> 3],
            [stop |-> 1, target |-> 2, mult |-> 2]}
=============================================================================
