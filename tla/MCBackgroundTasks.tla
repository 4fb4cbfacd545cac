------------------------- MODULE MCBackgroundTasks -------------------------
(* BackgroundTasks for TLC: two tasks; which has which kind is chosen in   *)
(* the initial state.                                                      *)
EXTENDS BackgroundTasks

MCTasks == {"t1", "t2"}
=============================================================================
