------------------------------- MODULE MCOSApp -------------------------------
(* Instance of OSApp for TLC: three tasks, one with a func_update and a     *)
(* func_end, one with a func_end only, one with neither.                    *)
EXTENDS OSApp

CONSTANTS a, b, c

MCTasks == {a, b, c}
MCUpdating == {a}
MCEnding == {a, b}
=============================================================================
