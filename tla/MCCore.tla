------------------------------- MODULE MCCore -------------------------------
(* Two sessions, and the events of each run.                               *)
EXTENDS Core, TLC
CONSTANTS a, b

TwoInst   == {a, b}
Sym       == Permutations(Inst)

AllEvents   == EventKinds
LiveEvents  == {"fw_error", "fw_hangs", "watchdog", "load_fails"}
=============================================================================
