----------------------------- MODULE MCSession -----------------------------
(* The faults of the runs: all of them, or one.                            *)
EXTENDS Session

AllFaults  == FaultKinds
NoCapacity == {"streamon_fails"}
=============================================================================
