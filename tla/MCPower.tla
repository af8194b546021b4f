------------------------------ MODULE MCPower -------------------------------
(* The events of the run of Power.                                          *)
EXTENDS Power

AllEvents == EventKinds \ {"ready_unread"}
=============================================================================
