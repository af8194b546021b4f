---------------------------- MODULE MCTimestamps ----------------------------
(* Bounds for Timestamps: a handful of presentation times.                 *)
EXTENDS Timestamps

FourTimes == 1 .. 4
=============================================================================
