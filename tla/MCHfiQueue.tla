----------------------------- MODULE MCHfiQueue -----------------------------
(* A ring of five words, as the command queue or as the message queue:     *)
(* packets of one to four words wrap at every slot, a four-word packet     *)
(* needs the whole ring but the word that stays free, a six-word one can   *)
(* never be written and three words is the reader's limit.                 *)
EXTENDS HfiQueue

MCPktLens == {0, 1, 2, 3, 4, 6}
MCQueues  == {"cmd", "msg"}
=============================================================================
