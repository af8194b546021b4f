----------------------------- MODULE HfiChannel -----------------------------
(***************************************************************************)
(* What an HFI interface queue (venus_hfi_queue.c) promises the two sides  *)
(* that share it, the driver and the Venus firmware: packets leave in the  *)
(* order they were put in, each at most once and each intact.  The code    *)
(* makes three exceptions: a packet bigger than the reader's buffer is     *)
(* discarded, together with whatever had been queued behind it; a packet   *)
(* the driver reads while the firmware stands refused for want of room is  *)
(* taken for an error and never handed on; and a packet the driver finds   *)
(* no room for is acknowledged to its caller although it is not queued.    *)
(***************************************************************************)
EXTENDS Naturals, Sequences

CONSTANTS PktLens,      \* the packet lengths, in words, that may be queued
          HugePkt       \* the longest packet the reader accepts, in words

VARIABLES chan,         \* packets queued and not consumed, oldest first
          out,          \* the packet the last read returned, Nothing at first
          count,        \* how many packets were ever queued
          refused,      \* the last attempt to queue one found no room
          acked,        \* how many the writer was told were queued
          host          \* what the driver does here: "writes" or "reads"

cvars == <<chan, out, count, refused, acked, host>>

Nothing == [id |-> 0, len |-> 0]

Init == /\ chan = << >>
        /\ out = Nothing
        /\ count = 0
        /\ refused = FALSE
        /\ acked = 0
        /\ host \in {"writes", "reads"}

\* The writer asks for room, and is told whether there is some.
Ask == /\ refused' \in BOOLEAN
       /\ acked' = IF refused' /\ host = "writes" THEN acked + 1 ELSE acked
       /\ UNCHANGED <<chan, out, count>>

Send == \E len \in PktLens :
          /\ count' = count + 1
          /\ chan' = Append(chan, [id |-> count + 1, len |-> len])
          /\ acked' = acked + 1
          /\ UNCHANGED <<out, refused>>

Receive == /\ chan # << >>
           /\ Head(chan).len <= HugePkt
           /\ out' = Head(chan)
           /\ chan' = Tail(chan)
           /\ UNCHANGED <<count, refused, acked>>

Lose == /\ host = "reads"
        /\ refused
        /\ chan # << >>
        /\ chan' = Tail(chan)
        /\ UNCHANGED <<out, count, refused, acked>>

Discard == /\ chan # << >>
           /\ Head(chan).len > HugePkt
           /\ \E n \in 1..Len(chan) : chan' = SubSeq(chan, n + 1, Len(chan))
           /\ UNCHANGED <<out, count, refused, acked>>

Next == (Ask \/ Send \/ Receive \/ Lose \/ Discard) /\ UNCHANGED host

Spec == Init /\ [][Next]_cvars
=============================================================================
