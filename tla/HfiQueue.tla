------------------------------ MODULE HfiQueue ------------------------------
(***************************************************************************)
(* One interface queue between the driver and the Venus firmware: a ring   *)
(* of 32-bit words with a header, both in memory the two processors share, *)
(* and no lock between them.  The writer runs __write_queue, the reader    *)
(* runs __read_queue, each cut at the points where the other may be        *)
(* running: the load of the indices, the copy of the words, and the store  *)
(* that publishes the new index (the mb() of the code are those cuts).     *)
(*                                                                         *)
(* The driver is the writer of the command queue and the reader of the     *)
(* message and debug queues; the firmware is the other side and is assumed *)
(* to follow the same protocol.  The calls around the two programs are     *)
(* here too: venus_hfi_queue_cmd_write reports a command it found no room  *)
(* for as sent, venus_hfi_queue_msg_read and _dbg_read take a packet they  *)
(* read while the firmware stands refused for an error, and the interrupt  *)
(* thread reads until a read fails, whatever it failed of.                 *)
(*                                                                         *)
(* A packet is its number id (1, 2, ...) and its length: word k of packet  *)
(* id is the record [id, len, k], and the first word carries the size, as  *)
(* the first word of every HFI packet does.                                *)
(***************************************************************************)
EXTENDS Integers, Sequences

CONSTANTS QSize,        \* q_array.mem_size >> 2, the ring's size in words
          PktLens,      \* lengths in words the writer is asked to write
          HugePkt,      \* VIDC_IFACEQ_VAR_HUGE_PKT_SIZE in words
          Queues,       \* which of the three it may be, as VIDC_IFACEQ_..._IDX
          MaxSent       \* bound on the writes reported done, for model checking

ASSUME QueueAssumption == /\ QSize \in Nat \ {0}
                          /\ PktLens \subseteq Nat
                          /\ HugePkt \in Nat
                          /\ Queues \subseteq {"cmd", "msg", "dbg"}
                          /\ MaxSent \in Nat

VARIABLES
  queue,        \* which queue it is; that never changes
  mem,          \* the words of the ring
  read_idx,     \* qhdr_read_idx, stored by the reader only
  write_idx,    \* qhdr_write_idx, stored by the writer only
  rx_req,       \* qhdr_rx_req: the reader wants an interrupt
  tx_req,       \* qhdr_tx_req: the writer found no room
  wpc, wloc,    \* where the writer is, its packet_size and new_write_idx
  rpc, rloc,    \* where the reader is, the indices it loaded
  rbuf,         \* the reader's packet buffer: the words it copied
  got,          \* the packet the last successful read returned
  irq,          \* an interrupt was raised and not taken since
  round,        \* the loop of the interrupt thread: "off", what this round
                \* of it has read, "none" or "some" (num_pkts), or "done"
  valid,        \* core_in_valid_state
  told,         \* history: writes the caller was told had been done
  sent, nread   \* history: packets published, how many of them consumed

wvars  == <<wpc, wloc>>
rvars  == <<rpc, rloc, rbuf, got>>
tvars  == <<irq, round, valid, told>>
svars  == <<mem, read_idx, write_idx, rx_req, tx_req, wvars, rvars, tvars,
            sent, nread>>
vars   == <<queue, svars>>

Idx    == 0..(QSize - 1)
Word   == [id : Nat, len : Nat, k : Nat]
Blank  == [id |-> 0, len |-> 0, k |-> 0]
\* Mutant: the index is allowed to reach the size of the ring.
WrapLate(i) == IF i <= QSize THEN i ELSE i - QSize
Wrap(i) == IF i < QSize THEN i ELSE i - QSize

\* receive_request: no interrupt is wanted for debug messages.
ReceiveReq == IF queue = "dbg" THEN 0 ELSE 1

PacketWords(id, len) == [k \in 1..len |-> [id |-> id, len |-> len, k |-> k]]

\* Ghost: absolute number of words published, and of words consumed.
WordsSent == IF sent = << >> THEN 0
             ELSE sent[Len(sent)].at + sent[Len(sent)].len
WordsRead == IF nread = Len(sent) THEN WordsSent ELSE sent[nread + 1].at

-----------------------------------------------------------------------------
Init ==
  /\ queue \in Queues
  /\ mem = [i \in Idx |-> Blank]
  /\ read_idx = 0 /\ write_idx = 0
  /\ rx_req = ReceiveReq
  /\ tx_req = 0
  /\ wpc = "idle" /\ wloc = [len |-> 0, new |-> 0]
  /\ rpc = "idle" /\ rloc = [ridx |-> 0, widx |-> 0, seen |-> 0]
  /\ rbuf = << >> /\ got = << >>
  /\ irq = FALSE /\ round = "off" /\ valid = TRUE
  /\ told = 0
  /\ sent = << >> /\ nread = 0

EmptySpace(w, r) == IF w >= r THEN QSize - (w - r) ELSE r - w

\* Mutant: a packet may fill the ring completely.
NoRoomFull(len) == EmptySpace(write_idx, read_idx) < len
NoRoom(len) == EmptySpace(write_idx, read_idx) <= len

(***************************************************************************)
(* __write_queue: load the indices, then refuse or go on to copy.  The     *)
(* driver writes only while the core is in a valid state, and a command it *)
(* finds no room for is reported as done all the same: rc is still what    *)
(* __strict_check returned.  The firmware raises an interrupt when the     *)
(* queue is full.                                                          *)
(***************************************************************************)
Asks(len) == /\ wpc = "idle"
             /\ told < MaxSent
             /\ queue = "cmd" => valid
             /\ len # 0 /\ len <= QSize
             /\ UNCHANGED <<mem, read_idx, write_idx, rx_req, rvars,
                            irq, round, valid, sent, nread>>

WriteRefused(len) ==
  /\ Asks(len)
  /\ NoRoom(len)
  /\ tx_req' = 1
  /\ \/ queue = "cmd" /\ told' = told + 1 /\ wpc' = "idle"
     \/ queue # "cmd" /\ told' = told /\ wpc' = "raise"
  /\ UNCHANGED wloc

WriteCheck(len) ==
  /\ Asks(len)
  /\ ~NoRoom(len)
  /\ tx_req' = 0
  /\ wpc' = "copy"
  /\ wloc' = [len |-> len, new |-> Wrap(write_idx + len)]
  /\ UNCHANGED told

\* Mutant: the words of the second part are taken from one too early.
OffsetEarly(i, start) == IF i >= start THEN i - start + 1 ELSE i + QSize - start

\* Position in the packet, counted from 1, of the word that goes to slot i.
Offset(i, start) == IF i >= start THEN i - start + 1 ELSE i + QSize - start + 1

WriteCopy ==
  /\ wpc = "copy"
  /\ mem' = [i \in Idx |->
               IF Offset(i, write_idx) <= wloc.len
               THEN [id |-> Len(sent) + 1, len |-> wloc.len,
                     k |-> Offset(i, write_idx)]
               ELSE mem[i]]
  /\ wpc' = "publish"
  /\ UNCHANGED <<read_idx, write_idx, rx_req, tx_req, wloc, rvars, tvars, sent,
                 nread>>

WritePublish ==
  /\ wpc = "publish"
  /\ write_idx' = wloc.new
  /\ sent' = Append(sent, [len |-> wloc.len, at |-> WordsSent])
  /\ told' = told + 1
  /\ wpc' = "raise"
  /\ UNCHANGED <<mem, read_idx, rx_req, tx_req, wloc, rvars,
                 irq, round, valid, nread>>

\* Mutant: what is raised while the interrupt thread runs is forgotten.
RaiseToSleeper ==
  /\ wpc = "raise"
  /\ irq' = (irq \/ round = "off")
  /\ wpc' = "idle"
  /\ UNCHANGED <<mem, read_idx, write_idx, rx_req, tx_req, wloc, rvars,
                 round, valid, told, sent, nread>>

\* The driver interrupts the firmware unless the command is one of a batch
\* that goes on; the firmware does as the reader asked, or when it is refused.
WriteRaise ==
  /\ wpc = "raise"
  /\ irq' \in IF queue = "cmd" THEN {irq, TRUE}
              ELSE {irq \/ rx_req = 1 \/ tx_req = 1}
  /\ wpc' = "idle"
  /\ UNCHANGED <<mem, read_idx, write_idx, rx_req, tx_req, wloc, rvars,
                 round, valid, told, sent, nread>>

(***************************************************************************)
(* The interrupt thread: clear the interrupt, then read in rounds until a  *)
(* round has read no packet, here or in the queue it reads beside this one *)
(* (__response_handler reads the message and the debug queue).             *)
(***************************************************************************)
ThreadWakes ==
  /\ round = "off"
  /\ irq
  /\ irq' = FALSE
  /\ round' = "none"
  /\ UNCHANGED <<mem, read_idx, write_idx, rx_req, tx_req, wvars, rvars,
                 valid, told, sent, nread>>

\* A read that fails, for whatever reason, ends the round.
EndRound == /\ round' \in IF round = "some" THEN {"none"} ELSE {"none", "done"}
            /\ UNCHANGED <<irq, valid, told>>

ThreadSleeps ==
  /\ round = "done"
  /\ round' = "off"
  /\ UNCHANGED <<mem, read_idx, write_idx, rx_req, tx_req, wvars, rvars,
                 irq, valid, told, sent, nread>>

\* venus_hfi_queue_msg_read refuses to read in a core that is not valid.
ReadCall ==
  /\ rpc = "idle"
  /\ round \in {"none", "some"}
  /\ \/ /\ queue = "msg" /\ ~valid
        /\ EndRound
        /\ UNCHANGED rpc
     \/ /\ queue = "msg" => valid
        /\ rpc' = "load"
        /\ UNCHANGED tvars
  /\ UNCHANGED <<mem, read_idx, write_idx, rx_req, tx_req, wvars, rloc, rbuf,
                 got, sent, nread>>

(***************************************************************************)
(* __read_queue: load the indices, copy the packet or decide to discard,   *)
(* store the new read index, and look whether the writer was refused.      *)
(***************************************************************************)
ReadCheck ==
  /\ rpc = "load"
  /\ \/ /\ read_idx = write_idx
        /\ rx_req' = ReceiveReq
        /\ rpc' = "idle"
        /\ EndRound
        /\ UNCHANGED rloc
     \/ /\ read_idx # write_idx
        /\ rpc' = "copy"
        /\ rloc' = [ridx |-> read_idx, widx |-> write_idx, seen |-> Len(sent)]
        /\ UNCHANGED <<rx_req, tvars>>
  /\ UNCHANGED <<mem, read_idx, write_idx, tx_req, wvars, rbuf, got, sent, nread>>

\* The size word of the packet at the read index.
PacketSize == mem[rloc.ridx].len

ReadCopy ==
  /\ rpc = "copy"
  /\ PacketSize # 0
  /\ PacketSize <= HugePkt
  /\ rbuf' = [k \in 1..PacketSize |-> mem[Wrap(rloc.ridx + k - 1)]]
  /\ rpc' = "advance"
  /\ UNCHANGED <<mem, read_idx, write_idx, rx_req, tx_req, wvars, rloc, got,
                 tvars, sent, nread>>

ReadAdvance ==
  /\ rpc = "advance"
  /\ rx_req' = ReceiveReq
  /\ read_idx' = Wrap(rloc.ridx + Len(rbuf))
  /\ nread' = nread + 1
  /\ rpc' = "verdict"
  /\ UNCHANGED <<mem, write_idx, tx_req, wvars, rloc, rbuf, got, tvars, sent>>

\* The firmware's own reading of the command queue is taken to be plain.
Refused == queue # "cmd" /\ tx_req = 1

\* The packet is handed on, and the next one read.
ReadReturns ==
  /\ rpc = "verdict"
  /\ ~Refused
  /\ got' = rbuf
  /\ round' = "some"
  /\ rpc' = "idle"
  /\ UNCHANGED <<mem, read_idx, write_idx, rx_req, tx_req, wvars, rloc, rbuf,
                 irq, valid, told, sent, nread>>

\* -EINVAL for a packet that was read: it is lost, and the round is over.
ReadFails ==
  /\ rpc = "verdict"
  /\ Refused
  /\ rpc' = "idle"
  /\ EndRound
  /\ UNCHANGED <<mem, read_idx, write_idx, rx_req, tx_req, wvars, rloc, rbuf,
                 got, sent, nread>>

ReadDiscard ==
  /\ rpc = "copy"
  /\ PacketSize > HugePkt
  /\ rx_req' = ReceiveReq
  /\ read_idx' = rloc.widx
  /\ nread' = rloc.seen
  /\ rpc' = "idle"
  /\ EndRound
  /\ UNCHANGED <<mem, write_idx, tx_req, wvars, rloc, rbuf, got, sent>>

-----------------------------------------------------------------------------
\* Another reason to interrupt: the other queue, or the watchdog.
OtherInterrupt ==
  /\ ~irq
  /\ irq' = TRUE
  /\ UNCHANGED <<mem, read_idx, write_idx, rx_req, tx_req, wvars, rvars,
                 round, valid, told, sent, nread>>

\* Another thread takes the core to the error state.
CoreFails ==
  /\ valid
  /\ valid' = FALSE
  /\ UNCHANGED <<mem, read_idx, write_idx, rx_req, tx_req, wvars, rvars,
                 irq, round, told, sent, nread>>

-----------------------------------------------------------------------------
Writer == \/ \E len \in PktLens : WriteCheck(len) \/ WriteRefused(len)
          \/ WriteCopy \/ WritePublish \/ WriteRaise
Reader == \/ ThreadWakes \/ ThreadSleeps \/ ReadCall \/ ReadCheck
          \/ ReadCopy \/ ReadAdvance \/ ReadReturns \/ ReadFails \/ ReadDiscard

Next == (Writer \/ Reader \/ OtherInterrupt \/ CoreFails) /\ UNCHANGED queue

Spec == Init /\ [][Next]_vars

\* A write that has begun is carried through to its interrupt, and the thread
\* that an interrupt wakes runs.  Nothing makes anybody write (again), and
\* nothing but an interrupt makes the thread read.
FairSpec == /\ Spec
            /\ WF_svars(WriteCopy \/ WritePublish \/ WriteRaise)
            /\ WF_svars(Reader)

-----------------------------------------------------------------------------
TypeOK ==
  /\ queue \in Queues
  /\ mem \in [Idx -> Word]
  /\ read_idx \in Idx /\ write_idx \in Idx
  /\ rx_req \in {0, 1} /\ tx_req \in {0, 1}
  /\ wpc \in {"idle", "copy", "publish", "raise"}
  /\ wloc \in [len : Nat, new : Idx]
  /\ rpc \in {"idle", "load", "copy", "advance", "verdict"}
  /\ rloc \in [ridx : Idx, widx : Idx, seen : Nat]
  /\ rbuf \in Seq(Word) /\ got \in Seq(Word)
  /\ irq \in BOOLEAN /\ round \in {"off", "none", "some", "done"}
  /\ valid \in BOOLEAN /\ told \in Nat
  /\ sent \in Seq([len : Nat, at : Nat])
  /\ nread \in 0..Len(sent)

\* The words between the indices, the way the code measures them.
Used == QSize - EmptySpace(write_idx, read_idx)

(***************************************************************************)
(* The header tells the truth about the ring: the distance between the two *)
(* indices is exactly what was published and not yet consumed, and never   *)
(* the whole ring, so a full queue cannot be taken for an empty one        *)
(* (__write_queue keeps one word free by refusing at empty_space <= size). *)
(***************************************************************************)
IndicesAgree == /\ Used = WordsSent - WordsRead
                /\ Used < QSize
                /\ (read_idx = write_idx) <=> (nread = Len(sent))

(***************************************************************************)
(* What __read_queue has copied out when it is about to store the new read *)
(* index is, word for word, the oldest packet not yet consumed, wherever   *)
(* it wrapped and whatever the writer was doing meanwhile.                 *)
(***************************************************************************)
ReadsOldestIntact ==
  rpc = "advance" =>
    /\ nread < Len(sent)
    /\ rbuf = PacketWords(nread + 1, sent[nread + 1].len)

(***************************************************************************)
(* The copy of __write_queue never lands on a word the reader has still to *)
(* consume, although the reader's index may have moved since the room was  *)
(* measured.                                                               *)
(***************************************************************************)
CopyStaysInFreeSpace ==
  wpc \in {"copy", "publish"} => wloc.len < EmptySpace(write_idx, read_idx)

(***************************************************************************)
(* The interrupt thread never sleeps over a message: the interrupt is      *)
(* cleared before the queue is read and raised after it is written, so     *)
(* that while the thread is asleep and a message unread an interrupt is    *)
(* there or the writer about to raise one, wherever the two met.  Two      *)
(* things only leave messages in the queue of a sleeping thread: the core  *)
(* is no longer in a valid state, or the firmware was refused, as the read *)
(* that finds it refused returns -EINVAL and ends the round with what is   *)
(* left still in the queue, until the firmware writes again.               *)
(***************************************************************************)
SleepMissesNothing ==
  queue = "msg" /\ round = "off" /\ nread < Len(sent) =>
     irq \/ wpc # "idle" \/ tx_req = 1 \/ ~valid

(***************************************************************************)
(* Every message published is eventually consumed, though nothing but an   *)
(* interrupt makes the thread read; with the same two exceptions: the core *)
(* is no longer in a valid state, or the firmware was refused and is never *)
(* again found not to be (it need not write again).                        *)
(***************************************************************************)
EverySentIsConsumed ==
  (queue = "msg" /\ []valid /\ []<>(tx_req = 0)) =>
     \A n \in 1..MaxSent : (Len(sent) >= n) ~> (nread >= n)

(***************************************************************************)
(* The queue is a FIFO channel: the abstract queue holds the packets       *)
(* published and not consumed, the one whose fate is being decided among   *)
(* them, the abstract output is the packet the words returned by the last  *)
(* read make up.                                                           *)
(***************************************************************************)
Decoded ==
  IF got = << >> THEN [id |-> 0, len |-> 0]
  ELSE IF got = PacketWords(got[1].id, got[1].len)
       THEN [id |-> got[1].id, len |-> got[1].len]
       ELSE [id |-> -1, len |-> Len(got)]

\* The packets of s that are left when the first n are consumed.
Flight(s, n) == [i \in 1..(Len(s) - n) |-> [id |-> n + i, len |-> s[n + i].len]]

Settled == IF rpc = "verdict" THEN nread - 1 ELSE nread

Channel == INSTANCE HfiChannel WITH
  chan    <- Flight(sent, Settled),
  out     <- Decoded,
  count   <- Len(sent),
  refused <- tx_req = 1,
  acked   <- told,
  host    <- IF queue = "cmd" THEN "writes" ELSE "reads"

IsChannel == Channel!Spec
=============================================================================
