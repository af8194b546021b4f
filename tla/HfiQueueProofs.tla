--------------------------- MODULE HfiQueueProofs ---------------------------
(***************************************************************************)
(* Proofs about HfiQueue for every ring size, every set of packet lengths  *)
(* and every number of packets: the header always measures what is in the  *)
(* ring, the writer never touches a word that is still to be read, and the *)
(* reader returns whole packets in the order they were published.          *)
(***************************************************************************)
EXTENDS HfiQueue, SequenceTheorems, TLAPS

End(n) == sent[n].at + sent[n].len

\* Packets are laid end to end in the stream of words ever published.
StreamInv ==
  /\ \A i \in 1..Len(sent) : sent[i].len > 0 /\ End(i) <= WordsSent
  /\ \A i, j \in 1..Len(sent) : i < j => End(i) <= sent[j].at
  /\ \A i \in 1..Len(sent) : i + 1 <= Len(sent) => sent[i + 1].at = End(i)

SpaceInv == /\ Used = WordsSent - WordsRead
            /\ Used < QSize

\* Slot that holds the word at absolute position n of the stream.
Slot(n) == Wrap(read_idx + (n - WordsRead))

\* The unread part of the ring is the words of the packets in flight.
ContentInv ==
  \A i \in (nread + 1)..Len(sent) : \A j \in 1..sent[i].len :
     mem[Slot(sent[i].at + j - 1)] = [id |-> i, len |-> sent[i].len, k |-> j]

WriterInv ==
  /\ wpc \in {"copy", "publish"} =>
       /\ wloc.len > 0
       /\ wloc.len \in PktLens
       /\ wloc.len < EmptySpace(write_idx, read_idx)
       /\ wloc.new = Wrap(write_idx + wloc.len)
  /\ wpc = "publish" =>
       \A j \in 1..wloc.len : mem[Wrap(write_idx + j - 1)]
                  = [id |-> Len(sent) + 1, len |-> wloc.len, k |-> j]

ReaderInv ==
  /\ rpc \in {"copy", "advance"} => /\ rloc.ridx = read_idx
                                    /\ rloc.seen \in (nread + 1)..Len(sent)
                                    /\ rloc.widx = Slot(End(rloc.seen))
  /\ rpc = "advance" => /\ rbuf = PacketWords(nread + 1, sent[nread + 1].len)
                        /\ sent[nread + 1].len <= HugePkt
  /\ rpc = "verdict" => /\ nread # 0
                        /\ rbuf = PacketWords(nread, sent[nread].len)
                        /\ sent[nread].len <= HugePkt

IInv == TypeOK /\ StreamInv /\ SpaceInv /\ ContentInv /\ WriterInv /\ ReaderInv

-----------------------------------------------------------------------------
(* Arithmetic of the ring: all facts below are about two indices r and w   *)
(* and the code's own empty_space computation.                             *)

\* An index advanced by less than a lap wraps back into the ring.
LEMMA WrapInRing ==
  ASSUME NEW r \in Idx, NEW d \in 0..QSize
  PROVE  Wrap(r + d) \in Idx
  BY QueueAssumption, SMT DEF Idx, Wrap

\* The empty space computed by __write_queue is between 1 and the whole ring.
LEMMA EmptySpaceRange ==
  ASSUME NEW w \in Idx, NEW r \in Idx
  PROVE  EmptySpace(w, r) \in 1..QSize /\ (EmptySpace(w, r) = QSize <=> w = r)
  BY QueueAssumption, SMT DEF Idx, EmptySpace

\* Advancing the write index by d takes d words from the empty space.
LEMMA WriteTakesSpace ==
  ASSUME NEW w \in Idx, NEW r \in Idx, NEW d \in Nat, d < EmptySpace(w, r)
  PROVE  EmptySpace(Wrap(w + d), r) = EmptySpace(w, r) - d
  BY QueueAssumption, SMT DEF Idx, EmptySpace, Wrap

\* Advancing the read index by d, up to the write index, frees d words.
LEMMA ReadFreesSpace ==
  ASSUME NEW w \in Idx, NEW r \in Idx, NEW d \in Nat,
         d <= QSize - EmptySpace(w, r)
  PROVE  EmptySpace(w, Wrap(r + d)) = EmptySpace(w, r) + d
  BY QueueAssumption, SMT DEF Idx, EmptySpace, Wrap

\* Advancing twice is advancing once by the sum.
LEMMA WrapAdds ==
  ASSUME NEW r \in Idx, NEW a \in Nat, NEW b \in Nat, a + b < QSize
  PROVE  Wrap(Wrap(r + a) + b) = Wrap(r + (a + b))
  BY QueueAssumption, SMT DEF Idx, Wrap

\* The write index is the read index advanced by the words in the ring.
LEMMA WriteIsReadPlusUsed ==
  ASSUME NEW w \in Idx, NEW r \in Idx
  PROVE  w = Wrap(r + (QSize - EmptySpace(w, r)))
  BY QueueAssumption, SMT DEF Idx, EmptySpace, Wrap

\* Word j of a packet copied at w lands in the slot whose offset is j.
LEMMA OffsetOfCopied ==
  ASSUME NEW w \in Idx, NEW j \in 1..QSize
  PROVE  Offset(Wrap(w + j - 1), w) = j /\ Wrap(w + j - 1) \in Idx
  BY QueueAssumption, SMT DEF Idx, Wrap, Offset

\* A word still unread is out of the reach of a copy that fits.
LEMMA OffsetOfUnread ==
  ASSUME NEW w \in Idx, NEW r \in Idx, NEW d \in Nat,
         d < QSize - EmptySpace(w, r)
  PROVE  Offset(Wrap(r + d), w) > EmptySpace(w, r) /\ Wrap(r + d) \in Idx
  BY QueueAssumption, SMT DEF Idx, Wrap, Offset, EmptySpace

-----------------------------------------------------------------------------
\* The queue as initialised satisfies the inductive invariant.
LEMMA InitIInv == Init => IInv
<1> SUFFICES ASSUME Init PROVE IInv
  OBVIOUS
<1> USE QueueAssumption
<1>1. TypeOK
  <2>1. mem \in [Idx -> Word] /\ queue \in Queues
    BY SMT DEF Init, Word, Blank
  <2>2. rx_req \in {0, 1}
    BY DEF Init, ReceiveReq
  <2>3. 0 \in Idx
    BY SMT DEF Idx
  <2>4. rbuf \in Seq(Word) /\ got \in Seq(Word) /\ sent \in Seq([len : Nat, at : Nat])
        /\ nread \in 0..Len(sent)
    BY DEF Init
  <2>5. wloc \in [len : Nat, new : Idx] /\ rloc \in [ridx : Idx, widx : Idx, seen : Nat]
    BY <2>3 DEF Init
  <2> QED BY <2>1, <2>2, <2>3, <2>4, <2>5 DEF Init, TypeOK
<1>2. StreamInv /\ ContentInv /\ WriterInv /\ ReaderInv
  BY SMT DEF Init, StreamInv, ContentInv, WriterInv, ReaderInv
<1>3. SpaceInv
  BY SMT DEF Init, SpaceInv, Used, WordsSent, WordsRead, EmptySpace, Idx
<1> QED BY <1>1, <1>2, <1>3 DEF IInv

\* Word j of a packet laid at a, n words long, between the positions r and w.
LEMMA WordInWindow ==
  ASSUME NEW a \in Nat, NEW n \in Nat, NEW j \in 1..n, NEW r \in Nat,
         NEW w \in Nat, r <= a, a + n <= w
  PROVE  (a + j - 1) - r \in Nat /\ (a + j - 1) - r < w - r
  BY SMT

\* What is in flight is never before what was consumed, nor after what was
\* published: the positions of an unread packet measure from the read index.
LEMMA InFlightRange ==
  ASSUME TypeOK, StreamInv, NEW i \in (nread + 1)..Len(sent)
  PROVE  /\ sent[i].at \in Nat /\ sent[i].len \in Nat \ {0}
         /\ WordsRead \in Nat /\ WordsSent \in Nat
         /\ WordsRead <= sent[i].at
         /\ End(i) <= WordsSent
         /\ WordsRead = sent[nread + 1].at
<1>1. /\ i \in 1..Len(sent) /\ nread + 1 \in 1..Len(sent)
      /\ nread # Len(sent) /\ sent # << >>
  BY SMT DEF TypeOK
<1>2. sent[i] \in [len : Nat, at : Nat] /\ sent[nread + 1] \in [len : Nat, at : Nat]
      /\ sent[Len(sent)] \in [len : Nat, at : Nat]
  <2>1. sent \in Seq([len : Nat, at : Nat])
    BY DEF TypeOK
  <2>2. Len(sent) \in 1..Len(sent)
    BY <1>1, <2>1, SMT
  <2> QED BY <1>1, <2>1, <2>2, ElementOfSeq
<1>3. WordsRead = sent[nread + 1].at
  BY <1>1 DEF WordsRead
<1>4. nread + 1 < i => End(nread + 1) <= sent[i].at
  BY <1>1 DEF StreamInv
<1>5. End(i) <= WordsSent /\ sent[i].len > 0 /\ sent[nread + 1].len > 0
  BY <1>1 DEF StreamInv
<1>6. WordsSent \in Nat
  BY <1>1, <1>2 DEF WordsSent
<1>7. /\ sent[i].at \in Nat /\ sent[i].len \in Nat
      /\ sent[nread + 1].at \in Nat /\ sent[nread + 1].len \in Nat
  BY <1>2
<1>8. sent[nread + 1].at <= sent[i].at
  <2>1. CASE i = nread + 1
    BY <2>1, <1>7
  <2>2. CASE nread + 1 < i
    BY <2>2, <1>4, <1>5, <1>7 DEF End
  <2> QED BY <2>1, <2>2, <1>1, SMT DEF TypeOK
<1> QED BY <1>3, <1>5, <1>6, <1>7, <1>8

\* Counters of words are natural numbers, and equal when nothing is in flight.
LEMMA WordsRange ==
  ASSUME TypeOK
  PROVE  /\ WordsSent \in Nat /\ WordsRead \in Nat
         /\ nread = Len(sent) => WordsRead = WordsSent
<1>1. CASE sent = << >>
  BY <1>1, SMT DEF TypeOK, WordsSent, WordsRead
<1>2. CASE sent # << >>
  <2>1. sent \in Seq([len : Nat, at : Nat]) /\ nread \in 0..Len(sent)
    BY DEF TypeOK
  <2>2. Len(sent) \in 1..Len(sent)
    BY <1>2, <2>1, EmptySeq, LenProperties, SMT
  <2>3. nread # Len(sent) => nread + 1 \in 1..Len(sent)
    BY <2>1, <2>2, SMT
  <2>4. sent[Len(sent)] \in [len : Nat, at : Nat]
    BY <2>1, <2>2, ElementOfSeq
  <2>5. nread # Len(sent) => sent[nread + 1] \in [len : Nat, at : Nat]
    BY <2>1, <2>3, ElementOfSeq
  <2> QED BY <1>2, <2>4, <2>5 DEF WordsSent, WordsRead
<1> QED BY <1>1, <1>2

\* What a step that moves no index and copies no word leaves of the ring.
LEMMA RingKeeps ==
  ASSUME IInv, UNCHANGED <<mem, read_idx, write_idx, sent, nread>>
  PROVE  StreamInv' /\ SpaceInv' /\ ContentInv'
BY DEF IInv, StreamInv, SpaceInv, ContentInv, End, Slot, WordsSent, WordsRead,
       Used, EmptySpace, Wrap

\* The steps around the two programs, and those that refuse or give up: each
\* program stays where it is or goes where it holds nothing.
LEMMA AsideKeeps ==
  ASSUME IInv,
         UNCHANGED <<mem, read_idx, write_idx, rx_req, wloc, rloc, rbuf, sent, nread>>,
         wpc' = wpc \/ wpc' \in {"idle", "raise"},
         rpc' = rpc \/ rpc' \in {"idle", "load"},
         tx_req' \in {0, 1}, got' \in Seq(Word), irq' \in BOOLEAN,
         round' \in {"off", "none", "some", "done"}, valid' \in BOOLEAN,
         told' \in Nat, queue' = queue
  PROVE  IInv'
<1>1. TypeOK'
  BY DEF IInv, TypeOK
<1>2. StreamInv' /\ SpaceInv' /\ ContentInv'
  BY RingKeeps
<1>3. WriterInv'
  <2>1. WriterInv
    BY DEF IInv
  <2>2. CASE wpc' = wpc
    BY <2>1, <2>2 DEF WriterInv, EmptySpace, Wrap
  <2>3. CASE wpc' \in {"idle", "raise"}
    BY <2>3 DEF WriterInv
  <2> QED BY <2>2, <2>3
<1>4. ReaderInv'
  <2>1. ReaderInv
    BY DEF IInv
  <2>2. CASE rpc' = rpc
    BY <2>1, <2>2 DEF ReaderInv, End, Slot, WordsSent, WordsRead, Wrap, PacketWords
  <2>3. CASE rpc' \in {"idle", "load"}
    BY <2>3 DEF ReaderInv
  <2> QED BY <2>2, <2>3
<1> QED BY <1>1, <1>2, <1>3, <1>4 DEF IInv

\* Where the loop of the interrupt thread is when a read has failed.
LEMMA EndRoundTyped ==
  ASSUME TypeOK, EndRound
  PROVE  /\ irq' \in BOOLEAN /\ round' \in {"off", "none", "some", "done"}
         /\ valid' \in BOOLEAN /\ told' \in Nat
BY DEF TypeOK, EndRound

\* The steps of the interrupt thread around the reads, the interrupts, and
\* the refused writes.
LEMMA CallsKeep ==
  ASSUME IInv,
         \/ \E len \in PktLens : WriteRefused(len)
         \/ WriteRaise \/ ThreadWakes \/ ThreadSleeps \/ ReadCall \/ ReadReturns
         \/ ReadFails \/ OtherInterrupt \/ CoreFails,
         queue' = queue
  PROVE  IInv'
<1> USE QueueAssumption
<1>0. TypeOK /\ Len(sent) \in Nat
  BY DEF IInv, TypeOK
<1>1. ASSUME NEW len \in PktLens, WriteRefused(len) PROVE IInv'
  <2>1. told + 1 \in Nat
    BY <1>0 DEF TypeOK
  <2> QED BY <1>0, <1>1, <2>1, AsideKeeps DEF WriteRefused, Asks, rvars, TypeOK
<1>2. CASE WriteRaise
  <2>1. irq' \in BOOLEAN
    BY <1>0, <1>2 DEF WriteRaise, TypeOK
  <2> QED BY <1>0, <1>2, <2>1, AsideKeeps DEF WriteRaise, rvars, TypeOK
<1>3. CASE ThreadWakes
  BY <1>0, <1>3, AsideKeeps DEF ThreadWakes, rvars, wvars, TypeOK
<1>4. CASE ThreadSleeps
  BY <1>0, <1>4, AsideKeeps DEF ThreadSleeps, rvars, wvars, TypeOK
<1>5. CASE ReadCall
  <2>1. /\ UNCHANGED <<mem, read_idx, write_idx, rx_req, tx_req, wvars, rloc, rbuf,
                       got, sent, nread>>
        /\ rpc' = rpc \/ rpc' \in {"idle", "load"}
    BY <1>5 DEF ReadCall
  <2>2. /\ irq' \in BOOLEAN /\ round' \in {"off", "none", "some", "done"}
        /\ valid' \in BOOLEAN /\ told' \in Nat
    BY <1>0, <1>5, EndRoundTyped DEF ReadCall, tvars, TypeOK
  <2> QED BY <1>0, <2>1, <2>2, AsideKeeps DEF wvars, TypeOK
<1>6. CASE ReadReturns
  BY <1>0, <1>6, AsideKeeps DEF ReadReturns, wvars, TypeOK
<1>7. CASE ReadFails
  BY <1>0, <1>7, AsideKeeps, EndRoundTyped DEF ReadFails, wvars, TypeOK
<1>8. CASE OtherInterrupt
  BY <1>0, <1>8, AsideKeeps DEF OtherInterrupt, rvars, wvars, TypeOK
<1>9. CASE CoreFails
  BY <1>0, <1>9, AsideKeeps DEF CoreFails, rvars, wvars, TypeOK
<1> QED BY <1>1, <1>2, <1>3, <1>4, <1>5, <1>6, <1>7, <1>8, <1>9

\* __write_queue finding room with the indices it loaded.
LEMMA WriteCheckKeeps ==
  ASSUME IInv, NEW len \in PktLens, WriteCheck(len), queue' = queue
  PROVE  IInv'
<1> USE QueueAssumption DEF IInv
<1>0. /\ len \in Nat \ {0} /\ len <= QSize
      /\ UNCHANGED <<mem, read_idx, write_idx, rx_req, rvars, tvars, sent, nread>>
      /\ ~NoRoom(len) /\ wpc' = "copy" /\ tx_req' = 0
      /\ wloc' = [len |-> len, new |-> Wrap(write_idx + len)]
  BY SMT DEF WriteCheck, Asks, tvars
<1>1. TypeOK'
  <2>1. wloc' \in [len : Nat, new : Idx]
    BY <1>0, WrapInRing, SMT DEF TypeOK
  <2> QED BY <1>0, <2>1 DEF TypeOK, rvars, tvars
<1>2. StreamInv' /\ SpaceInv' /\ ContentInv'
  BY <1>0, RingKeeps
<1>3. ReaderInv'
  BY <1>0 DEF ReaderInv, rvars, End, Slot, WordsSent, WordsRead, Wrap, PacketWords
<1>4. WriterInv'
  <2>1. len < EmptySpace(write_idx, read_idx)
    <3>1. EmptySpace(write_idx, read_idx) \in 1..QSize
      BY EmptySpaceRange DEF TypeOK
    <3> QED BY <3>1, <1>0 DEF NoRoom
  <2> QED BY <2>1, <1>0 DEF WriterInv, EmptySpace, Wrap
<1> QED BY <1>1, <1>2, <1>3, <1>4

\* The memcpy of __write_queue.
LEMMA WriteCopyKeeps == ASSUME IInv, WriteCopy, queue' = queue PROVE IInv'
<1> USE QueueAssumption DEF IInv
<1>0. /\ wpc = "copy" /\ wpc' = "publish"
      /\ UNCHANGED <<read_idx, write_idx, rx_req, tx_req, wloc, rvars, tvars, sent,
                     nread>>
  BY DEF WriteCopy
<1>1. /\ wloc \in [len : Nat, new : Idx] /\ wloc.len \in Nat \ {0}
      /\ wloc.len < EmptySpace(write_idx, read_idx)
      /\ read_idx \in Idx /\ write_idx \in Idx
      /\ EmptySpace(write_idx, read_idx) \in 1..QSize
  BY <1>0, EmptySpaceRange, SMT DEF WriterInv, TypeOK
<1>2. \A s \in Idx : mem'[s] = IF Offset(s, write_idx) <= wloc.len
                               THEN [id |-> Len(sent) + 1, len |-> wloc.len,
                                     k |-> Offset(s, write_idx)]
                               ELSE mem[s]
  BY DEF WriteCopy
<1>3. TypeOK'
  <2>1. \A s \in Idx : Offset(s, write_idx) <= wloc.len => Offset(s, write_idx) \in Nat
    BY <1>1, SMT DEF Offset, Idx
  <2>2. Len(sent) + 1 \in Nat
    BY DEF TypeOK
  <2>3. mem' \in [Idx -> Word]
    BY <1>1, <2>1, <2>2 DEF WriteCopy, TypeOK, Word
  <2> QED BY <1>0, <2>3 DEF TypeOK, rvars, tvars
<1>4. StreamInv' /\ SpaceInv'
  BY <1>0 DEF StreamInv, SpaceInv, End, WordsSent, WordsRead, Used, EmptySpace
<1>5. ContentInv'
  <2> SUFFICES ASSUME NEW i \in (nread + 1)..Len(sent), NEW j \in 1..sent[i].len
               PROVE  mem'[Slot(sent[i].at + j - 1)]
                        = [id |-> i, len |-> sent[i].len, k |-> j]
    BY <1>0 DEF ContentInv, Slot, WordsRead, WordsSent, Wrap
  <2> DEFINE d == (sent[i].at + j - 1) - WordsRead
  <2>1. d \in Nat /\ d < Used
    <3>1. /\ sent[i].at \in Nat /\ sent[i].len \in Nat /\ WordsRead \in Nat
          /\ WordsSent \in Nat /\ WordsRead <= sent[i].at
          /\ sent[i].at + sent[i].len <= WordsSent
      BY InFlightRange DEF End
    <3>2. Used = WordsSent - WordsRead
      BY DEF SpaceInv
    <3> QED BY <3>1, <3>2, WordInWindow
  <2>2. Slot(sent[i].at + j - 1) = Wrap(read_idx + d)
    BY DEF Slot
  <2>3. Offset(Wrap(read_idx + d), write_idx) > wloc.len /\ Wrap(read_idx + d) \in Idx
    <3> HIDE DEF d
    <3>1. d < QSize - EmptySpace(write_idx, read_idx)
      BY <2>1 DEF Used
    <3>2. Offset(Wrap(read_idx + d), write_idx) > EmptySpace(write_idx, read_idx)
          /\ Wrap(read_idx + d) \in Idx
      BY <2>1, <3>1, <1>1, OffsetOfUnread
    <3>3. Offset(Wrap(read_idx + d), write_idx) \in Int
      BY <3>2, <1>1, SMT DEF Offset, Idx
    <3> QED BY <3>2, <3>3, <1>1, SMT
  <2>4. ~(Offset(Wrap(read_idx + d), write_idx) <= wloc.len)
    <3> HIDE DEF d
    <3>1. Offset(Wrap(read_idx + d), write_idx) \in Int
      BY <2>3, <1>1, SMT DEF Offset, Idx
    <3> QED BY <2>3, <3>1, <1>1, SMT
  <2>5. mem'[Slot(sent[i].at + j - 1)] = mem[Slot(sent[i].at + j - 1)]
    BY <2>2, <2>3, <2>4, <1>2
  <2> QED BY <2>5 DEF ContentInv
<1>6. WriterInv'
  <2>1. ASSUME NEW j \in 1..wloc.len
        PROVE  mem'[Wrap(write_idx + j - 1)]
                 = [id |-> Len(sent) + 1, len |-> wloc.len, k |-> j]
    <3>1. j \in 1..QSize /\ j <= wloc.len
      BY <1>1, SMT
    <3> QED BY <3>1, <1>1, <1>2, OffsetOfCopied
  <2> QED BY <1>0, <2>1 DEF WriterInv, EmptySpace, Wrap
<1>7. ReaderInv'
  BY <1>0 DEF ReaderInv, rvars, End, Slot, WordsSent, WordsRead, Wrap, PacketWords
<1> QED BY <1>3, <1>4, <1>5, <1>6, <1>7

\* __write_queue storing the new write index.
LEMMA WritePublishKeeps == ASSUME IInv, WritePublish, queue' = queue PROVE IInv'
<1> USE QueueAssumption DEF IInv
<1> DEFINE L == Len(sent)
           pkt == [len |-> wloc.len, at |-> WordsSent]
<1>0. /\ wpc = "publish" /\ wpc' = "raise" /\ write_idx' = wloc.new
      /\ sent' = Append(sent, pkt) /\ told' = told + 1
      /\ UNCHANGED <<mem, read_idx, rx_req, tx_req, wloc, rvars,
                     irq, round, valid, nread>>
  BY DEF WritePublish
<1>1. /\ wloc \in [len : Nat, new : Idx] /\ wloc.len \in Nat \ {0}
      /\ wloc.len < EmptySpace(write_idx, read_idx)
      /\ wloc.new = Wrap(write_idx + wloc.len)
      /\ read_idx \in Idx /\ write_idx \in Idx
      /\ EmptySpace(write_idx, read_idx) \in 1..QSize
      /\ WordsSent \in Nat /\ WordsRead \in Nat
      /\ sent \in Seq([len : Nat, at : Nat]) /\ nread \in 0..L
  <2>1. /\ wloc \in [len : Nat, new : Idx] /\ read_idx \in Idx /\ write_idx \in Idx
        /\ sent \in Seq([len : Nat, at : Nat]) /\ nread \in 0..L
    BY DEF TypeOK
  <2>2. /\ wloc.len \in Nat \ {0}
        /\ wloc.len < EmptySpace(write_idx, read_idx)
        /\ wloc.new = Wrap(write_idx + wloc.len)
    BY <1>0, <2>1, SMT DEF WriterInv
  <2>3. EmptySpace(write_idx, read_idx) \in 1..QSize
    BY <2>1, EmptySpaceRange
  <2> QED BY <2>1, <2>2, <2>3, WordsRange
<1>2. pkt \in [len : Nat, at : Nat] /\ L \in Nat
  BY <1>1
<1>3. /\ sent' \in Seq([len : Nat, at : Nat])
      /\ Len(sent') = L + 1
      /\ \A i \in 1..L : sent'[i] = sent[i]
      /\ sent'[L + 1] = pkt
  BY <1>0, <1>1, <1>2, AppendProperties
<1>4. TypeOK'
  <2>1. nread' \in 0..Len(sent')
    BY <1>0, <1>1, <1>2, <1>3, SMT
  <2> QED BY <1>0, <1>1, <1>3, <2>1 DEF TypeOK, rvars
<1>5. WordsSent' = WordsSent + wloc.len
  <2>1. sent' # << >>
    BY <1>1, <1>2, <1>3, SMT
  <2> QED BY <2>1, <1>3 DEF WordsSent
<1>6. WordsRead' = WordsRead
  <2>1. nread' # Len(sent')
    BY <1>0, <1>1, <1>2, <1>3, SMT
  <2>2. CASE nread = L
    BY <2>1, <2>2, <1>0, <1>3, WordsRange DEF WordsRead
  <2>3. CASE nread # L
    <3>1. nread + 1 \in 1..L
      BY <2>3, <1>1, <1>2, SMT
    <3> QED BY <2>1, <2>3, <3>1, <1>0, <1>3 DEF WordsRead
  <2> QED BY <2>2, <2>3
<1>7. StreamInv'
  <2>1. ASSUME NEW i \in 1..L
        PROVE  End(i)' = End(i) /\ End(i) \in Nat /\ End(i) <= WordsSent /\ sent[i].len > 0
    <3>1. sent[i] \in [len : Nat, at : Nat]
      BY <1>1, ElementOfSeq
    <3> QED BY <3>1, <1>3 DEF End, StreamInv
  <2>2. sent'[L + 1].at + sent'[L + 1].len = WordsSent + wloc.len
    BY <1>3
  <2>3. \A i \in 1..Len(sent') : sent'[i].len > 0 /\ End(i)' <= WordsSent'
    <3> SUFFICES ASSUME NEW i \in 1..Len(sent')
                 PROVE  sent'[i].len > 0 /\ End(i)' <= WordsSent'
      OBVIOUS
    <3>1. i \in 1..L \/ i = L + 1
      BY <1>2, <1>3, SMT
    <3>2. CASE i \in 1..L
      <4>1. /\ End(i)' = End(i) /\ End(i) \in Nat /\ End(i) <= WordsSent
            /\ sent[i].len > 0
        BY <2>1, <3>2
      <4>2. End(i) <= WordsSent + wloc.len
        BY <4>1, <1>1, SMT
      <4> QED BY <4>1, <4>2, <3>2, <1>3, <1>5
    <3>3. CASE i = L + 1
      <4>1. sent'[i].len = wloc.len /\ End(i)' = WordsSent + wloc.len
        BY <3>3, <2>2, <1>3 DEF End
      <4>2. wloc.len > 0 /\ WordsSent + wloc.len <= WordsSent + wloc.len
        BY <1>1, SMT
      <4> QED BY <4>1, <4>2, <1>5
    <3> QED BY <3>1, <3>2, <3>3
  <2>4. \A i, j \in 1..Len(sent') : i < j => End(i)' <= sent'[j].at
    <3> SUFFICES ASSUME NEW i \in 1..Len(sent'), NEW j \in 1..Len(sent'), i < j
                 PROVE  End(i)' <= sent'[j].at
      OBVIOUS
    <3>1. i \in 1..L /\ (j \in 1..L \/ j = L + 1)
      <4>1. i \in 1..(L + 1) /\ j \in 1..(L + 1) /\ L \in Nat
        BY <1>2, <1>3
      <4> HIDE DEF L
      <4> QED BY <4>1, SMT
    <3>2. CASE j \in 1..L
      BY <3>1, <3>2, <2>1, <1>3 DEF StreamInv
    <3>3. CASE j = L + 1
      <4>1. i \in 1..L
        BY <3>1, <3>3, <1>2, SMT
      <4>2. End(i) <= WordsSent /\ End(i)' = End(i)
        BY <4>1, <2>1
      <4>3. sent'[j].at = WordsSent
        BY <3>3, <1>3
      <4> QED BY <4>2, <4>3
    <3> HIDE DEF L
    <3> QED BY <3>1, <3>2, <3>3
  <2>5. \A i \in 1..Len(sent') : i + 1 <= Len(sent') => sent'[i + 1].at = End(i)'
    <3> SUFFICES ASSUME NEW i \in 1..Len(sent'), i + 1 <= Len(sent')
                 PROVE  sent'[i + 1].at = End(i)'
      OBVIOUS
    <3>1. i \in 1..L /\ (i + 1 \in 1..L \/ i = L)
      BY <1>2, <1>3, SMT
    <3>2. CASE i + 1 \in 1..L
      <4>1. sent[i + 1].at = End(i)
        BY <3>1, <3>2, <1>2, SMT DEF StreamInv
      <4> QED BY <4>1, <3>1, <3>2, <2>1, <1>3
    <3>3. CASE i = L
      <4>1. sent # << >>
        BY <3>1, <3>3, <1>1, EmptySeq, SMT
      <4>2. WordsSent = End(L)
        BY <4>1 DEF WordsSent, End
      <4> QED BY <4>2, <3>1, <3>3, <2>1, <1>3
    <3> QED BY <3>1, <3>2, <3>3
  <2> QED BY <2>3, <2>4, <2>5 DEF StreamInv
<1>8. EmptySpace(write_idx', read_idx') = EmptySpace(write_idx, read_idx) - wloc.len
  BY <1>0, <1>1, WriteTakesSpace
<1>9. SpaceInv'
  <2> DEFINE e == EmptySpace(write_idx, read_idx)
  <2>1. Used' = QSize - (e - wloc.len)
    BY <1>8 DEF Used
  <2>2. Used = QSize - e /\ Used = WordsSent - WordsRead /\ Used < QSize
    BY DEF Used, SpaceInv
  <2>3. e \in 1..QSize /\ wloc.len \in Nat /\ wloc.len < e
    BY <1>1
  <2> HIDE DEF e
  <2>4. Used' = (WordsSent + wloc.len) - WordsRead /\ Used' < QSize
    <3>1. WordsSent \in Nat /\ WordsRead \in Nat /\ QSize \in Nat
      BY <1>1
    <3> QED BY <2>1, <2>2, <2>3, <3>1, SMT
  <2> QED BY <2>4, <1>5, <1>6 DEF SpaceInv
<1>10. ContentInv'
  <2>0. /\ UNCHANGED <<mem, read_idx, nread>> /\ Len(sent') = L + 1
        /\ \A n : Slot(n)' = Slot(n)
    BY <1>0, <1>3, <1>6 DEF Slot
  <2> SUFFICES ASSUME NEW i \in (nread + 1)..(L + 1), NEW j \in 1..sent'[i].len
               PROVE  mem[Slot(sent'[i].at + j - 1)]
                        = [id |-> i, len |-> sent'[i].len, k |-> j]
    BY <2>0 DEF ContentInv
  <2>1. i \in (nread + 1)..L \/ i = L + 1
    BY <1>1, <1>2, SMT
  <2>2. CASE i \in (nread + 1)..L
    <3>1. i \in 1..L
      BY <2>2, <1>1, SMT
    <3>2. sent'[i] = sent[i] /\ j \in 1..sent[i].len
      BY <3>1, <1>3
    <3>3. mem[Slot(sent[i].at + j - 1)] = [id |-> i, len |-> sent[i].len, k |-> j]
      BY <2>2, <3>2 DEF ContentInv
    <3> QED BY <3>2, <3>3
  <2>3. CASE i = L + 1
    <3>1. sent'[i].at = WordsSent /\ sent'[i].len = wloc.len /\ j \in 1..wloc.len
      BY <2>3, <1>3
    <3> DEFINE u == QSize - EmptySpace(write_idx, read_idx)
    <3>2. u \in Nat /\ u = WordsSent - WordsRead /\ u + (j - 1) < QSize /\ j - 1 \in Nat
      BY <1>1, <3>1, SMT DEF SpaceInv, Used
    <3>3. write_idx = Wrap(read_idx + u)
      BY <1>1, WriteIsReadPlusUsed
    <3>4. Wrap(write_idx + (j - 1)) = Wrap(read_idx + (u + (j - 1)))
      <4> HIDE DEF u
      <4> QED BY <3>2, <3>3, <1>1, WrapAdds
    <3>5. u + (j - 1) = (sent'[i].at + (j - 1)) - WordsRead
      <4> HIDE DEF u
      <4> QED BY <3>1, <3>2, <1>1, SMT
    <3>6. write_idx + (j - 1) = write_idx + j - 1
      BY <1>1, <3>1, SMT DEF Idx
    <3>7. mem[Wrap(write_idx + j - 1)] = [id |-> L + 1, len |-> wloc.len, k |-> j]
      BY <1>0, <3>1 DEF WriterInv
    <3>8. Slot(sent'[i].at + j - 1) = Wrap(read_idx + ((sent'[i].at + (j - 1)) - WordsRead))
      BY DEF Slot
    <3>9. Slot(sent'[i].at + j - 1) = Wrap(write_idx + j - 1)
      <4> HIDE DEF u
      <4> QED BY <3>4, <3>5, <3>6, <3>8
    <3> QED BY <2>3, <3>1, <3>7, <3>9
  <2> QED BY <2>1, <2>2, <2>3
<1>11. WriterInv'
  BY <1>0 DEF WriterInv
<1>12. ReaderInv'
  <2>1. CASE rpc \in {"idle", "load"}
    BY <2>1, <1>0 DEF ReaderInv, rvars
  <2>3. CASE rpc = "verdict"
    <3>1. nread \in 1..L
      BY <2>3, <1>1, SMT DEF ReaderInv
    <3>2. sent'[nread] = sent[nread]
      BY <3>1, <1>3
    <3> QED BY <2>3, <3>2, <1>0 DEF ReaderInv, rvars, PacketWords
  <2>2. CASE rpc \in {"copy", "advance"}
    <3>0. rloc.seen \in (nread + 1)..L
      BY <2>2 DEF ReaderInv
    <3>1. rloc.seen \in (nread + 1)..L /\ rloc.seen \in 1..L /\ nread + 1 \in 1..L
      BY <3>0, <1>1, <1>2, SMT
    <3>2. End(rloc.seen)' = End(rloc.seen)
      BY <3>1, <1>0, <1>3 DEF End, rvars
    <3>3. Slot(End(rloc.seen))' = Slot(End(rloc.seen))
      BY <3>2, <1>0, <1>6 DEF Slot, Wrap
    <3>4. sent'[nread + 1] = sent[nread + 1]
      BY <3>1, <1>3
    <3>5. rloc.seen \in (nread + 1)..(L + 1)
      BY <3>1, <1>2, SMT
    <3> QED BY <2>2, <3>3, <3>4, <3>5, <1>0, <1>3 DEF ReaderInv, rvars, PacketWords
  <2> QED BY <2>1, <2>2, <2>3 DEF TypeOK
<1> QED BY <1>4, <1>7, <1>9, <1>10, <1>11, <1>12

\* The steps of the reader that move no index: loading them, and copying.
LEMMA ReadCheckKeeps == ASSUME IInv, ReadCheck, queue' = queue PROVE IInv'
<1> USE QueueAssumption DEF IInv
<1>0. UNCHANGED <<mem, read_idx, write_idx, tx_req, wvars, rbuf, got, sent, nread>>
  BY DEF ReadCheck
<1>1. StreamInv' /\ SpaceInv' /\ ContentInv' /\ WriterInv'
  BY <1>0 DEF StreamInv, SpaceInv, ContentInv, WriterInv, wvars, End, Slot,
              WordsSent, WordsRead, Used, EmptySpace, Wrap
<1>2. CASE /\ read_idx = write_idx /\ rx_req' = ReceiveReq /\ rpc' = "idle"
           /\ EndRound /\ UNCHANGED rloc
  <2>1. TypeOK'
    BY <1>0, <1>2, EndRoundTyped DEF TypeOK, wvars, ReceiveReq
  <2>2. ReaderInv'
    BY <1>2 DEF ReaderInv
  <2> QED BY <1>1, <2>1, <2>2
<1>3. CASE /\ read_idx # write_idx
           /\ rpc' = "copy"
           /\ rloc' = [ridx |-> read_idx, widx |-> write_idx, seen |-> Len(sent)]
           /\ UNCHANGED <<rx_req, tvars>>
  <2>1. /\ Len(sent) \in Nat /\ read_idx \in Idx /\ write_idx \in Idx
        /\ nread \in 0..Len(sent) /\ sent \in Seq([len : Nat, at : Nat])
    BY DEF TypeOK
  <2>2. TypeOK'
    BY <1>0, <1>3, <2>1 DEF TypeOK, wvars, tvars
  <2>3. /\ EmptySpace(write_idx, read_idx) \in 1..QSize
        /\ EmptySpace(write_idx, read_idx) # QSize
    BY <1>3, <2>1, EmptySpaceRange
  <2>4. nread # Len(sent)
    <3>1. Used # 0
      BY <2>3 DEF Used
    <3> QED BY <3>1, WordsRange DEF SpaceInv
  <2>5. Len(sent) \in (nread + 1)..Len(sent)
    BY <2>1, <2>4, SMT
  <2>6. write_idx = Slot(End(Len(sent)))
    <3>1. sent # << >>
      BY <2>1, <2>4, EmptySeq, SMT
    <3>2. End(Len(sent)) = WordsSent
      BY <3>1 DEF End, WordsSent
    <3>3. write_idx = Wrap(read_idx + Used)
      BY <2>1, WriteIsReadPlusUsed DEF Used
    <3> QED BY <3>2, <3>3 DEF SpaceInv, Slot
  <2>7. Slot(End(Len(sent)))' = Slot(End(Len(sent)))
    BY <1>0 DEF Slot, End, WordsRead, WordsSent, Wrap
  <2>8. ReaderInv'
    <3>1. /\ rloc'.ridx = read_idx' /\ rloc'.seen = Len(sent)
          /\ rloc'.widx = write_idx
      BY <1>0, <1>3
    <3>2. Slot(End(rloc.seen))' = Slot(End(Len(sent)))
      BY <1>0, <3>1 DEF Slot, End, WordsRead, WordsSent, Wrap
    <3> QED BY <1>0, <1>3, <2>5, <2>6, <3>1, <3>2 DEF ReaderInv
  <2> QED BY <1>1, <2>2, <2>8
<1> QED BY <1>2, <1>3 DEF ReadCheck

\* What the reader is about to copy is the oldest packet in flight.
LEMMA SizeWord ==
  ASSUME IInv, rpc = "copy"
  PROVE  /\ nread + 1 \in (nread + 1)..Len(sent)
         /\ sent[nread + 1].len \in Nat \ {0}
         /\ sent[nread + 1].len < QSize
         /\ \A k \in 1..sent[nread + 1].len :
               mem[Wrap(rloc.ridx + k - 1)]
                 = [id |-> nread + 1, len |-> sent[nread + 1].len, k |-> k]
         /\ PacketSize = sent[nread + 1].len
<1> USE QueueAssumption DEF IInv
<1> DEFINE n == nread + 1
<1>1. n \in n..Len(sent) /\ rloc.ridx = read_idx /\ read_idx \in Idx
  <2>1. rloc.ridx = read_idx /\ rloc.seen \in (nread + 1)..Len(sent)
    BY DEF ReaderInv
  <2>2. nread \in Nat /\ Len(sent) \in Nat /\ read_idx \in Idx
    BY DEF TypeOK
  <2> QED BY <2>1, <2>2, SMT
<1>2. /\ sent[n].len \in Nat \ {0} /\ sent[n].at = WordsRead
      /\ WordsRead \in Nat /\ WordsSent \in Nat
      /\ sent[n].at + sent[n].len <= WordsSent
  BY <1>1, InFlightRange DEF End
<1>3. sent[n].len < QSize
  <2>1. WordsSent - WordsRead < QSize
    BY DEF SpaceInv
  <2> HIDE DEF n
  <2> QED BY <1>2, <2>1, SMT
<1>4. ASSUME NEW k \in 1..sent[n].len
      PROVE  mem[Wrap(rloc.ridx + k - 1)] = [id |-> n, len |-> sent[n].len, k |-> k]
  <2>1. mem[Slot(sent[n].at + k - 1)] = [id |-> n, len |-> sent[n].len, k |-> k]
    BY <1>1 DEF ContentInv
  <2>2. read_idx + ((sent[n].at + (k - 1)) - WordsRead) = read_idx + (k - 1)
    <3>1. k \in Nat /\ read_idx \in Nat
      BY <1>1, <1>2, SMT DEF Idx
    <3> HIDE DEF n
    <3> QED BY <3>1, <1>2, SMT
  <2> QED BY <2>1, <2>2, <1>1 DEF Slot
<1>5. PacketSize = sent[n].len
  <2>1. 1 \in 1..sent[n].len
    BY <1>2, SMT
  <2>2. mem[Wrap(rloc.ridx + 1 - 1)].len = sent[n].len
    <3> HIDE DEF n
    <3>1. mem[Wrap(rloc.ridx + 1 - 1)] = [id |-> n, len |-> sent[n].len, k |-> 1]
      BY <1>4, <2>1
    <3> QED BY <3>1
  <2>3. Wrap(rloc.ridx + 1 - 1) = rloc.ridx
    BY <1>1, SMT DEF Wrap, Idx
  <2> QED BY <2>2, <2>3 DEF PacketSize
<1> QED BY <1>1, <1>2, <1>3, <1>4, <1>5

LEMMA ReadCopyKeeps == ASSUME IInv, ReadCopy, queue' = queue PROVE IInv'
<1> USE QueueAssumption DEF IInv
<1>0. /\ rpc = "copy" /\ rpc' = "advance"
      /\ rbuf' = [k \in 1..PacketSize |-> mem[Wrap(rloc.ridx + k - 1)]]
      /\ UNCHANGED <<mem, read_idx, write_idx, rx_req, tx_req, wvars, rloc, got,
                     tvars, sent, nread>>
  BY DEF ReadCopy
<1>1. StreamInv' /\ SpaceInv' /\ ContentInv' /\ WriterInv'
  BY <1>0 DEF StreamInv, SpaceInv, ContentInv, WriterInv, wvars, End, Slot,
              WordsSent, WordsRead, Used, EmptySpace, Wrap
<1>2. rbuf' = PacketWords(nread + 1, sent[nread + 1].len)
  BY <1>0, SizeWord DEF PacketWords
<1>3. rbuf' \in Seq(Word)
  <2>1. nread + 1 \in Nat /\ sent[nread + 1].len \in Nat
    BY <1>0, SizeWord DEF TypeOK
  <2>2. \A k \in 1..sent[nread + 1].len :
          [id |-> nread + 1, len |-> sent[nread + 1].len, k |-> k] \in Word
    BY <2>1, SMT DEF Word
  <2> QED BY <1>2, <2>1, <2>2, IsASeq DEF PacketWords
<1>4. TypeOK'
  BY <1>0, <1>3 DEF TypeOK, wvars, tvars
<1>5. ReaderInv'
  <2>1. sent[nread + 1].len <= HugePkt
    BY <1>0, SizeWord DEF ReadCopy
  <2> QED BY <1>0, <1>2, <2>1
          DEF ReaderInv, End, Slot, WordsSent, WordsRead, Wrap, PacketWords
<1> QED BY <1>1, <1>4, <1>5

\* Both ways of finishing a read move the read index to the end of a packet.
LEMMA ConsumeKeeps ==
  ASSUME IInv, NEW m \in (nread + 1)..Len(sent),
         nread' = m, read_idx' = Slot(End(m)),
         UNCHANGED <<mem, write_idx, wvars, sent>>
  PROVE  /\ StreamInv' /\ SpaceInv' /\ ContentInv' /\ WriterInv'
         /\ read_idx' \in Idx /\ nread' \in 0..Len(sent)
<1> USE QueueAssumption DEF IInv
<1> DEFINE d == End(m) - WordsRead
           e == EmptySpace(write_idx, read_idx)
<1>1. /\ read_idx \in Idx /\ write_idx \in Idx /\ nread \in 0..Len(sent)
      /\ Len(sent) \in Nat /\ sent \in Seq([len : Nat, at : Nat])
  BY DEF TypeOK
<1>2. m \in 1..Len(sent)
  BY <1>1, SMT
<1>3. /\ sent[m].at \in Nat /\ sent[m].len \in Nat \ {0}
      /\ WordsRead \in Nat /\ WordsSent \in Nat /\ WordsRead <= sent[m].at
      /\ End(m) <= WordsSent /\ End(m) = sent[m].at + sent[m].len
  BY InFlightRange DEF End
<1>4. /\ e \in 1..QSize /\ QSize - e = WordsSent - WordsRead
      /\ WordsSent - WordsRead < QSize
  BY <1>1, EmptySpaceRange DEF SpaceInv, Used
<1>5. d \in Nat /\ d <= QSize - e /\ d \in 0..QSize /\ End(m) \in Nat
      /\ d < QSize /\ d = End(m) - WordsRead
  <2>1. End(m) \in Nat /\ WordsRead <= End(m)
    BY <1>3
  <2>2. WordsRead \in Nat /\ WordsSent \in Nat /\ End(m) <= WordsSent
    BY <1>3
  <2> HIDE DEF e
  <2> QED BY <2>1, <2>2, <1>4
<1>6. read_idx' = Wrap(read_idx + d)
  BY DEF Slot
<1>7. read_idx' \in Idx
  <2> HIDE DEF d
  <2> QED BY <1>1, <1>5, <1>6, WrapInRing
<1>8. nread' \in 0..Len(sent)
  BY <1>2, <1>1, SMT
<1>9. WordsSent' = WordsSent /\ WordsRead' = End(m)
  <2>1. WordsSent' = WordsSent
    BY DEF WordsSent
  <2>2. CASE m = Len(sent)
    <3>1. sent # << >>
      BY <2>2, <1>1, <1>2, EmptySeq, SMT
    <3>2. WordsSent = End(m)
      BY <3>1, <2>2 DEF WordsSent, End
    <3> QED BY <2>1, <2>2, <3>2 DEF WordsRead
  <2>3. CASE m # Len(sent)
    <3>1. m + 1 <= Len(sent)
      BY <2>3, <1>1, <1>2, SMT
    <3>2. sent[m + 1].at = End(m)
      BY <3>1, <1>2 DEF StreamInv
    <3> QED BY <2>1, <2>3, <3>2 DEF WordsRead
  <2> QED BY <2>2, <2>3
<1>10. EmptySpace(write_idx', read_idx') = e + d
  <2>1. EmptySpace(write_idx, Wrap(read_idx + d)) = EmptySpace(write_idx, read_idx) + d
    <3>1. d <= QSize - EmptySpace(write_idx, read_idx)
      BY <1>5
    <3> HIDE DEF d
    <3> QED BY <3>1, <1>1, <1>5, ReadFreesSpace
  <2> QED BY <2>1, <1>6
<1>11. StreamInv'
  BY <1>9 DEF StreamInv, End
<1>12. SpaceInv'
  <2>1. Used' = QSize - (e + d)
    BY <1>10 DEF Used
  <2>2. Used' = WordsSent - End(m) /\ Used' < QSize
    <3>1. WordsRead \in Nat /\ WordsSent \in Nat /\ End(m) <= WordsSent
      BY <1>3
    <3>2. QSize - (e + d) = WordsSent - End(m) /\ QSize - (e + d) < QSize
      <4> HIDE DEF d, e
      <4> QED BY <3>1, <1>4, <1>5
    <3> QED BY <2>1, <3>2
  <2> QED BY <2>2, <1>9 DEF SpaceInv
<1>13. ContentInv'
  <2> SUFFICES ASSUME NEW i \in (m + 1)..Len(sent), NEW j \in 1..sent[i].len
               PROVE  mem[Wrap(read_idx' + ((sent[i].at + (j - 1)) - End(m)))]
                        = [id |-> i, len |-> sent[i].len, k |-> j]
    BY <1>9 DEF ContentInv, Slot
  <2> DEFINE f == (sent[i].at + (j - 1)) - End(m)
  <2>1. i \in (nread + 1)..Len(sent) /\ i \in 1..Len(sent) /\ m < i
    BY <1>1, <1>2, SMT
  <2>2. /\ sent[i].at \in Nat /\ sent[i].len \in Nat
        /\ sent[i].at + sent[i].len <= WordsSent
    BY <2>1, InFlightRange DEF End
  <2>3. End(m) <= sent[i].at
    BY <2>1, <1>2 DEF StreamInv
  <2>4. f \in Nat /\ f < WordsSent - End(m)
    BY <2>2, <2>3, <1>3, <1>5, WordInWindow
  <2>5. d + f < QSize /\ d + f = (sent[i].at + (j - 1)) - WordsRead
    <3> DEFINE a == sent[i].at + (j - 1)
    <3>1. a \in Int /\ f = a - End(m)
      BY <2>2
    <3>2. WordsRead \in Nat /\ WordsSent \in Nat /\ End(m) <= WordsSent
      BY <1>3
    <3>3. d + f = a - WordsRead
      <4> HIDE DEF d, f, a
      <4> QED BY <3>1, <3>2, <1>5
    <3>4. d + f < QSize
      <4> HIDE DEF d, f, a, e
      <4> QED BY <2>4, <3>2, <1>4, <1>5
    <3> QED BY <3>3, <3>4
  <2>6. Wrap(read_idx' + f) = Wrap(read_idx + (d + f))
    <3> HIDE DEF d, f
    <3> QED BY <2>4, <2>5, <1>1, <1>5, <1>6, WrapAdds
  <2>7. mem[Slot(sent[i].at + (j - 1))] = [id |-> i, len |-> sent[i].len, k |-> j]
    BY <2>1 DEF ContentInv
  <2>8. Slot(sent[i].at + (j - 1)) = Wrap(read_idx' + f)
    <3>1. Slot(sent[i].at + (j - 1)) = Wrap(read_idx + (d + f))
      <4> HIDE DEF d, f
      <4> QED BY <2>5 DEF Slot
    <3> QED BY <3>1, <2>6
  <2> QED BY <2>7, <2>8
<1>14. WriterInv'
  <2>1. UNCHANGED <<wpc, wloc, mem, write_idx, sent>>
    BY DEF wvars
  <2>2. wpc \in {"copy", "publish"} => wloc.len < e + d
    <3>1. wpc \in {"copy", "publish"} => wloc.len < e
      BY DEF WriterInv
    <3>2. wloc.len \in Nat
      BY DEF TypeOK
    <3> HIDE DEF d, e
    <3> QED BY <3>1, <3>2, <1>4, <1>5, SMT
  <2> QED BY <2>1, <2>2, <1>10 DEF WriterInv, Wrap
<1> QED BY <1>7, <1>8, <1>11, <1>12, <1>13, <1>14

LEMMA ReadAdvanceKeeps == ASSUME IInv, ReadAdvance, queue' = queue PROVE IInv'
<1> USE QueueAssumption DEF IInv
<1>0. /\ rpc = "advance" /\ rpc' = "verdict" /\ nread' = nread + 1
      /\ read_idx' = Wrap(rloc.ridx + Len(rbuf))
      /\ rx_req' = ReceiveReq
      /\ UNCHANGED <<mem, write_idx, tx_req, wvars, rloc, rbuf, got, tvars, sent>>
  BY DEF ReadAdvance
<1>1. /\ rloc.ridx = read_idx /\ rloc.seen \in (nread + 1)..Len(sent)
      /\ rbuf = PacketWords(nread + 1, sent[nread + 1].len)
      /\ nread \in Nat /\ Len(sent) \in Nat
  BY <1>0 DEF ReaderInv, TypeOK
<1>2. nread + 1 \in (nread + 1)..Len(sent)
  BY <1>1, SMT
<1>3. /\ sent[nread + 1].len \in Nat /\ sent[nread + 1].at = WordsRead
      /\ WordsRead \in Nat
  BY <1>2, InFlightRange
<1>4. Len(rbuf) = sent[nread + 1].len
  <2>1. PacketWords(nread + 1, sent[nread + 1].len)
          \in [1..sent[nread + 1].len -> Word]
    <3>1. \A k \in 1..sent[nread + 1].len :
          [id |-> nread + 1, len |-> sent[nread + 1].len, k |-> k] \in Word
      BY <1>1, <1>3, SMT DEF Word
    <3> QED BY <3>1 DEF PacketWords
  <2>2. rbuf \in Seq(Word)
    BY DEF TypeOK
  <2>3. DOMAIN rbuf = 1..sent[nread + 1].len
    BY <2>1, <1>1
  <2> QED BY <2>2, <2>3, <1>3, LenProperties, SMT
<1>5. read_idx' = Slot(End(nread + 1))
  <2>1. (sent[nread + 1].at + sent[nread + 1].len) - WordsRead = sent[nread + 1].len
    BY <1>3, SMT
  <2> QED BY <2>1, <1>0, <1>1, <1>4 DEF Slot, End
<1>6. /\ StreamInv' /\ SpaceInv' /\ ContentInv' /\ WriterInv'
      /\ read_idx' \in Idx /\ nread' \in 0..Len(sent)
  BY <1>0, <1>2, <1>5, ConsumeKeeps
<1>7. TypeOK'
  BY <1>0, <1>6 DEF TypeOK, wvars, tvars, ReceiveReq
<1>8. ReaderInv'
  <2>1. sent[nread + 1].len <= HugePkt /\ nread + 1 # 0
    BY <1>0, <1>1 DEF ReaderInv
  <2> QED BY <1>0, <1>1, <2>1 DEF ReaderInv, PacketWords
<1> QED BY <1>6, <1>7, <1>8

LEMMA ReadDiscardKeeps == ASSUME IInv, ReadDiscard, queue' = queue PROVE IInv'
<1> USE QueueAssumption DEF IInv
<1>0. /\ rpc = "copy" /\ rpc' = "idle" /\ nread' = rloc.seen
      /\ read_idx' = rloc.widx /\ rx_req' = ReceiveReq /\ EndRound
      /\ UNCHANGED <<mem, write_idx, tx_req, wvars, rloc, rbuf, got, sent>>
  BY DEF ReadDiscard
<1>1. /\ rloc.seen \in (nread + 1)..Len(sent)
      /\ rloc.widx = Slot(End(rloc.seen))
  BY <1>0 DEF ReaderInv
<1>2. /\ StreamInv' /\ SpaceInv' /\ ContentInv' /\ WriterInv'
      /\ read_idx' \in Idx /\ nread' \in 0..Len(sent)
  BY <1>0, <1>1, ConsumeKeeps
<1>3. TypeOK'
  BY <1>0, <1>2, EndRoundTyped DEF TypeOK, wvars, ReceiveReq
<1>4. ReaderInv'
  BY <1>0 DEF ReaderInv
<1> QED BY <1>2, <1>3, <1>4

-----------------------------------------------------------------------------
\* The strengthened invariant holds in every behaviour of the queue.
THEOREM Invariance == Spec => []IInv
<1>1. Init => IInv
  BY InitIInv
<1>2. IInv /\ [Next]_vars => IInv'
  <2> SUFFICES ASSUME IInv, [Next]_vars PROVE IInv'
    OBVIOUS
  <2>0. queue' = queue
    BY DEF Next, vars
  <2>1. ASSUME NEW len \in PktLens, WriteCheck(len) PROVE IInv'
    BY <2>0, <2>1, WriteCheckKeeps
  <2>2. CASE WriteCopy
    BY <2>0, <2>2, WriteCopyKeeps
  <2>3. CASE WritePublish
    BY <2>0, <2>3, WritePublishKeeps
  <2>4. CASE ReadCheck
    BY <2>0, <2>4, ReadCheckKeeps
  <2>5. CASE ReadCopy
    BY <2>0, <2>5, ReadCopyKeeps
  <2>6. CASE ReadAdvance
    BY <2>0, <2>6, ReadAdvanceKeeps
  <2>7. CASE ReadDiscard
    BY <2>0, <2>7, ReadDiscardKeeps
  <2>8. CASE UNCHANGED vars
    <3>1. TypeOK
      BY DEF IInv
    <3> QED BY <2>8, <3>1, AsideKeeps DEF vars, svars, wvars, rvars, tvars, TypeOK
  <2> QED BY <2>0, <2>1, <2>2, <2>3, <2>4, <2>5, <2>6, <2>7, <2>8, CallsKeep
          DEF Next, Writer, Reader
<1> QED BY <1>1, <1>2, PTL DEF Spec

\* Type correctness of the queue, for every ring size and packet lengths.
THEOREM TypeCorrect == Spec => []TypeOK
<1>1. IInv => TypeOK
  BY DEF IInv
<1> QED BY <1>1, Invariance, PTL

\* An empty ring, as the code tells it, is one with nothing in flight.
LEMMA EmptyIsDone ==
  ASSUME IInv PROVE read_idx = write_idx <=> nread = Len(sent)
<1> USE QueueAssumption DEF IInv
<1>1. /\ read_idx \in Idx /\ write_idx \in Idx /\ nread \in 0..Len(sent)
      /\ Len(sent) \in Nat
  BY DEF TypeOK
<1>2. /\ EmptySpace(write_idx, read_idx) \in 1..QSize
      /\ EmptySpace(write_idx, read_idx) = QSize <=> write_idx = read_idx
  BY <1>1, EmptySpaceRange
<1>3. Used = 0 <=> write_idx = read_idx
  BY <1>2 DEF Used
<1>4. nread = Len(sent) => Used = 0
  BY WordsRange DEF SpaceInv
<1>5. ASSUME nread # Len(sent) PROVE Used # 0
  <2>1. nread + 1 \in (nread + 1)..Len(sent)
    BY <1>1, <1>5, SMT
  <2>2. /\ sent[nread + 1].at = WordsRead /\ sent[nread + 1].len \in Nat \ {0}
        /\ WordsRead \in Nat /\ WordsSent \in Nat
        /\ sent[nread + 1].at + sent[nread + 1].len <= WordsSent
    BY <2>1, InFlightRange DEF End
  <2>3. WordsRead < WordsSent
    BY <2>2
  <2> QED BY <2>2, <2>3 DEF SpaceInv
<1> QED BY <1>3, <1>4, <1>5

\* The indices of the header measure exactly what is in flight, and a full
\* queue is never taken for an empty one (the property IndicesAgree).
THEOREM HeaderIsTruthful == Spec => []IndicesAgree
<1>1. IInv => IndicesAgree
  BY EmptyIsDone DEF IInv, IndicesAgree, SpaceInv
<1> QED BY <1>1, Invariance, PTL

\* What __read_queue copies is the oldest unread packet, whole and unchanged.
THEOREM FifoIntact == Spec => []ReadsOldestIntact
<1>1. IInv => ReadsOldestIntact
  <2> SUFFICES ASSUME IInv, rpc = "advance" PROVE nread < Len(sent)
                 /\ rbuf = PacketWords(nread + 1, sent[nread + 1].len)
    BY DEF ReadsOldestIntact
  <2>1. rloc.seen \in (nread + 1)..Len(sent) /\ nread \in Nat /\ Len(sent) \in Nat
    BY DEF IInv, ReaderInv, TypeOK
  <2>2. nread < Len(sent)
    BY <2>1, SMT
  <2> QED BY <2>2 DEF IInv, ReaderInv
<1> QED BY <1>1, Invariance, PTL

\* The copy of __write_queue stays clear of every word still to be read.
THEOREM NoOverwrite == Spec => []CopyStaysInFreeSpace
<1>1. IInv => CopyStaysInFreeSpace
  BY DEF IInv, WriterInv, CopyStaysInFreeSpace
<1> QED BY <1>1, Invariance, PTL

-----------------------------------------------------------------------------
(* The interrupt thread never sleeps over a message (SleepMissesNothing).  *)

\* What will wake a thread, or excuses its sleep.
Roused == irq \/ wpc # "idle" \/ tx_req = 1 \/ ~valid

\* A reader at work has not decided to sleep; what was published behind a
\* packet that is about to be discarded has been or will be signalled.
Awake ==
  queue = "msg" =>
    /\ rx_req = 1
    /\ rpc # "idle" => round \in {"none", "some"}
    /\ rpc = "copy" /\ rloc.seen < Len(sent) => Roused
    /\ round \in {"off", "done"} /\ nread < Len(sent) => Roused

\* Only the thread itself takes away what rouses it, and it is awake then.
LEMMA AwakeKeeps ==
  ASSUME IInv, IInv', Awake, [Next]_vars PROVE Awake'
<1> SUFFICES ASSUME queue' = "msg" PROVE Awake'
  BY DEF Awake
<1>0. /\ queue = "msg" /\ nread \in Nat /\ Len(sent) \in Nat
      /\ rx_req = 1 /\ (rpc # "idle" => round \in {"none", "some"})
      /\ (rpc = "copy" /\ rloc.seen < Len(sent) => Roused)
      /\ (round \in {"off", "done"} /\ nread < Len(sent) => Roused)
  BY DEF IInv, TypeOK, Awake, Next, vars
<1>1. ReceiveReq = 1
  BY <1>0 DEF ReceiveReq
<1>2. ASSUME NEW len \in PktLens, WriteCheck(len) \/ WriteRefused(len) PROVE Awake'
  <2>1. /\ UNCHANGED <<rx_req, rpc, rloc, round, sent, nread>>
        /\ Roused'
    BY <1>2 DEF WriteCheck, WriteRefused, Asks, rvars, Roused
  <2> QED BY <1>0, <2>1 DEF Awake
<1>3. CASE WriteCopy \/ WriteRaise
  <2>1. UNCHANGED <<rx_req, rpc, rloc, round, sent, nread>>
    BY <1>3 DEF WriteCopy, WriteRaise, rvars, tvars
  <2>2. Roused'
    BY <1>0, <1>3 DEF WriteCopy, WriteRaise, Roused
  <2> QED BY <1>0, <2>1, <2>2 DEF Awake
<1>4. CASE WritePublish
  <2>1. UNCHANGED <<rx_req, rpc, rloc, round, nread>> /\ Roused'
    BY <1>4 DEF WritePublish, rvars, Roused
  <2> QED BY <1>0, <2>1 DEF Awake
<1>5. CASE ThreadWakes
  <2>1. UNCHANGED <<rx_req, rpc, rloc, sent, nread>> /\ round = "off" /\ round' = "none"
    BY <1>5 DEF ThreadWakes, rvars
  <2> QED BY <1>0, <2>1 DEF Awake
<1>6. CASE ThreadSleeps
  <2>1. /\ UNCHANGED <<rx_req, rpc, rloc, sent, nread, irq, valid, wpc, tx_req>>
        /\ round = "done" /\ round' = "off"
    BY <1>6 DEF ThreadSleeps, rvars, wvars
  <2> QED BY <1>0, <2>1 DEF Awake, Roused
<1>7. CASE ReadCall
  <2>1. UNCHANGED <<rx_req, rloc, sent, nread>> /\ rpc = "idle"
    BY <1>7 DEF ReadCall
  <2>2. CASE ~valid
    <3>1. rpc' = "idle" /\ Roused'
      BY <1>0, <1>7, <2>1, <2>2 DEF ReadCall, EndRound, Roused
    <3> QED BY <1>0, <2>1, <3>1 DEF Awake
  <2>3. CASE valid
    <3>1. rpc' = "load" /\ round' = round /\ round \in {"none", "some"}
      BY <1>0, <1>7, <2>3 DEF ReadCall, tvars
    <3> QED BY <1>0, <2>1, <3>1 DEF Awake
  <2> QED BY <2>2, <2>3
<1>8. CASE ReadCheck
  <2>1. UNCHANGED <<sent, nread>> /\ rpc = "load"
    BY <1>8 DEF ReadCheck
  <2>2. CASE read_idx = write_idx
    <3>1. nread = Len(sent) /\ rx_req' = 1 /\ rpc' = "idle"
      BY <1>1, <1>8, <2>2, EmptyIsDone DEF ReadCheck
    <3> QED BY <1>0, <2>1, <3>1 DEF Awake
  <2>3. CASE read_idx # write_idx
    <3>1. /\ rpc' = "copy" /\ rx_req' = rx_req /\ round' = round
          /\ rloc'.seen = Len(sent)
      BY <1>8, <2>3 DEF ReadCheck, tvars
    <3> QED BY <1>0, <2>1, <3>1 DEF Awake
  <2> QED BY <2>2, <2>3
<1>9. CASE ReadCopy \/ ReadAdvance
  <2>1. /\ rx_req' = 1 /\ round' = round /\ rpc # "idle"
        /\ rpc' \in {"advance", "verdict"}
    BY <1>0, <1>1, <1>9 DEF ReadCopy, ReadAdvance, tvars
  <2> QED BY <1>0, <2>1 DEF Awake
<1>10. CASE ReadReturns
  <2>1. rx_req' = rx_req /\ round' = "some" /\ rpc' = "idle"
    BY <1>10 DEF ReadReturns
  <2> QED BY <1>0, <2>1 DEF Awake
<1>11. CASE ReadFails
  <2>1. rx_req' = rx_req /\ rpc' = "idle" /\ Roused'
    BY <1>11 DEF ReadFails, Refused, Roused
  <2> QED BY <1>0, <2>1 DEF Awake
<1>12. CASE ReadDiscard
  <2>1. /\ rx_req' = 1 /\ rpc' = "idle" /\ rpc = "copy" /\ nread' = rloc.seen
        /\ UNCHANGED <<sent, irq, wpc, tx_req, valid>>
    BY <1>1, <1>12 DEF ReadDiscard, EndRound, wvars
  <2> QED BY <1>0, <2>1 DEF Awake, Roused
<1>13. CASE OtherInterrupt \/ CoreFails
  <2>1. UNCHANGED <<rx_req, rpc, rloc, round, sent, nread>> /\ Roused'
    BY <1>13 DEF OtherInterrupt, CoreFails, rvars, Roused
  <2> QED BY <1>0, <2>1 DEF Awake
<1>14. CASE UNCHANGED vars
  BY <1>0, <1>14 DEF vars, svars, wvars, rvars, tvars, Awake, Roused
<1> QED BY <1>2, <1>3, <1>4, <1>5, <1>6, <1>7, <1>8, <1>9, <1>10, <1>11, <1>12,
           <1>13, <1>14 DEF Next, Writer, Reader

\* While a message is unread and the interrupt thread asleep, an interrupt is
\* there or will be, or the firmware was refused, or the core is not valid: for
\* every ring size and all packet lengths.
THEOREM SleepNeverMisses == Spec => []SleepMissesNothing
<1>1. Init => Awake
  <2> SUFFICES ASSUME Init, queue = "msg" PROVE Awake
    BY DEF Awake
  <2>1. rx_req = 1 /\ rpc = "idle" /\ nread = 0 /\ Len(sent) = 0
    BY DEF Init, ReceiveReq
  <2> QED BY <2>1 DEF Awake
<1>2. IInv /\ IInv' /\ Awake /\ [Next]_vars => Awake'
  BY AwakeKeeps
<1>3. Awake => SleepMissesNothing
  BY DEF Awake, Roused, SleepMissesNothing
<1> QED BY <1>1, <1>2, <1>3, Invariance, PTL DEF Spec

-----------------------------------------------------------------------------
(* Refinement: under the mapping of HfiQueue the queue implements the      *)
(* abstract FIFO channel of HfiChannel.                                    *)

\* Any sequence of packets consumed from its front.
LEMMA FlightIsSeq ==
  ASSUME NEW s \in Seq([len : Nat, at : Nat]), NEW n \in 0..Len(s)
  PROVE  /\ Flight(s, n) \in Seq([id : Nat, len : Nat])
         /\ Len(Flight(s, n)) = Len(s) - n
         /\ \A i \in 1..(Len(s) - n) :
               Flight(s, n)[i] = [id |-> n + i, len |-> s[n + i].len]
<1>1. Len(s) \in Nat /\ n \in Nat /\ Len(s) - n \in Nat
  BY SMT
<1>2. ASSUME NEW i \in 1..(Len(s) - n)
      PROVE  [id |-> n + i, len |-> s[n + i].len] \in [id : Nat, len : Nat]
  <2>1. n + i \in 1..Len(s) /\ n + i \in Nat
    BY <1>1, SMT
  <2>2. s[n + i] \in [len : Nat, at : Nat]
    BY <2>1, ElementOfSeq
  <2> QED BY <2>1, <2>2
<1>3. Flight(s, n) \in Seq([id : Nat, len : Nat])
  BY <1>1, <1>2, IsASeq DEF Flight
<1>4. DOMAIN Flight(s, n) = 1..(Len(s) - n)
  BY DEF Flight
<1>5. Len(Flight(s, n)) = Len(s) - n
  BY <1>1, <1>3, <1>4, LenProperties, SMT
<1> QED BY <1>3, <1>5 DEF Flight

\* Publishing a packet appends it to the channel.
LEMMA FlightAppend ==
  ASSUME NEW s \in Seq([len : Nat, at : Nat]), NEW n \in 0..Len(s),
         NEW p \in [len : Nat, at : Nat]
  PROVE  Flight(Append(s, p), n)
           = Append(Flight(s, n), [id |-> Len(s) + 1, len |-> p.len])
<1> DEFINE t == Append(s, p)
           c == Flight(s, n)
           q == [id |-> Len(s) + 1, len |-> p.len]
<1>1. /\ t \in Seq([len : Nat, at : Nat]) /\ Len(t) = Len(s) + 1
      /\ \A i \in 1..Len(s) : t[i] = s[i]
      /\ t[Len(s) + 1] = p
  BY AppendProperties
<1>2. Len(s) \in Nat /\ n \in Nat /\ n <= Len(s) /\ n \in 0..Len(t)
  BY <1>1, SMT
<1>3. /\ c \in Seq([id : Nat, len : Nat]) /\ Len(c) = Len(s) - n
      /\ \A i \in 1..(Len(s) - n) : c[i] = [id |-> n + i, len |-> s[n + i].len]
  BY FlightIsSeq
<1>4. /\ Flight(t, n) \in Seq([id : Nat, len : Nat])
      /\ Len(Flight(t, n)) = Len(t) - n
      /\ \A i \in 1..(Len(t) - n) : Flight(t, n)[i] = [id |-> n + i, len |-> t[n + i].len]
  BY <1>1, <1>2, FlightIsSeq
<1>5. /\ Append(c, q) \in Seq([id : Nat, len : Nat]) /\ Len(Append(c, q)) = Len(c) + 1
      /\ \A i \in 1..Len(c) : Append(c, q)[i] = c[i]
      /\ Append(c, q)[Len(c) + 1] = q
  <2>1. q \in [id : Nat, len : Nat]
    BY <1>2
  <2>2. c \in Seq([id : Nat, len : Nat])
    BY <1>3
  <2> HIDE DEF c, q
  <2> QED BY <2>1, <2>2, AppendProperties
<1>6. Len(Flight(t, n)) = Len(Append(c, q))
  <2>1. Len(t) - n = (Len(s) - n) + 1
    BY <1>1, <1>2
  <2> QED BY <2>1, <1>3, <1>4, <1>5
<1>7. ASSUME NEW i \in 1..(Len(t) - n)
      PROVE  Flight(t, n)[i] = Append(c, q)[i]
  <2>1. i \in 1..(Len(s) - n) \/ (i = Len(s) - n + 1 /\ n + i = Len(s) + 1)
    BY <1>1, <1>2, SMT
  <2>2. CASE i \in 1..(Len(s) - n)
    <3>1. n + i \in 1..Len(s)
      BY <2>2, <1>2, SMT
    <3>2. Flight(t, n)[i] = [id |-> n + i, len |-> s[n + i].len]
      BY <3>1, <1>1, <1>4
    <3>3. Append(c, q)[i] = c[i]
      BY <2>2, <1>3, <1>5
    <3>4. c[i] = [id |-> n + i, len |-> s[n + i].len]
      BY <2>2, <1>3
    <3> HIDE DEF c, q, t
    <3> QED BY <3>2, <3>3, <3>4
  <2>3. CASE i = Len(s) - n + 1 /\ n + i = Len(s) + 1
    <3>1. Flight(t, n)[i] = [id |-> n + i, len |-> t[n + i].len]
      BY <1>4
    <3>2. t[n + i].len = p.len /\ n + i = Len(s) + 1
      BY <2>3, <1>1
    <3>3. Append(c, q)[i] = q
      BY <2>3, <1>3, <1>5
    <3> HIDE DEF c, t
    <3> QED BY <3>1, <3>2, <3>3
  <2> QED BY <2>1, <2>2, <2>3
<1> HIDE DEF c, q, t
<1>8. Flight(t, n) = Append(c, q)
  BY <1>4, <1>5, <1>6, <1>7, SeqEqual
<1> QED BY <1>8 DEF c, q, t

\* Consuming k packets drops k packets from the front of the channel.
LEMMA FlightDrop ==
  ASSUME NEW s \in Seq([len : Nat, at : Nat]), NEW n \in 0..Len(s),
         NEW m \in n..Len(s)
  PROVE  Flight(s, m) = SubSeq(Flight(s, n), m - n + 1, Len(Flight(s, n)))
<1> DEFINE c == Flight(s, n)
           d == SubSeq(c, m - n + 1, Len(c))
<1>1. Len(s) \in Nat /\ n \in Nat /\ m \in Nat /\ n <= m /\ m <= Len(s) /\ m \in 0..Len(s)
  BY SMT
<1>2. /\ c \in Seq([id : Nat, len : Nat]) /\ Len(c) = Len(s) - n
      /\ \A i \in 1..(Len(s) - n) : c[i] = [id |-> n + i, len |-> s[n + i].len]
  BY FlightIsSeq
<1>3. /\ Flight(s, m) \in Seq([id : Nat, len : Nat]) /\ Len(Flight(s, m)) = Len(s) - m
      /\ \A i \in 1..(Len(s) - m) : Flight(s, m)[i] = [id |-> m + i, len |-> s[m + i].len]
  BY <1>1, FlightIsSeq
<1>4. /\ d \in Seq([id : Nat, len : Nat]) /\ Len(d) = Len(s) - m
      /\ \A i \in 1..(Len(s) - m) : d[i] = c[m - n + i]
  <2>1. m - n + 1 \in 1..(Len(c) + 1) /\ Len(c) \in (m - n + 1 - 1)..Len(c)
    BY <1>1, <1>2, SMT
  <2>2. \A i \in (m - n + 1)..Len(c) : c[i] \in [id : Nat, len : Nat]
    <3> SUFFICES ASSUME NEW i \in (m - n + 1)..Len(c) PROVE c[i] \in [id : Nat, len : Nat]
      OBVIOUS
    <3>1. i \in 1..Len(c)
      BY <2>1, <1>1, SMT
    <3> HIDE DEF c
    <3> QED BY <3>1, <1>2, ElementOfSeq
  <2>3. m - n + 1 \in Int /\ Len(c) \in Int
    BY <1>1, <1>2
  <2>4. /\ d \in Seq([id : Nat, len : Nat])
        /\ Len(d) = IF m - n + 1 <= Len(c) THEN Len(c) - (m - n + 1) + 1 ELSE 0
        /\ \A i \in 1..(Len(c) - (m - n + 1) + 1) : d[i] = c[(m - n + 1) + i - 1]
    <3> HIDE DEF c
    <3> QED BY <2>2, <2>3, SubSeqProperties
  <2>5. Len(c) - (m - n + 1) + 1 = Len(s) - m
    BY <1>1, <1>2
  <2>6. \A i \in 1..(Len(s) - m) : (m - n + 1) + i - 1 = m - n + i
    BY <1>1
  <2>7. (m - n + 1 <= Len(c)) \/ Len(s) - m = 0
    BY <1>1, <1>2
  <2> HIDE DEF c, d
  <2> QED BY <2>4, <2>5, <2>6, <2>7
<1>5. ASSUME NEW i \in 1..(Len(s) - m)
      PROVE  Flight(s, m)[i] = d[i]
  <2>1. m - n + i \in 1..(Len(s) - n) /\ n + (m - n + i) = m + i
    BY <1>1, SMT
  <2>2. c[m - n + i] = [id |-> m + i, len |-> s[m + i].len]
    BY <2>1, <1>2
  <2> QED BY <2>2, <1>3, <1>4
<1> HIDE DEF c, d
<1>6. Flight(s, m) = d
  BY <1>3, <1>4, <1>5, SeqEqual
<1> QED BY <1>6 DEF c, d

\* The packet whose fate is being decided is the oldest of the channel.
LEMMA InHand ==
  ASSUME IInv, rpc = "verdict"
  PROVE  /\ Settled = nread - 1
         /\ Flight(sent, Settled) # << >>
         /\ Head(Flight(sent, Settled)) = [id |-> nread, len |-> sent[nread].len]
         /\ Tail(Flight(sent, Settled)) = Flight(sent, nread)
         /\ nread \in Nat \ {0} /\ sent[nread].len \in Nat \ {0}
<1> DEFINE m == nread - 1
           c == Flight(sent, m)
<1>1. /\ sent \in Seq([len : Nat, at : Nat]) /\ nread \in 0..Len(sent)
      /\ Len(sent) \in Nat /\ nread # 0
  BY DEF IInv, TypeOK, ReaderInv
<1>2. /\ nread \in 1..Len(sent) /\ m \in 0..Len(sent) /\ nread \in m..Len(sent)
      /\ nread \in Nat \ {0} /\ nread - m + 1 = 2 /\ m + 1 = nread
      /\ 1 \in 1..(Len(sent) - m)
  BY <1>1, SMT
<1>3. /\ c \in Seq([id : Nat, len : Nat]) /\ Len(c) = Len(sent) - m
      /\ c[1] = [id |-> m + 1, len |-> sent[m + 1].len]
  BY <1>1, <1>2, FlightIsSeq
<1>4. Flight(sent, nread) = SubSeq(c, nread - m + 1, Len(c))
  BY <1>1, <1>2, FlightDrop
<1>5. Settled = m
  BY DEF Settled
<1>6. sent[nread].len \in Nat \ {0}
  <2>1. sent[nread].len > 0
    BY <1>2 DEF IInv, StreamInv
  <2>2. sent[nread] \in [len : Nat, at : Nat]
    BY <1>1, <1>2, ElementOfSeq
  <2> QED BY <2>1, <2>2, SMT
<1> HIDE DEF c, m
<1>7. c # << >>
  BY <1>2, <1>3, EmptySeq, SMT
<1>8. Head(c) = c[1] /\ Tail(c) = SubSeq(c, 2, Len(c))
  BY <1>3, <1>7, TailIsSubSeq
<1>9. Head(c) = [id |-> nread, len |-> sent[nread].len]
  BY <1>2, <1>3, <1>8
<1> QED BY <1>2, <1>4, <1>5, <1>6, <1>7, <1>8, <1>9 DEF c, m

\* What a read returns is decoded as the packet that was published.
LEMMA DecodesWhole ==
  ASSUME NEW n \in Nat, NEW l \in Nat \ {0}, got' = PacketWords(n, l)
  PROVE  Decoded' = [id |-> n, len |-> l]
<1>1. 1 \in 1..l /\ DOMAIN PacketWords(n, l) = 1..l
  BY DEF PacketWords
<1>2. PacketWords(n, l)[1] = [id |-> n, len |-> l, k |-> 1]
  BY <1>1 DEF PacketWords
<1>3. PacketWords(n, l) # << >>
  <2>1. DOMAIN << >> = {}
    OBVIOUS
  <2> QED BY <2>1, <1>1
<1> QED BY <1>2, <1>3 DEF Decoded

\* Every step of the queue is a step of the channel, or changes nothing of it.
LEMMA StepRefines == ASSUME IInv, IInv', [Next]_vars PROVE [Channel!Next]_(Channel!cvars)
<1> USE QueueAssumption DEF IInv
<1> DEFINE c == Flight(sent, nread)
<1>1. /\ sent \in Seq([len : Nat, at : Nat]) /\ nread \in 0..Len(sent)
      /\ Len(sent) \in Nat
      /\ c \in Seq([id : Nat, len : Nat]) /\ Len(c) = Len(sent) - nread
      /\ \A i \in 1..(Len(sent) - nread) :
            c[i] = [id |-> nread + i, len |-> sent[nread + i].len]
  <2>1. sent \in Seq([len : Nat, at : Nat]) /\ nread \in 0..Len(sent)
    BY Zenon DEF TypeOK
  <2>2. Len(sent) \in Nat
    BY <2>1, LenProperties
  <2> QED BY <2>1, <2>2, FlightIsSeq, Zenon
<1>0. queue' = queue
  BY DEF Next, vars
<1>2. ASSUME UNCHANGED <<sent, Settled, got, tx_req, told>>
      PROVE  UNCHANGED Channel!cvars
  BY <1>0, <1>2 DEF Channel!cvars, Flight, Decoded, PacketWords
<1>3. ASSUME NEW len \in PktLens, WriteCheck(len) \/ WriteRefused(len)
      PROVE  Channel!Ask
  <2>1. UNCHANGED <<sent, nread, rpc, got>>
    BY <1>3 DEF WriteCheck, WriteRefused, Asks, rvars
  <2>2. told' = IF tx_req' = 1 /\ queue = "cmd" THEN told + 1 ELSE told
    BY <1>3 DEF WriteCheck, WriteRefused
  <2> QED BY <2>1, <2>2 DEF Channel!Ask, Flight, Settled, Decoded, PacketWords
<1>4. ASSUME WriteCopy \/ WriteRaise \/ ThreadWakes \/ ThreadSleeps
                \/ OtherInterrupt \/ CoreFails
      PROVE  UNCHANGED Channel!cvars
  <2>1. UNCHANGED <<sent, nread, rpc, got, tx_req, told>>
    BY <1>4 DEF WriteCopy, WriteRaise, ThreadWakes, ThreadSleeps, OtherInterrupt,
                CoreFails, rvars, tvars
  <2> QED BY <2>1, <1>2 DEF Settled
<1>5. ASSUME WritePublish PROVE Channel!Send
  <2> DEFINE p == [len |-> wloc.len, at |-> WordsSent]
  <2>1. /\ sent' = Append(sent, p) /\ nread' = nread /\ got' = got
        /\ rpc' = rpc /\ tx_req' = tx_req /\ told' = told + 1
        /\ wloc.len \in PktLens /\ wloc.len \in Nat
    BY <1>5 DEF WritePublish, rvars, WriterInv, TypeOK
  <2>2. p \in [len : Nat, at : Nat]
    BY <2>1, WordsRange
  <2>3. Settled \in 0..Len(sent)
    <3>1. rpc = "verdict" => nread # 0
      BY DEF ReaderInv
    <3> QED BY <3>1, <1>1, SMT DEF Settled
  <2>4. Flight(sent', Settled')
          = Append(Flight(sent, Settled), [id |-> Len(sent) + 1, len |-> wloc.len])
    <3>1. Settled' = Settled
      BY <2>1 DEF Settled
    <3> QED BY <2>1, <2>2, <2>3, <3>1, <1>1, FlightAppend
  <2>5. Len(sent') = Len(sent) + 1
    BY <2>1, <2>2, <1>1, AppendProperties
  <2>6. Decoded' = Decoded
    BY <2>1 DEF Decoded, PacketWords
  <2> QED BY <2>1, <2>4, <2>5, <2>6 DEF Channel!Send
<1>6. ASSUME ReadCall \/ ReadCheck \/ ReadCopy PROVE UNCHANGED Channel!cvars
  <2>1. /\ UNCHANGED <<sent, nread, got, tx_req, told>>
        /\ rpc # "verdict" /\ rpc' # "verdict"
    BY <1>6 DEF ReadCall, ReadCheck, ReadCopy, EndRound, tvars
  <2> QED BY <2>1, <1>2 DEF Settled
<1>7. CASE ReadAdvance
  <2>1. /\ UNCHANGED <<sent, got, tx_req, told>> /\ nread' = nread + 1
        /\ rpc = "advance" /\ rpc' = "verdict"
    BY <1>7 DEF ReadAdvance, tvars
  <2>2. Settled' = Settled
    BY <2>1, <1>1, SMT DEF Settled
  <2> QED BY <2>1, <2>2, <1>2
<1>8. ASSUME ReadReturns \/ ReadFails PROVE Channel!Receive \/ Channel!Lose
  <2> DEFINE l == sent[nread].len
  <2>1. /\ UNCHANGED <<sent, nread, tx_req, told>> /\ rpc = "verdict" /\ rpc' = "idle"
    BY <1>8 DEF ReadReturns, ReadFails, EndRound
  <2>2. Settled' = nread /\ Flight(sent, nread)' = Flight(sent, nread)
    BY <2>1 DEF Settled, Flight
  <2>3. Flight(sent, Settled)' = Tail(Flight(sent, Settled))
    BY <2>1, <2>2, InHand DEF Flight
  <2>4. CASE ReadReturns
    <3>1. got' = PacketWords(nread, l) /\ l <= HugePkt
      BY <2>1, <2>4 DEF ReadReturns, ReaderInv
    <3>2. Decoded' = [id |-> nread, len |-> l]
      BY <3>1, <2>1, InHand, DecodesWhole
    <3> QED BY <2>1, <2>3, <3>1, <3>2, InHand DEF Channel!Receive
  <2>5. CASE ReadFails
    <3>1. queue # "cmd" /\ tx_req = 1 /\ got' = got
      BY <2>5 DEF ReadFails, Refused
    <3>2. Decoded' = Decoded
      BY <3>1 DEF Decoded, PacketWords
    <3> QED BY <2>1, <2>3, <3>1, <3>2, InHand DEF Channel!Lose
  <2> QED BY <1>8, <2>4, <2>5
<1>9. ASSUME ReadDiscard PROVE Channel!Discard
  <2> DEFINE k == rloc.seen - nread
  <2>1. /\ nread' = rloc.seen /\ sent' = sent /\ got' = got /\ PacketSize > HugePkt
        /\ rpc = "copy" /\ rpc' = "idle" /\ tx_req' = tx_req
        /\ told' = told /\ rloc.seen \in (nread + 1)..Len(sent)
        /\ Settled = nread /\ Settled' = nread'
    BY <1>9 DEF ReadDiscard, EndRound, ReaderInv, Settled
  <2>2. /\ k \in 1..Len(c) /\ rloc.seen \in nread..Len(sent)
        /\ 1 \in 1..(Len(sent) - nread) /\ Len(c) > 0
    <3>1. rloc.seen \in (nread + 1)..Len(sent) /\ nread \in Nat /\ Len(sent) \in Nat
          /\ Len(c) = Len(sent) - nread
      BY <2>1, <1>1
    <3> HIDE DEF c
    <3> QED BY <3>1, SMT
  <2>3. Flight(sent', Settled') = SubSeq(c, k + 1, Len(c))
    BY <2>1, <2>2, <1>1, FlightDrop
  <2>4. Head(c).len > HugePkt
    <3>1. c[1].len = sent[nread + 1].len
      <4>1. c[1] = [id |-> nread + 1, len |-> sent[nread + 1].len]
        BY <2>2, <1>1
      <4> HIDE DEF c
      <4> QED BY <4>1
    <3>2. c # << >>
      <4> HIDE DEF c
      <4> QED BY <2>2, <1>1, EmptySeq, SMT
    <3>3. Head(c) = c[1]
      BY <3>2, <1>1
    <3> QED BY <3>1, <3>3, <2>1, SizeWord
  <2>5. c # << >>
    <3> HIDE DEF c
    <3> QED BY <2>2, <1>1, EmptySeq, SMT
  <2>6. Decoded' = Decoded
    BY <2>1 DEF Decoded, PacketWords
  <2> QED BY <2>1, <2>2, <2>3, <2>4, <2>5, <2>6 DEF Channel!Discard
<1>10. CASE UNCHANGED vars
  BY <1>10, <1>2 DEF vars, svars, rvars, tvars, Settled
<1> QED BY <1>0, <1>3, <1>4, <1>5, <1>6, <1>7, <1>8, <1>9, <1>10
        DEF Next, Writer, Reader, Channel!Next

\* The queue of venus_hfi_queue.c implements the abstract FIFO channel.
THEOREM ImplementsChannel == Spec => IsChannel
<1>1. Init => Channel!Init
  <2> SUFFICES ASSUME Init PROVE Channel!Init
    OBVIOUS
  <2>1. /\ sent = << >> /\ nread = 0 /\ got = << >> /\ rpc = "idle" /\ tx_req = 0
        /\ told = 0 /\ Settled = nread
    BY DEF Init, Settled
  <2>2. Flight(sent, Settled) = << >>
    BY <2>1 DEF Flight
  <2>3. Decoded = [id |-> 0, len |-> 0] /\ Len(sent) = 0
    BY <2>1 DEF Decoded
  <2> QED BY <2>1, <2>2, <2>3 DEF Channel!Init, Channel!Nothing
<1>2. IInv /\ IInv' /\ [Next]_vars => [Channel!Next]_(Channel!cvars)
  BY StepRefines
<1> QED BY <1>1, <1>2, Invariance, PTL DEF Spec, IsChannel, Channel!Spec
=============================================================================
