----------------------------- MODULE Timestamps -----------------------------
(***************************************************************************)
(* The time stamps of a decoder session: msm_vidc_driver.c:2419-2642 and   *)
(* its callers in msm_vdec.c, msm_vidc_vb2.c and venus_hfi_response.c.     *)
(*                                                                         *)
(* ts_reorder holds the time stamps of the input buffers whose pictures    *)
(* are still to come, sorted; every picture takes the least of them, in    *)
(* place of the one the firmware copied from its input buffer.  timestamps *)
(* holds the last few of those the firmware sent, for the frame rate: the  *)
(* oldest goes out by its rank, the order is that of the values.           *)
(***************************************************************************)
EXTENDS Naturals, Sequences, FiniteSets, SequencesExt

CONSTANTS
  Time,           \* presentation times, positive numbers
  Window,         \* DEC_FPS_WINDOW
  IntMax,         \* INT_MAX, where msm_vidc_get_least_rank_ts begins
  MaxInFlight,    \* bound on the buffers with the driver and the firmware
  MaxQueued       \* bound on the numbers a client gives in a stream

ASSUME TimeAssumption == Time \subseteq Nat \ {0}
ASSUME WindowAssumption == Window \in Nat \ {0} /\ IntMax \in Nat
ASSUME BoundAssumption == MaxInFlight \in Nat /\ MaxQueued \in Nat \ {0}

VARIABLES
  stamps,         \* what the client stamps its buffers with
  port,           \* the input port
  kept,           \* buffers queued before the port streams
  ts_reorder,     \* ts_reorder.list
  timestamps,     \* timestamps.list
  rank,           \* timestamps.rank
  inputs,         \* input buffers the firmware has not decoded, in order
  pictures,       \* decoded and not yet output
  msgs,           \* from the firmware
  queued,         \* ghost: buffers the client has numbered in this stream
  passed,         \* ghost: the time of the last picture of the firmware
  shown,          \* ghost: the last picture given to the client
  recent          \* ghost: the last Window stamps of the firmware

vars == <<stamps, port, kept, ts_reorder, timestamps, rank, inputs, pictures,
          msgs, queued, passed, shown, recent>>

\* An input buffer: its stamp, the time of its picture, and whether it is
\* only a part of it (a slice, a field), which the last one completes.
Frame == [ts : Nat, pts : Time, part : BOOLEAN]
Message == [type : {"no_output", "picture"}, f : Frame] \cup [type : {"stop_done"}]
None == [ts |-> 0, pts |-> 0]

Init ==
  /\ stamps \in {"presentation", "decoding"}
  /\ port = "off"
  /\ kept = << >> /\ ts_reorder = << >> /\ timestamps = << >> /\ rank = 0
  /\ inputs = << >> /\ pictures = {} /\ msgs = << >>
  /\ queued = 0 /\ passed = 0 /\ shown = None /\ recent = << >>

-----------------------------------------------------------------------------
(* The lists.                                                              *)

\* msm_vidc_insert_sort: before the first entry, or between two, or last.
InsertSort(s, e) ==
  LET between == {k \in 2 .. Len(s) : s[k - 1].val <= e.val /\ e.val <= s[k].val}
      at == IF s = << >> \/ e.val < s[1].val THEN 1
            ELSE IF between # {} THEN Min(between) ELSE Len(s) + 1
  IN  InsertAt(s, at, e)

\* msm_vidc_ts_reorder_insert_timestamp for each buffer of fs.
Insert(s, fs) == FoldLeft(LAMBDA acc, f : InsertSort(acc, [val |-> f.ts]), s, fs)

\* msm_vidc_ts_reorder_remove_timestamp: the first that matches.
RemoveTimestamp(s, ts) ==
  LET at == {k \in 1 .. Len(s) : s[k].val = ts}
  IN  IF at = {} THEN s ELSE RemoveAt(s, Min(at))

\* Mutant: the entry with the least value goes.
LeastValue(s) == IF s = << >> THEN {} ELSE {1}

\* msm_vidc_get_least_rank_ts: where it is, if any.
LeastRank(s) ==
  {k \in 1 .. Len(s) : s[k].rank < IntMax /\ \A l \in 1 .. Len(s) : s[k].rank <= s[l].rank}

\* msm_vidc_update_timestamp_rate; without an entry of least rank it fails
\* and the list keeps growing.
Slide(s, ts) ==
  LET t == InsertSort(s, [val |-> ts, rank |-> rank])
      least == LeastRank(t)
  IN  IF Len(t) <= Window \/ least = {} THEN t ELSE RemoveAt(t, Min(least))

-----------------------------------------------------------------------------
(* The client.                                                             *)

InFlight == Len(kept) + Len(inputs) + Cardinality(pictures) + Len(msgs)
WholeTimes == {f.pts : f \in {g \in Range(kept) \cup Range(inputs) \cup pictures : ~g.part}}

\* The next buffer of a stream a decoder can present in order: its picture
\* is not behind one that was output, and not complete already.
NextFrames ==
  {f \in [ts : {IF stamps = "presentation" THEN p ELSE queued + 1 : p \in Time},
          pts : Time, part : BOOLEAN] :
     /\ stamps = "presentation" => f.ts = f.pts
     /\ f.part => stamps = "presentation"
     /\ f.pts > passed /\ queued < MaxQueued
     /\ f.pts \notin WholeTimes}

Count == IF stamps = "decoding" THEN queued + 1 ELSE queued

\* Before streamon the buffers are kept and deferred.
QBufKeeps(f) ==
  /\ port = "off" /\ f \in NextFrames /\ InFlight < MaxInFlight
  /\ kept' = Append(kept, f)
  /\ queued' = Count
  /\ UNCHANGED <<stamps, port, ts_reorder, timestamps, rank, inputs, pictures, msgs,
                 passed, shown, recent>>

\* msm_vidc_queue_buffer of an input buffer.
QBuf(f) ==
  /\ port = "on" /\ f \in NextFrames /\ InFlight < MaxInFlight
  /\ inputs' = Append(inputs, f)
  /\ ts_reorder' = Insert(ts_reorder, <<f>>)
  /\ queued' = Count
  /\ UNCHANGED <<stamps, port, kept, timestamps, rank, pictures, msgs, passed, shown,
                 recent>>

\* Mutant: what an earlier stream left behind stays listed.
StreamOnKeeps ==
  /\ port = "off"
  /\ port' = "on"
  /\ timestamps' = << >> /\ rank' = 0 /\ recent' = << >>
  /\ ts_reorder' = Insert(ts_reorder, kept)
  /\ inputs' = kept /\ kept' = << >>
  /\ UNCHANGED <<stamps, pictures, msgs, queued, passed, shown>>

\* msm_vdec_streamon_input: the lists are flushed before the buffers that
\* were deferred are queued.
StreamOn ==
  /\ port = "off"
  /\ port' = "on"
  /\ timestamps' = << >> /\ rank' = 0 /\ recent' = << >>
  /\ ts_reorder' = Insert(<< >>, kept)
  /\ inputs' = kept /\ kept' = << >>
  /\ UNCHANGED <<stamps, pictures, msgs, queued, passed, shown>>

\* msm_vdec_streamoff_input up to its wait: pictures still arrive.
StreamOff ==
  /\ port = "on"
  /\ port' = "stopping"
  /\ UNCHANGED <<stamps, kept, ts_reorder, timestamps, rank, inputs, pictures, msgs,
                 queued, passed, shown, recent>>

-----------------------------------------------------------------------------
(* The interrupt thread.                                                   *)

\* handle_input_buffer, of a buffer without a picture of its own.
HandleNoOutput ==
  /\ msgs # << >> /\ Head(msgs).type = "no_output"
  /\ ts_reorder' = RemoveTimestamp(ts_reorder, Head(msgs).f.ts)
  /\ msgs' = Tail(msgs)
  /\ UNCHANGED <<stamps, port, kept, timestamps, rank, inputs, pictures, queued, passed,
                 shown, recent>>

LastOf(s) == IF Len(s) <= Window THEN s ELSE Tail(s)

\* handle_output_buffer: the rate goes by the stamp of the firmware, the
\* client gets the least one listed, if there is one.
HandlePicture ==
  /\ msgs # << >> /\ Head(msgs).type = "picture"
  /\ LET f == Head(msgs).f
     IN  /\ timestamps' = Slide(timestamps, f.ts)
         /\ rank' = rank + 1
         /\ recent' = LastOf(Append(recent, f.ts))
         /\ IF ts_reorder = << >>
            THEN /\ shown' = [ts |-> f.ts, pts |-> f.pts]
                 /\ UNCHANGED ts_reorder
            ELSE /\ shown' = [ts |-> Head(ts_reorder).val, pts |-> f.pts]
                 /\ ts_reorder' = Tail(ts_reorder)
  /\ msgs' = Tail(msgs)
  /\ UNCHANGED <<stamps, port, kept, inputs, pictures, queued, passed>>

\* The streamoff goes on; msm_vidc_stop_streaming flushes the rate's list
\* but not ts_reorder.  The client's next stream starts anywhere.
HandleStopDone ==
  /\ msgs # << >> /\ Head(msgs).type = "stop_done"
  /\ port' = "off"
  /\ timestamps' = << >> /\ rank' = 0 /\ recent' = << >>
  /\ queued' = 0 /\ passed' = 0 /\ shown' = None
  /\ msgs' = Tail(msgs)
  /\ UNCHANGED <<stamps, kept, ts_reorder, inputs, pictures>>

-----------------------------------------------------------------------------
(* The firmware, as the driver expects it.                                 *)

\* A buffer is decoded, or dropped; dropped and partial ones are flagged
\* HFI_PROP_NO_OUTPUT when they are returned.
FwDecodes ==
  /\ inputs # << >>
  /\ \E drop \in {Head(inputs).part, TRUE} :
       IF drop
       THEN /\ msgs' = Append(msgs, [type |-> "no_output", f |-> Head(inputs)])
            /\ UNCHANGED pictures
       ELSE /\ pictures' = pictures \cup {Head(inputs)}
            /\ UNCHANGED msgs
  /\ inputs' = Tail(inputs)
  /\ UNCHANGED <<stamps, port, kept, ts_reorder, timestamps, rank, queued, passed, shown,
                 recent>>

\* Pictures come in the order of presentation.
FwOutputs(f) ==
  /\ f \in pictures
  /\ \A g \in pictures \cup Range(inputs) : f.pts <= g.pts
  /\ pictures' = pictures \ {f}
  /\ passed' = f.pts
  /\ msgs' = Append(msgs, [type |-> "picture", f |-> f])
  /\ UNCHANGED <<stamps, port, kept, ts_reorder, timestamps, rank, inputs, queued, shown,
                 recent>>

\* A stop discards what has not been output.
FwStops ==
  /\ port = "stopping"
  /\ \A k \in 1 .. Len(msgs) : msgs[k].type # "stop_done"
  /\ inputs' = << >> /\ pictures' = {}
  /\ msgs' = Append(msgs, [type |-> "stop_done"])
  /\ UNCHANGED <<stamps, port, kept, ts_reorder, timestamps, rank, queued, passed, shown,
                 recent>>

-----------------------------------------------------------------------------
Client == \/ \E f \in NextFrames : QBufKeeps(f) \/ QBuf(f)
          \/ StreamOn \/ StreamOff
Thread == HandleNoOutput \/ HandlePicture \/ HandleStopDone
Firmware == FwDecodes \/ (\E f \in pictures : FwOutputs(f)) \/ FwStops

Next == Client \/ Thread \/ Firmware

Spec == Init /\ [][Next]_vars

-----------------------------------------------------------------------------
(* Properties.                                                             *)

TypeOK ==
  /\ stamps \in {"presentation", "decoding"}
  /\ port \in {"off", "on", "stopping"}
  /\ kept \in Seq(Frame) /\ inputs \in Seq(Frame) /\ pictures \subseteq Frame
  /\ ts_reorder \in Seq([val : Nat])
  /\ timestamps \in Seq([val : Nat, rank : Nat])
  /\ rank \in Nat /\ queued \in Nat /\ passed \in Nat
  /\ msgs \in Seq(Message)
  /\ shown \in [ts : Nat, pts : Nat] /\ recent \in Seq(Nat)

\* Every picture of a stream gets the stamp of its own buffer from a client
\* that stamps its buffers with the time of their pictures, and stamps that
\* only ever grow from a client that numbers its buffers as they are decoded,
\* whatever was dropped, came in parts, or was left over by a stream before
\* (venus_hfi_response.c:1225, :860, msm_vdec.c:1688).
PicturesKeepTime ==
  [][shown' \notin {shown, None} =>
       /\ shown'.ts > shown.ts
       /\ stamps = "presentation" => shown'.ts = shown'.pts]_vars

\* The list the frame rate is measured on holds exactly the last stamps of
\* the firmware, sorted, until the ranks have passed INT_MAX: from then on
\* it cannot lose an entry (msm_vidc_driver.c:2468).
WindowIsRecent ==
  rank <= IntMax + Window =>
    /\ Len(timestamps) = Len(recent)
    /\ {timestamps[k].val : k \in 1 .. Len(timestamps)} = Range(recent)
    /\ \A k \in 2 .. Len(timestamps) : timestamps[k - 1].val <= timestamps[k].val
=============================================================================
