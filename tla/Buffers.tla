------------------------------ MODULE Buffers ------------------------------
(***************************************************************************)
(* The output buffers of a decoder session: msm_vidc_driver.c, msm_vdec.c, *)
(* msm_vidc_vb2.c and venus_hfi_response.c.                                *)
(*                                                                         *)
(* A dmabuf that the client queues at an index is deferred, sent to the    *)
(* firmware (FTB) and returned with a frame in it.  The firmware may go on *)
(* reading a returned buffer (the READ_ONLY flag): an entry of the list    *)
(* buffers.read_only then keeps the reference and the mapping while the    *)
(* client reuses the index for something else, and must give them up once  *)
(* the firmware has let the buffer go, which it tells in one of two ways:  *)
(* by returning it again without the flag, or by a list of the buffers it  *)
(* still holds (HFI_PROP_DPB_LIST), on which the driver sends releases.    *)
(***************************************************************************)
EXTENDS Naturals, Sequences, FiniteSets

CONSTANTS
  Index,          \* the vb2 buffers of the output port
  Dma,            \* the dmabufs of the client
  NoDma,          \* no dmabuf is attached
  BatchSize,      \* decode_batch.size
  MaxDpb,         \* MAX_DPB_COUNT
  MinCount,       \* buffers.output.min_count
  Events          \* the races taken into account, a subset of AllEvents

\* late_batch: the batch work runs while a streamoff waits for its answer.
\* partial_requeue: the client streams on again without all the buffers that
\* were deferred when it streamed off.
\* crossing: a buffer is queued again while the firmware returns it for the
\* second time.
AllEvents == {"late_batch", "partial_requeue", "crossing"}

ASSUME EventsAssumption == Events \subseteq AllEvents
ASSUME SizesAssumption ==
  /\ BatchSize \in Nat \ {0} /\ MaxDpb \in Nat /\ MinCount \in Nat
  /\ NoDma \notin Dma

VARIABLES
  drv,            \* buffers.output, buffers.read_only and dmabuf_tracker
  vb2,            \* who has each vb2 buffer
  port,           \* the output port and its streamoff
  batch,          \* decode_batch and its delayed work
  dpb,            \* dpb_list_payload, and the port it is subscribed on
  cmds, msgs,     \* packets to and from the firmware
  fw,             \* what the firmware holds
  failed          \* why the session went to ERROR

vars == <<drv, vb2, port, batch, dpb, cmds, msgs, fw, failed>>

Attributes == {"DEFERRED", "QUEUED", "BUFFER_DONE", "READ_ONLY"}
RoAttributes == {"READ_ONLY", "PENDING_RELEASE", "RELEASE_ELIGIBLE"}

\* struct msm_vidc_buffer on buffers.output.list: ref is dbuf_get, map is the
\* pair attach and sg_table.
Buffer == [attr : SUBSET Attributes, dma : Dma \cup {NoDma}, ref : BOOLEAN,
           map : BOOLEAN]
FreshBuffer == [attr |-> {}, dma |-> NoDma, ref |-> FALSE, map |-> FALSE]

\* The entry of buffers.read_only.list for a dmabuf, if it is listed.
RoEntry == [listed : BOOLEAN, attr : SUBSET RoAttributes, ref : BOOLEAN,
            map : BOOLEAN]
NoEntry == [listed |-> FALSE, attr |-> {}, ref |-> FALSE, map |-> FALSE]

Ftb == [i : Index, d : Dma, ro : BOOLEAN]
Command == [type : {"start", "stop"}] \cup [type : {"ftb"}, bufs : SUBSET Ftb]
             \cup [type : {"release"}, bufs : SUBSET Dma]

\* A frame carries the list of what the firmware still holds, in list modes.
\* again marks the second return of a buffer; the driver is not told.
Frame == [type : {"frame"}, i : Index, d : Dma, ro : BOOLEAN,
          list : SUBSET Dma, again : BOOLEAN]
Message == [type : {"stop_done"}] \cup [type : {"release_done"}, bufs : SUBSET Dma]
             \cup Frame

Drv == [buf : [Index -> Buffer], ro : [Dma -> RoEntry], tracker : [Dma -> Nat]]

TypeOK ==
  /\ drv \in Drv
  /\ vb2 \in [Index -> {"client", "prepared", "driver"}]
  /\ port \in {"off", "on", "stopping", "stopped", "closed"}
  /\ batch \in [enable : BOOLEAN, timer : BOOLEAN, running : BOOLEAN]
  /\ dpb \in [mode : {"none", "input", "output"}, list : SUBSET Dma]
  /\ cmds \in Seq(Command)
  /\ msgs \in Seq(Message)
  /\ fw \in [on : BOOLEAN, queued : SUBSET (Index \X Dma),
             refs : SUBSET (Index \X Dma)]
  /\ failed \in {"no", "stop", "release"}

Init ==
  /\ drv = [buf |-> [i \in Index |-> FreshBuffer],
            ro |-> [d \in Dma |-> NoEntry], tracker |-> [d \in Dma |-> 0]]
  /\ vb2 = [i \in Index |-> "client"]
  /\ port = "off"
  /\ batch \in [enable : BOOLEAN, timer : {FALSE}, running : {FALSE}]
  /\ dpb \in [mode : {"none", "input", "output"}, list : {{}}]
  /\ cmds = << >> /\ msgs = << >>
  /\ fw = [on |-> FALSE, queued |-> {}, refs |-> {}]
  /\ failed = "no"

-----------------------------------------------------------------------------
(* What the handlers do to the lists of the driver, s \in Drv.             *)

Has(s, i, a) == a \in s.buf[i].attr
RoHas(s, d, a) == a \in s.ro[d].attr
Deferred(s) == {i \in Index : Has(s, i, "DEFERRED")}

\* dma_buf_put of every dmabuf of D.
Put(t, D) == [d \in Dma |-> IF d \in D THEN t[d] - 1 ELSE t[d]]

\* Mutant: the mapping is not left to the read-only entry.
UnmapForgets(s, i) == [s EXCEPT !.buf[i].map = FALSE, !.buf[i].dma = NoDma]

\* vb2 has a new dmabuf for the index: msm_vb2_unmap_dmabuf and
\* msm_vb2_detach_dmabuf leave the mapping of the old one to its read-only
\* entry; msm_vb2_attach_dmabuf and msm_vb2_map_dmabuf take it back.
Unmap(s, i) ==
  LET old == s.buf[i].dma
  IN  [s EXCEPT !.buf[i] = [@ EXCEPT !.map = FALSE, !.dma = NoDma],
                !.ro = [d \in Dma |-> IF d = old /\ s.ro[d].listed
                                      THEN [s.ro[d] EXCEPT !.map = s.buf[i].map]
                                      ELSE s.ro[d]]]

Map(s, i, d) ==
  [s EXCEPT !.buf[i] = [@ EXCEPT !.dma = d,
                                 !.map = s.ro[d].listed => s.ro[d].map],
            !.ro[d] = [@ EXCEPT !.map = FALSE]]

Prepare(s, i, d) == IF s.buf[i].dma = d THEN s ELSE Map(Unmap(s, i), i, d)

\* Mutant: the attributes of the last time are not reset.
GetDriverBufsDirty(s, B) ==
  LET new == {s.buf[i].dma : i \in {j \in B : ~s.buf[j].ref}}
  IN  [s EXCEPT
        !.buf = [i \in Index |-> IF i \in B
                   THEN [s.buf[i] EXCEPT !.attr = @ \cup {"DEFERRED"}, !.ref = TRUE]
                   ELSE s.buf[i]],
        !.tracker = [d \in Dma |-> s.tracker[d] + IF d \in new THEN 1 ELSE 0]]

\* msm_vidc_get_driver_buf: every buffer is deferred first, and referenced.
GetDriverBufs(s, B) ==
  LET new == {s.buf[i].dma : i \in {j \in B : ~s.buf[j].ref}}
  IN  [s EXCEPT
        !.buf = [i \in Index |-> IF i \in B
                                 THEN [s.buf[i] EXCEPT !.attr = {"DEFERRED"}, !.ref = TRUE]
                                 ELSE s.buf[i]],
        !.tracker = [d \in Dma |-> s.tracker[d] + IF d \in new THEN 1 ELSE 0]]

\* The flag a buffer goes to the firmware with.
StillRead(s, i) ==
  LET d == s.buf[i].dma
  IN  d # NoDma /\ RoHas(s, d, "READ_ONLY") /\ ~RoHas(s, d, "PENDING_RELEASE")

\* Entries of D go off the list, with their mapping and their reference.
Unlist(s, D) ==
  [s EXCEPT !.ro = [d \in Dma |-> IF d \in D THEN NoEntry ELSE s.ro[d]],
            !.tracker = Put(s.tracker, {d \in D : s.ro[d].ref})]

NotRead(s) == {d \in Dma : s.ro[d].listed /\ ~RoHas(s, d, "READ_ONLY")}

\* msm_vidc_process_readonly_buffers and msm_vidc_queue_buffer for each
\* buffer of B.
Queue(s, B) ==
  LET gone == IF B = {} THEN {}
              ELSE NotRead(s) \cup {s.buf[i].dma : i \in {j \in B : StillRead(s, j)}}
      sent == [i \in Index |->
                 IF i \notin B THEN s.buf[i]
                 ELSE [s.buf[i] EXCEPT !.attr =
                         (@ \ {"DEFERRED"}) \cup {"QUEUED"}
                           \cup IF StillRead(s, i) THEN {"READ_ONLY"} ELSE {}]]
  IN  Unlist([s EXCEPT !.buf = sent], gone)

Ftbs(s, B) ==
  IF B = {} THEN << >>
  ELSE << [type |-> "ftb",
           bufs |-> {[i |-> i, d |-> s.buf[i].dma, ro |-> StillRead(s, i)] : i \in B}] >>

\* Entries whose release msm_vdec_release_eligible_buffers sends, and those
\* of msm_vdec_release_nonref_buffers.
Eligible(s) ==
  {d \in Dma : RoHas(s, d, "RELEASE_ELIGIBLE") /\ ~RoHas(s, d, "PENDING_RELEASE")}

\* Mutant: a release that is pending is sent again.
NonrefAgain(s) ==
  LET held == {d \in Dma : RoHas(s, d, "READ_ONLY")}
      nonref == held \ dpb.list
  IN  IF Cardinality(held) > MaxDpb /\ Cardinality(nonref) > MinCount THEN nonref ELSE {}

Nonref(s) ==
  LET held == {d \in Dma : RoHas(s, d, "READ_ONLY") /\ ~RoHas(s, d, "PENDING_RELEASE")}
      nonref == held \ dpb.list
  IN  IF Cardinality(held) > MaxDpb /\ Cardinality(nonref) > MinCount THEN nonref ELSE {}

ToRelease(s) ==
  CASE dpb.mode = "input" -> Eligible(s)
    [] dpb.mode = "output" -> Nonref(s)
    [] OTHER -> {}

Release(s, D) ==
  [s EXCEPT !.ro = [d \in Dma |->
     IF d \notin D THEN s.ro[d]
     ELSE [s.ro[d] EXCEPT !.attr = (@ \cup {"PENDING_RELEASE"})
             \ IF dpb.mode = "input" THEN {"RELEASE_ELIGIBLE"} ELSE {}]]]

Releases(D) == IF D = {} THEN << >> ELSE << [type |-> "release", bufs |-> D] >>

\* A buffer handler that queues B to the firmware and then releases.
QueueAndRelease(s, B) ==
  LET q == Queue(s, B)
      D == ToRelease(q)
  IN  /\ drv' = Release(q, D)
      /\ cmds' = cmds \o Ftbs(s, B) \o Releases(D)

-----------------------------------------------------------------------------
(* The client: ioctls of the output port.                                  *)

Live == failed = "no" /\ port \in {"off", "on"}

Second(m, d) == m.type = "frame" /\ m.again /\ m.d = d
InFlightAgain(d) == \E k \in 1 .. Len(msgs) : Second(msgs[k], d)

\* The client queues a dmabuf it owns, at an index it owns; a dmabuf is
\* attached at one index at a time.
MayQueue(i, d) ==
  /\ Live
  /\ vb2[i] = "client"
  /\ \A j \in Index \ {i} : drv.buf[j].dma # d
  /\ InFlightAgain(d) => "crossing" \in Events

\* Before streamon vb2 keeps the buffer and only attaches and maps it.
QBufPrepares(i, d) ==
  /\ MayQueue(i, d)
  /\ port = "off"
  /\ drv' = Prepare(drv, i, d)
  /\ vb2' = [vb2 EXCEPT ![i] = "prepared"]
  /\ UNCHANGED <<port, batch, dpb, cmds, msgs, fw, failed>>

\* msm_vdec_qbuf with batching off.
QBufSingle(i, d) ==
  /\ MayQueue(i, d)
  /\ port = "on" /\ ~batch.enable
  /\ QueueAndRelease(GetDriverBufs(Prepare(drv, i, d), {i}), {i})
  /\ vb2' = [vb2 EXCEPT ![i] = "driver"]
  /\ UNCHANGED <<port, batch, dpb, msgs, fw, failed>>

\* msm_vdec_qbuf_batch: a small number of buffers waits for more, or for the
\* batch work.
QBufDefers(i, d) ==
  LET s == GetDriverBufs(Prepare(drv, i, d), {i})
  IN  /\ MayQueue(i, d)
      /\ port = "on" /\ batch.enable
      /\ Cardinality(Deferred(s)) < BatchSize
      /\ batch' = [batch EXCEPT !.timer = TRUE]
      /\ QueueAndRelease(s, {})
      /\ vb2' = [vb2 EXCEPT ![i] = "driver"]
      /\ UNCHANGED <<port, dpb, msgs, fw, failed>>

\* Mutant: the deferred buffers are left to the work that was cancelled.
QBufBatchAlone(i, d, early) ==
  LET s == GetDriverBufs(Prepare(drv, i, d), {i})
  IN  /\ MayQueue(i, d)
      /\ port = "on" /\ batch.enable
      /\ early \/ Cardinality(Deferred(s)) >= BatchSize
      /\ batch' = [batch EXCEPT !.timer = FALSE]
      /\ QueueAndRelease(s, {i})
      /\ vb2' = [vb2 EXCEPT ![i] = "driver"]
      /\ UNCHANGED <<port, dpb, msgs, fw, failed>>

\* The batch is full, or is not waited for after a streamon (early:
\* power.buffer_counter <= SKIP_BATCH_WINDOW).
QBufBatch(i, d, early) ==
  LET s == GetDriverBufs(Prepare(drv, i, d), {i})
  IN  /\ MayQueue(i, d)
      /\ port = "on" /\ batch.enable
      /\ early \/ Cardinality(Deferred(s)) >= BatchSize
      /\ batch' = [batch EXCEPT !.timer = FALSE]
      /\ QueueAndRelease(s, Deferred(s))
      /\ vb2' = [vb2 EXCEPT ![i] = "driver"]
      /\ UNCHANGED <<port, dpb, msgs, fw, failed>>

\* msm_vidc_allow_decode_batch never turns batching on again.
Retune(b) == {[b EXCEPT !.enable = e] : e \in {b.enable, FALSE}}

\* vb2 passes on what it keeps, and msm_vidc_start_streaming queues all that
\* is deferred.
StreamOn ==
  LET kept == {i \in Index : vb2[i] = "prepared"}
      s == GetDriverBufs(drv, kept)
  IN  /\ Live /\ port = "off"
      /\ (\E i \in Deferred(drv) : vb2[i] = "client") => "partial_requeue" \in Events
      /\ port' = "on"
      /\ vb2' = [i \in Index |-> IF i \in kept THEN "driver" ELSE vb2[i]]
      /\ batch' \in Retune(batch)
      /\ drv' = Queue(s, Deferred(s))
      /\ cmds' = Append(cmds, [type |-> "start"]) \o Ftbs(s, Deferred(s))
      /\ UNCHANGED <<dpb, msgs, fw, failed>>

\* msm_vdec_start_cmd.
StartCmd ==
  /\ Live /\ port = "on"
  /\ batch' \in Retune(batch)
  /\ drv' = Queue(drv, Deferred(drv))
  /\ cmds' = cmds \o Ftbs(drv, Deferred(drv))
  /\ UNCHANGED <<vb2, port, dpb, msgs, fw, failed>>

\* REQBUFS(0) on a stopped port: vb2 detaches every dmabuf.
ReqBufs0 ==
  LET all == {drv.buf[i].dma : i \in Index}
  IN  /\ Live /\ port = "off"
      /\ vb2' = [i \in Index |-> "client"]
      /\ drv' = [drv EXCEPT
                  !.buf = [i \in Index |-> [drv.buf[i] EXCEPT !.dma = NoDma, !.map = FALSE]],
                  !.ro = [d \in Dma |-> IF d \in all /\ drv.ro[d].listed
                            THEN [drv.ro[d] EXCEPT !.map =
                                    \E i \in Index : drv.buf[i].dma = d /\ drv.buf[i].map]
                            ELSE drv.ro[d]]]
      /\ UNCHANGED <<port, batch, dpb, cmds, msgs, fw, failed>>

\* msm_vdec_streamoff_output up to the wait, which lets inst->lock go.
StreamOff ==
  /\ Live /\ port = "on"
  /\ batch' = [batch EXCEPT !.timer = FALSE]
  /\ port' = "stopping"
  /\ cmds' = Append(cmds, [type |-> "stop"])
  /\ UNCHANGED <<drv, vb2, dpb, msgs, fw, failed>>

\* msm_vidc_flush_buffers and msm_vidc_flush_read_only_buffers.
Flush(s) ==
  LET flushed == {i \in Index : s.buf[i].attr \cap {"QUEUED", "DEFERRED"} # {}
                                  /\ ~Has(s, i, "BUFFER_DONE")}
      put == {s.buf[i].dma : i \in {j \in flushed : s.buf[j].ref}}
      t == [s EXCEPT !.buf = [i \in Index |-> IF i \in flushed
                                              THEN [s.buf[i] EXCEPT !.ref = FALSE]
                                              ELSE s.buf[i]],
                     !.tracker = Put(s.tracker, put)]
  IN  Unlist(t, NotRead(t))

\* The rest of msm_vidc_session_streamoff; vb2 then has every buffer back.
\* Queued buffers that remain are taken for a failure of the firmware.
StreamOffEnds ==
  /\ port = "stopped" /\ failed = "no"
  /\ failed' = IF \E i \in Index : Has(drv, i, "QUEUED") THEN "stop" ELSE "no"
  /\ port' = "off"
  /\ drv' = Flush(drv)
  /\ vb2' = [i \in Index |-> "client"]
  /\ UNCHANGED <<batch, dpb, cmds, msgs, fw>>

\* msm_vidc_close: the session of the firmware is closed, vb2 detaches, and
\* msm_vidc_destroy_buffers gives up what the lists still hold.
Close ==
  /\ failed # "no" \/ port \in {"off", "on"}
  /\ port # "closed"
  /\ port' = "closed"
  /\ drv' = [buf |-> [i \in Index |-> FreshBuffer], ro |-> [d \in Dma |-> NoEntry],
             tracker |-> [d \in Dma |-> drv.tracker[d]
                - Cardinality({i \in Index : drv.buf[i].ref /\ drv.buf[i].dma = d})
                - IF drv.ro[d].ref THEN 1 ELSE 0]]
  /\ vb2' = [i \in Index |-> "client"]
  /\ batch' = [batch EXCEPT !.timer = FALSE]
  /\ fw' = [on |-> FALSE, queued |-> {}, refs |-> {}]
  /\ cmds' = << >> /\ msgs' = << >>
  /\ UNCHANGED <<dpb, failed>>

-----------------------------------------------------------------------------
(* The batch work.                                                         *)

\* The timer fires; the work has yet to get inst->lock, and a cancel that is
\* not _sync comes too late for it.
BatchStarts ==
  /\ batch.timer /\ ~batch.running
  /\ batch' = [batch EXCEPT !.timer = FALSE, !.running = TRUE]
  /\ UNCHANGED <<drv, vb2, port, dpb, cmds, msgs, fw, failed>>

\* msm_vidc_batch_handler: the state is still STREAMING while a streamoff
\* waits.
BatchRuns ==
  /\ batch.running
  /\ port \in {"stopping", "stopped"} /\ Deferred(drv) # {} => "late_batch" \in Events
  /\ batch' = [batch EXCEPT !.running = FALSE]
  /\ IF failed = "no" /\ port \in {"on", "stopping", "stopped"}
     THEN /\ drv' = Queue(drv, Deferred(drv))
          /\ cmds' = cmds \o Ftbs(drv, Deferred(drv))
     ELSE UNCHANGED <<drv, cmds>>
  /\ UNCHANGED <<vb2, port, dpb, msgs, fw, failed>>

-----------------------------------------------------------------------------
(* The interrupt thread.                                                   *)

Handles(type) == failed = "no" /\ msgs # << >> /\ Head(msgs).type = type

\* handle_dpb_list_property.
MarkEligible(s, list) ==
  [s EXCEPT !.ro = [d \in Dma |->
     IF RoHas(s, d, "READ_ONLY") /\ ~RoHas(s, d, "PENDING_RELEASE") /\ d \notin list
     THEN [s.ro[d] EXCEPT !.attr = @ \cup {"RELEASE_ELIGIBLE"}] ELSE s.ro[d]]]

\* handle_non_read_only_buffer.
NoLongerRead(s, d) == [s EXCEPT !.ro[d].attr = @ \ {"READ_ONLY"}]

\* Mutant: the entry and the buffer both keep the one reference.
AddReadOnlyShares(s, i) ==
  LET d == s.buf[i].dma
  IN  IF s.ro[d].listed
      THEN [s EXCEPT !.ro[d].attr = @ \cup {"READ_ONLY"}]
      ELSE [s EXCEPT !.ro[d] = [listed |-> TRUE, attr |-> {"READ_ONLY"},
                                ref |-> s.buf[i].ref, map |-> FALSE]]

\* handle_read_only_buffer: a new entry takes the reference over.
AddReadOnly(s, i) ==
  LET d == s.buf[i].dma
  IN  IF s.ro[d].listed
      THEN [s EXCEPT !.ro[d].attr = @ \cup {"READ_ONLY"}]
      ELSE [s EXCEPT !.ro[d] = [listed |-> TRUE, attr |-> {"READ_ONLY"},
                                ref |-> s.buf[i].ref, map |-> FALSE],
                     !.buf[i] = [@ EXCEPT !.ref = FALSE]]

Matches(s, i, m) == Has(s, i, "QUEUED") /\ i = m.i /\ s.buf[i].dma = m.d

\* The rest of handle_output_buffer.
Return(s, i, m) ==
  LET t == IF m.ro THEN AddReadOnly(s, i) ELSE s
      put == IF t.buf[i].ref THEN {t.buf[i].dma} ELSE {}
      attr == (t.buf[i].attr \ {"QUEUED", "READ_ONLY"})
                \cup {"BUFFER_DONE"} \cup IF m.ro THEN {"READ_ONLY"} ELSE {}
  IN  [t EXCEPT !.buf[i] = [@ EXCEPT !.attr = attr, !.ref = FALSE],
                !.tracker = Put(t.tracker, put)]

\* Properties of a response are handled before its buffer, and vb2 is told
\* at the end (handle_dequeue_buffers), once for each time it was queued.
HandleFrame ==
  /\ Handles("frame")
  /\ LET m == Head(msgs)
         l == IF dpb.mode = "none" THEN drv ELSE MarkEligible(drv, m.list)
         s == IF m.ro THEN l ELSE NoLongerRead(l, m.d)
         hit == {i \in Index : Matches(s, i, m)}
     IN  /\ dpb' = IF dpb.mode = "none" THEN dpb ELSE [dpb EXCEPT !.list = m.list]
         /\ IF hit = {}
            THEN drv' = s /\ UNCHANGED vb2
            ELSE \E i \in hit :
                   /\ drv' = Return(s, i, m)
                   /\ vb2' = IF Has(s, i, "BUFFER_DONE") \/ vb2[i] # "driver"
                             THEN vb2 ELSE [vb2 EXCEPT ![i] = "client"]
  /\ msgs' = Tail(msgs)
  /\ UNCHANGED <<port, batch, cmds, fw, failed>>

\* handle_release_output_buffer: the entry itself is left to the next queue
\* or streamoff.
HandleReleaseDone ==
  /\ Handles("release_done")
  /\ LET D == Head(msgs).bufs
         known == {d \in D : RoHas(drv, d, "PENDING_RELEASE")}
     IN  /\ drv' = [drv EXCEPT !.ro = [d \in Dma |-> IF d \in known
                       THEN [drv.ro[d] EXCEPT !.attr = @ \ {"READ_ONLY", "PENDING_RELEASE"}]
                       ELSE drv.ro[d]]]
         /\ failed' = IF known = D THEN "no" ELSE "release"
  /\ msgs' = Tail(msgs)
  /\ UNCHANGED <<vb2, port, batch, dpb, cmds, fw>>

HandleStopDone ==
  /\ Handles("stop_done")
  /\ port = "stopping"
  /\ port' = "stopped"
  /\ msgs' = Tail(msgs)
  /\ UNCHANGED <<drv, vb2, batch, dpb, cmds, fw, failed>>

-----------------------------------------------------------------------------
(* The firmware, as the driver expects it.                                 *)

Reading == {x[2] : x \in fw.refs}
Takes(type) == cmds # << >> /\ Head(cmds).type = type /\ cmds' = Tail(cmds)
FrameOf(x, read, list, again) ==
  [type |-> "frame", i |-> x[1], d |-> x[2], ro |-> read, list |-> list, again |-> again]

FwStarts ==
  /\ Takes("start")
  /\ fw' = [fw EXCEPT !.on = TRUE]
  /\ UNCHANGED <<drv, vb2, port, batch, dpb, msgs, failed>>

FwTakesFtb ==
  /\ Takes("ftb")
  /\ fw' = [fw EXCEPT !.queued = @ \cup {<<f.i, f.d>> : f \in Head(cmds).bufs}]
  /\ UNCHANGED <<drv, vb2, port, batch, dpb, msgs, failed>>

FwReleases ==
  /\ Takes("release")
  /\ fw' = [fw EXCEPT !.refs = {x \in @ : x[2] \notin Head(cmds).bufs}]
  /\ msgs' = Append(msgs, [type |-> "release_done", bufs |-> Head(cmds).bufs])
  /\ UNCHANGED <<drv, vb2, port, batch, dpb, failed>>

\* A frame is written to a buffer nobody reads, which the firmware may go on
\* reading; in list modes it lets go of others when it likes.
FwOutputs(x) ==
  /\ fw.on /\ x \in fw.queued /\ x[2] \notin Reading
  /\ \E r \in SUBSET (fw.refs \cup {x}) :
       /\ dpb.mode = "none" => fw.refs \subseteq r
       /\ fw' = [fw EXCEPT !.queued = @ \ {x}, !.refs = r]
       /\ msgs' = Append(msgs, FrameOf(x, x \in r,
                     IF dpb.mode = "none" THEN {} ELSE {y[2] : y \in r}, FALSE))
  /\ UNCHANGED <<drv, vb2, port, batch, dpb, cmds, failed>>

\* Without a list the firmware returns a buffer again when it has read it,
\* unless it has it queued; it cannot know whether it is being queued.
FwLetsGo(x) ==
  /\ dpb.mode = "none" /\ x \in fw.refs
  /\ fw' = [fw EXCEPT !.refs = @ \ {x}]
  /\ IF \E y \in fw.queued : y[2] = x[2]
     THEN UNCHANGED msgs
     ELSE /\ (\E i \in Index : drv.buf[i].dma = x[2] /\ vb2[i] # "client")
               => "crossing" \in Events
          /\ msgs' = Append(msgs, FrameOf(x, FALSE, {}, TRUE))
  /\ UNCHANGED <<drv, vb2, port, batch, dpb, cmds, failed>>

\* A stop is answered when every queued buffer has been returned.
FwEmpties(x) ==
  /\ cmds # << >> /\ Head(cmds).type = "stop"
  /\ x \in fw.queued
  /\ fw' = [fw EXCEPT !.queued = @ \ {x}, !.on = FALSE]
  /\ msgs' = Append(msgs, FrameOf(x, x[2] \in Reading,
                IF dpb.mode = "none" THEN {} ELSE Reading, FALSE))
  /\ UNCHANGED <<drv, vb2, port, batch, dpb, cmds, failed>>

FwStops ==
  /\ Takes("stop")
  /\ fw.queued = {}
  /\ fw' = [fw EXCEPT !.on = FALSE]
  /\ msgs' = Append(msgs, [type |-> "stop_done"])
  /\ UNCHANGED <<drv, vb2, port, batch, dpb, failed>>

-----------------------------------------------------------------------------
Client ==
  \/ \E i \in Index, d \in Dma :
       QBufPrepares(i, d) \/ QBufSingle(i, d) \/ QBufDefers(i, d)
         \/ \E early \in BOOLEAN : QBufBatch(i, d, early)
  \/ StreamOn \/ StartCmd \/ ReqBufs0 \/ StreamOff \/ StreamOffEnds \/ Close

Thread == HandleFrame \/ HandleReleaseDone \/ HandleStopDone

Firmware ==
  \/ FwStarts \/ FwTakesFtb \/ FwReleases \/ FwStops
  \/ \E x \in Index \X Dma : FwOutputs(x) \/ FwLetsGo(x) \/ FwEmpties(x)

Next == Client \/ BatchStarts \/ BatchRuns \/ Thread \/ Firmware

Spec == Init /\ [][Next]_vars

-----------------------------------------------------------------------------
(* Properties.                                                             *)

\* What the firmware may touch: buffers on their way to it, queued, and read.
Sent == {<<f.i, f.d>> : f \in UNION {cmds[k].bufs :
                              k \in {j \in 1 .. Len(cmds) : cmds[j].type = "ftb"}}}
Returned == {<<msgs[k].i, msgs[k].d>> :
               k \in {j \in 1 .. Len(msgs) : msgs[j].type = "frame" /\ ~msgs[j].again}}

\* Whatever the firmware may read or write is mapped by a buffer or by a
\* read-only entry, and its dmabuf is referenced, however often its index
\* was given another dmabuf (msm_vidc_vb2.c:172, :670).
FwAccessIsHeld ==
  \A d \in {x[2] : x \in Sent \cup fw.queued} \cup Reading :
    /\ drv.tracker[d] > 0
    /\ drv.ro[d].map \/ \E i \in Index : drv.buf[i].dma = d /\ drv.buf[i].map

\* A buffer is QUEUED exactly while it is on its way to the firmware, there,
\* or on its way back; vb2 gives none of these to the client, and the client
\* and the driver never both have a buffer.
OneOwner ==
  failed = "no" =>
    \A i \in Index :
      /\ Has(drv, i, "QUEUED")
           <=> <<i, drv.buf[i].dma>> \in Sent \cup fw.queued \cup Returned
      /\ Has(drv, i, "QUEUED") => vb2[i] = "driver"
      /\ vb2[i] = "driver" <=> (port # "off" /\ Has(drv, i, "DEFERRED")) \/ Has(drv, i, "QUEUED")

\* dmabuf_tracker counts exactly the buffers and read-only entries that hold
\* a dmabuf, so it is let go with the last of them and nothing is left to
\* destroy at the end of the session (msm_vidc_driver.c:5400).
RefsBalance ==
  \A d \in Dma :
    drv.tracker[d] = Cardinality({i \in Index : drv.buf[i].ref /\ drv.buf[i].dma = d})
                       + IF drv.ro[d].ref THEN 1 ELSE 0

\* A buffer the firmware still reads is queued to it again only with the
\* READ_ONLY flag, or behind a release of it.
ReferencesFlagged ==
  \A k \in 1 .. Len(cmds) :
    cmds[k].type = "ftb" =>
      \A f \in cmds[k].bufs :
        f.d \in Reading /\ ~f.ro =>
          \E l \in 1 .. (k - 1) : cmds[l].type = "release" /\ f.d \in cmds[l].bufs

\* The firmware's use of a buffer is known: what it reads or writes is held,
\* and it is told of its own references.
FwUseIsKnown == FwAccessIsHeld /\ ReferencesFlagged

\* Neither a stop nor a release finds the lists in a state that ends the
\* session: "no more queued buffers after streamoff" (msm_vidc_driver.c:4159).
NeverFails == failed = "no"

\* A deferred buffer of a streaming port never waits for another buffer
\* alone: the timer of the batch work, or the work itself, will send it,
\* whatever cancelled the one and disarmed the other, unless the session has
\* failed (msm_vdec.c:2004).
DeferredHasTimer ==
  failed = "no" /\ port = "on" /\ Deferred(drv) # {} => batch.timer \/ batch.running
=============================================================================
