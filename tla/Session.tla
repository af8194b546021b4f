------------------------------ MODULE Session ------------------------------
(***************************************************************************)
(* One video session (struct msm_vidc_inst): its state and sub states, the *)
(* client's ioctls, the responses of the firmware, and the two streams of  *)
(* HFI packets between them, which the command and message queues carry in *)
(* order.                                                                  *)
(*                                                                         *)
(* An ioctl holds client_lock and inst->lock; the response handler holds   *)
(* inst->lock for a whole packet.  The only places where an ioctl lets     *)
(* inst->lock go are the waits of session_streamoff and session_close, and *)
(* those are where the actions of the client are cut.                      *)
(*                                                                         *)
(* The firmware is external: it answers commands in order, pauses a port   *)
(* when it reports a settings change or a last buffer, and sends the last  *)
(* flags it owes before it answers a stop (driver.c:1798-1811 expects it). *)
(***************************************************************************)
EXTENDS Naturals, Sequences

CONSTANT Faults      \* what may go wrong: subset of FaultKinds

FaultKinds == {"fw_error", "fw_hang", "streamon_fails", "bufs_left"}

ASSUME SessionAssumption == Faults \subseteq FaultKinds

Port   == {"in", "out"}
States == {"OPEN", "INPUT_STREAMING", "OUTPUT_STREAMING", "STREAMING",
           "CLOSE", "ERROR"}
Flags  == {"DRC", "DRAIN", "DRC_LAST", "DRAIN_LAST", "INPUT_PAUSE",
           "OUTPUT_PAUSE", "FIRST_IPSC"}
Cmds   == {<<op, p>> : op \in {"start", "stop", "pause", "resume"}, p \in Port}
            \cup {<<"drain">>, <<"etb">>, <<"close">>}
Msgs   == {<<op, p>> : op \in {"stop_done", "stop_error"}, p \in Port}
            \cup {<<"ipsc">>, <<"psc_last">>, <<"drain_done">>,
                  <<"drain_last">>, <<"close_done">>, <<"error">>}

VARIABLES
  decode,     \* is_decode_session(inst), else an encoder
  state,      \* inst->state
  sub,        \* inst->sub_state
  vb2,        \* ports whose vb2 queue has called start_streaming
  client,     \* what the client thread does: idle, or what it waits for
  closing,    \* msm_vidc_close has begun
  packet,     \* inst->packet # NULL and the core can be talked to
  signal,     \* completions: signalled and not yet consumed
  cmds, msgs, \* packets in flight to and from the firmware
  fw,         \* the firmware's side of the session
  alive,      \* the firmware runs
  blame       \* history: what may put a session in ERROR and has happened

session == <<decode, state, sub, vb2, closing, packet>>
vars == <<session, client, signal, cmds, msgs, fw, alive, blame>>

Init ==
  /\ decode \in BOOLEAN
  /\ state = "OPEN" /\ sub = {} /\ vb2 = {}
  /\ client = "idle" /\ closing = FALSE /\ packet = TRUE
  /\ signal = {}
  /\ cmds = << >> /\ msgs = << >>
  /\ fw = [in |-> "stop", out |-> "stop", data |-> "none",
           psc |-> "none", drain |-> "none"]
  /\ alive = TRUE
  /\ blame = {}

-----------------------------------------------------------------------------
(* msm_vidc_change_state and msm_vidc_change_sub_state.                    *)

\* The ALLOW rows of inst_state_allow.
Allowed ==
  [s \in States |->
    CASE s = "OPEN" -> {"INPUT_STREAMING", "OUTPUT_STREAMING", "CLOSE", "ERROR"}
      [] s \in {"INPUT_STREAMING", "OUTPUT_STREAMING"} ->
           {"OPEN", "STREAMING", "CLOSE", "ERROR"}
      [] s = "STREAMING" ->
           {"INPUT_STREAMING", "OUTPUT_STREAMING", "CLOSE", "ERROR"}
      [] OTHER -> {}]

\* The state after change_state(s): a row that is not ALLOW changes nothing.
Changed(s) == IF s \in Allowed[state] THEN s ELSE state

\* The flags set_sub_state refuses in a state: those of its DISALLOW row, and
\* FIRST_IPSC where an ALLOW row leaves it out (OPEN has no ALLOW row).
Refused(s) ==
  CASE s = "OPEN" -> Flags \ {"FIRST_IPSC"}
    [] s = "INPUT_STREAMING" -> {"DRC_LAST", "DRAIN_LAST", "OUTPUT_PAUSE"}
    [] s = "OUTPUT_STREAMING" -> {"DRC", "DRAIN", "INPUT_PAUSE", "FIRST_IPSC"}
    [] OTHER -> {"FIRST_IPSC"}

CanSet(S) == state = "ERROR" \/ S \cap Refused(state) = {}

\* A session in error keeps its flags and reports success.
SetSub(S) == IF state = "ERROR" THEN sub ELSE sub \cup S

\* Mutant: a settings change is not seen as pending while a drain is.
DrcPendingAlone == {"DRC", "DRC_LAST"} \subseteq sub /\ "DRAIN" \notin sub

DrcPending   == {"DRC", "DRC_LAST"} \subseteq sub
DrainPending == {"DRAIN", "DRAIN_LAST"} \subseteq sub

Streaming(p) == state \in {"STREAMING", IF p = "in" THEN "INPUT_STREAMING"
                                                    ELSE "OUTPUT_STREAMING"}
\* Mutant: the ports swapped when one of two streaming ports stops.
MinusSwapped(p) == IF ~Streaming(p) THEN "ERROR"
                   ELSE IF state # "STREAMING" THEN "OPEN"
                   ELSE IF p = "in" THEN "INPUT_STREAMING" ELSE "OUTPUT_STREAMING"

Plus(p)  == IF state = "OPEN"
            THEN IF p = "in" THEN "INPUT_STREAMING" ELSE "OUTPUT_STREAMING"
            ELSE IF Streaming(p) THEN "ERROR" ELSE "STREAMING"
Minus(p) == IF ~Streaming(p) THEN "ERROR"
            ELSE IF state # "STREAMING" THEN "OPEN"
            ELSE IF p = "in" THEN "OUTPUT_STREAMING" ELSE "INPUT_STREAMING"

InFlight(m, s) == \E i \in 1..Len(s) : s[i] = m
Send(s) == cmds' = cmds \o s
If(c, s) == IF c THEN s ELSE << >>

-----------------------------------------------------------------------------
(* The client's ioctls.  msm_vidc_session turns them away, all but the     *)
(* streamoff, when the session is in ERROR.                                *)

MayCall == client = "idle" /\ ~closing /\ state # "ERROR"

(***************************************************************************)
(* VIDIOC_STREAMON.  The firmware's input port is started and paused again *)
(* at once while the client has a port reconfiguration or a drain open.    *)
(***************************************************************************)
\* Mutant: the input port is started without looking at open sequences.
MustPauseNever == FALSE
MustPause == sub \cap {"DRC", "DRAIN", "FIRST_IPSC"} # {}

StreamOnInput(deferred) ==
  /\ MayCall
  /\ "in" \notin vb2
  /\ Send(<< <<"start", "in">> >>
          \o If(MustPause, << <<"pause", "in">> >>)
          \o If(deferred, << <<"etb">> >>))
  /\ state' = Changed(Plus("in"))
  /\ sub' = (sub \ {"INPUT_PAUSE"}) \cup (IF MustPause THEN {"INPUT_PAUSE"} ELSE {})
  /\ vb2' = vb2 \cup {"in"}
  /\ UNCHANGED <<client, decode, closing, packet, signal, msgs, fw, alive, blame>>

\* process_streamon_output: what is cleared, and whether input is resumed.
\* Mutant: the last flag is left behind.
OutputClearsHalf == IF DrcPending THEN {"DRC"}
                    ELSE IF DrainPending THEN {"DRAIN"} ELSE {}

OutputClears == IF DrcPending THEN {"DRC", "DRC_LAST"}
                ELSE IF DrainPending THEN {"DRAIN", "DRAIN_LAST"} ELSE {}
ResumeInput  == "INPUT_PAUSE" \in sub /\ state = "INPUT_STREAMING"

StreamOnOutput ==
  /\ MayCall
  /\ "out" \notin vb2
  /\ Send(If(ResumeInput, << <<"resume", "in">> >>) \o << <<"start", "out">> >>)
  /\ state' = Changed(Plus("out"))
  /\ sub' = sub \ (OutputClears \cup {"FIRST_IPSC", "OUTPUT_PAUSE"}
                     \cup (IF ResumeInput THEN {"INPUT_PAUSE"} ELSE {}))
  /\ vb2' = vb2 \cup {"out"}
  /\ blame' = IF DrcPending /\ DrainPending THEN blame \cup {"drain_left"}
              ELSE blame
  /\ UNCHANGED <<client, decode, closing, packet, signal, msgs, fw, alive>>

(***************************************************************************)
(* A streamon that fails before it starts the port (no memory, no capacity *)
(* for the session).  The vb2 callback puts the session in ERROR; for the  *)
(* output port streamon_output first runs a streamoff of its own.          *)
(***************************************************************************)
StreamOnFails(p) ==
  /\ MayCall
  /\ "streamon_fails" \in Faults
  /\ p \notin vb2
  /\ blame' = blame \cup {"streamon_fails"}
  /\ \/ /\ p = "in"
        /\ state' = Changed("ERROR")
        /\ UNCHANGED <<client, cmds>>
     \/ /\ p = "out"
        /\ Send(<< <<"stop", "out">> >>)
        /\ client' = "out"
        /\ UNCHANGED state
  /\ UNCHANGED <<sub, vb2, decode, closing, packet, signal, msgs, fw, alive>>

\* VIDIOC_QBUF on the input port.
QueueInput ==
  /\ MayCall
  /\ Streaming("in")
  /\ fw.data = "none" /\ ~InFlight(<<"etb">>, cmds)
  /\ Send(<< <<"etb">> >>)
  /\ UNCHANGED <<session, client, signal, msgs, fw, alive, blame>>

\* V4L2_DEC_CMD_STOP / V4L2_ENC_CMD_STOP: drain.
StopCmd ==
  /\ MayCall
  /\ Streaming("in")
  /\ "DRAIN" \notin sub
  /\ CanSet({"DRAIN"})
  /\ Send(<< <<"drain">> >>)
  /\ sub' = SetSub({"DRAIN"})
  /\ UNCHANGED <<state, vb2, decode, closing, packet, client, signal, msgs, fw,
                 alive, blame>>

\* V4L2_DEC_CMD_START / V4L2_ENC_CMD_START: msm_vidc_process_resume.
StartCmd ==
  LET resume == ~(DrcPending /\ DrainPending)
      in     == resume /\ "INPUT_PAUSE" \in sub
      out    == resume /\ "OUTPUT_PAUSE" \in sub /\ decode
  IN /\ MayCall
     /\ Streaming("in") \/ Streaming("out")
     /\ DrcPending \/ DrainPending
     /\ Send(If(in, << <<"resume", "in">> >>) \o If(out, << <<"resume", "out">> >>))
     /\ sub' = sub \ ((IF DrcPending THEN {"DRC", "DRC_LAST"}
                                     ELSE {"DRAIN", "DRAIN_LAST"})
                        \cup (IF in THEN {"INPUT_PAUSE"} ELSE {})
                        \cup (IF out THEN {"OUTPUT_PAUSE"} ELSE {}))
     /\ UNCHANGED <<state, vb2, decode, closing, packet, client, signal, msgs,
                    fw, alive, blame>>

(***************************************************************************)
(* VIDIOC_STREAMOFF, and the release of the vb2 queues by msm_vidc_close:  *)
(* send the stop, let inst->lock go and wait for the answer.  A session    *)
(* that can no longer send goes to ERROR (kill_session finds it closed).   *)
(***************************************************************************)
StreamOff(p) ==
  /\ client = "idle"
  /\ p \in vb2
  /\ Streaming(p) \/ state = "ERROR"
  /\ \/ /\ packet
        /\ Send(<< <<"stop", p>> >>)
        /\ client' = p
        /\ UNCHANGED <<state, vb2>>
     \/ /\ ~packet
        /\ state' = Changed("ERROR")
        /\ vb2' = vb2 \ {p}
        /\ UNCHANGED <<client, cmds>>
  /\ UNCHANGED <<sub, decode, closing, packet, signal, msgs, fw, alive, blame>>

\* The answer came and no buffer is left with the firmware.  A streamon that
\* failed comes back through here too, and ends in ERROR.
StreamOffDone(p) ==
  /\ client = p
  /\ p \in signal
  /\ signal' = signal \ {p}
  /\ state' = Changed(IF p \in vb2 THEN Minus(p) ELSE "ERROR")
  /\ vb2' = vb2 \ {p}
  /\ client' = "idle"
  /\ UNCHANGED <<sub, decode, closing, packet, cmds, msgs, fw, alive, blame>>

\* The answer came but buffers are missing: kill_session closes the session.
StreamOffBuffersLeft(p) ==
  /\ client = p
  /\ p \in signal
  /\ "bufs_left" \in Faults
  /\ signal' = signal \ {p}
  /\ vb2' = vb2 \ {p}
  /\ Send(<< <<"close">> >>)
  /\ client' = "killed"
  /\ blame' = blame \cup {"bufs_left"}
  /\ UNCHANGED <<state, sub, decode, closing, packet, msgs, fw, alive>>

\* msm_vidc_close, once the queues are released.
BeginClose ==
  /\ client = "idle" /\ ~closing
  /\ closing' = TRUE
  /\ UNCHANGED <<decode, state, sub, vb2, packet, client, signal, cmds, msgs,
                 fw, alive, blame>>

SessionClose ==
  /\ client = "idle" /\ closing /\ vb2 = {}
  /\ \/ /\ packet
        /\ Send(<< <<"close">> >>)
        /\ client' = "closed"
        /\ UNCHANGED <<state, sub>>
     \/ /\ ~packet
        /\ state' = Changed("CLOSE")
        /\ sub' = {}
        /\ client' = "gone"
        /\ UNCHANGED cmds
  /\ UNCHANGED <<vb2, decode, closing, packet, signal, msgs, fw, alive, blame>>

\* The wait of msm_vidc_session_close ends; a close that timed out got there
\* through Timeout.
SessionCloseDone ==
  /\ client \in {"killed", "closed"}
  /\ "close" \in signal
  /\ signal' = signal \ {"close"}
  /\ packet' = FALSE
  /\ state' = Changed(IF client = "killed" THEN "ERROR" ELSE "CLOSE")
  /\ sub' = IF client = "killed" THEN sub ELSE {}
  /\ client' = IF client = "killed" THEN "idle" ELSE "gone"
  /\ UNCHANGED <<vb2, decode, closing, cmds, msgs, fw, alive, blame>>

(***************************************************************************)
(* HW_RESPONSE_TIMEOUT: long enough that it only ends a wait whose answer  *)
(* can no longer come.  msm_vidc_inst_timeout marks the hardware           *)
(* unresponsive and deinitialises the core, which takes the session off    *)
(* the list (no response reaches it any more) and puts it in ERROR.        *)
(***************************************************************************)
NoAnswer ==
  /\ client \in Port \cup {"killed", "closed"}
  /\ signal = {}
  /\ msgs = << >>
  /\ cmds = << >> \/ ~alive

Timeout ==
  /\ NoAnswer
  /\ alive' = FALSE /\ cmds' = << >> /\ msgs' = << >>
  /\ packet' = FALSE
  /\ state' = Changed("ERROR")
  /\ vb2' = vb2 \ {client}
  /\ sub' = IF client = "closed" THEN {} ELSE sub
  /\ client' = IF client = "closed" THEN "gone" ELSE "idle"
  /\ UNCHANGED <<decode, closing, signal, fw, blame>>

-----------------------------------------------------------------------------
(* The response handler: one packet, under inst->lock.                     *)

\* The firmware owes the client the last buffer of the old sequence.
LastIsComing ==
  \/ fw.psc = "last"
  \/ fw.psc = "seen" /\ InFlight(<<"start", "out">>, cmds)
  \/ InFlight(<<"psc_last">>, msgs)

HandleIpsc ==
  LET set == IF state \in {"INPUT_STREAMING", "OPEN"}
             THEN {"INPUT_PAUSE", "FIRST_IPSC"} ELSE {"DRC", "INPUT_PAUSE"}
      ok  == "DRC" \notin sub /\ CanSet(set)
  IN /\ Head(msgs) = <<"ipsc">>
     /\ sub' = IF ok THEN SetSub(set) ELSE sub
     /\ state' = IF ok THEN state ELSE Changed("ERROR")
     /\ blame' = IF "DRC" \in set /\ ~LastIsComing
                 THEN blame \cup {"late_ipsc"} ELSE blame
     /\ UNCHANGED signal

\* handle_psc_last_flag_buffer, handle_drain_last_flag_buffer and the two
\* information packets: the flag F is expected while its sequence is open.
HandleLast(msg, F, last) ==
  LET ok == /\ {F, "INPUT_PAUSE"} \subseteq sub
            /\ last \notin sub
            /\ CanSet({last, "OUTPUT_PAUSE"})
  IN /\ Head(msgs) = <<msg>>
     /\ sub' = IF ok THEN SetSub({last, "OUTPUT_PAUSE"}) ELSE sub
     /\ state' = IF ok THEN state ELSE Changed("ERROR")
     /\ UNCHANGED <<signal, blame>>

\* Mutant: the drain response is only logged.
HandleDrainDoneLogged ==
  /\ Head(msgs) = <<"drain_done">>
  /\ UNCHANGED <<state, sub, signal, blame>>

HandleDrainDone ==
  /\ Head(msgs) = <<"drain_done">>
  /\ IF "DRAIN" \in sub /\ CanSet({"INPUT_PAUSE"})
     THEN sub' = SetSub({"INPUT_PAUSE"}) /\ UNCHANGED state
     ELSE /\ state' = IF "DRAIN" \in sub THEN Changed("ERROR") ELSE state
          /\ UNCHANGED sub
  /\ UNCHANGED <<signal, blame>>

\* Input stopped although a sequence is open whose last flag did not come.
LastIsMissing ==
  \/ "DRC" \in sub /\ "DRC_LAST" \notin sub
  \/ decode /\ "DRAIN" \in sub /\ "DRAIN_LAST" \notin sub

\* handle_session_stop.  The waiter is signalled only if the pause flag could
\* be set, which a session in ERROR always pretends; otherwise the handler
\* fails and its caller puts the session in ERROR.
HandleStopDone(p) ==
  LET pause == {IF p = "in" THEN "INPUT_PAUSE" ELSE "OUTPUT_PAUSE"}
      error == \/ Head(msgs) = <<"stop_error", p>>
               \/ p = "in" /\ LastIsMissing
               \/ state = "ERROR"
      ok    == error \/ CanSet(pause)
  IN /\ Head(msgs) \in {<<"stop_done", p>>, <<"stop_error", p>>}
     /\ state' = IF error \/ ~ok THEN Changed("ERROR") ELSE state
     /\ sub' = IF error \/ ~ok THEN sub ELSE sub \cup pause
     /\ signal' = IF ok THEN signal \cup {p} ELSE signal
     /\ UNCHANGED blame

\* Mutant: the close response does not signal the waiter.
HandleCloseDoneSilent ==
  /\ Head(msgs) = <<"close_done">>
  /\ UNCHANGED <<state, sub, signal, blame>>

\* Mutant: the signal is left at the value no wait uses.
HandleCloseDoneUnset ==
  /\ Head(msgs) = <<"close_done">>
  /\ signal' = signal \cup {"none"}
  /\ UNCHANGED <<state, sub, blame>>

HandleCloseDone ==
  /\ Head(msgs) = <<"close_done">>
  /\ signal' = signal \cup {"close"}
  /\ UNCHANGED <<state, sub, blame>>

HandleError ==
  /\ Head(msgs) = <<"error">>
  /\ state' = Changed("ERROR")
  /\ UNCHANGED <<sub, signal, blame>>

HandleResponse ==
  /\ msgs # << >>
  /\ msgs' = Tail(msgs)
  /\ \/ HandleIpsc
     \/ HandleLast("psc_last", "DRC", "DRC_LAST")
     \/ HandleLast("drain_last", "DRAIN", "DRAIN_LAST")
     \/ HandleDrainDone
     \/ \E p \in Port : HandleStopDone(p)
     \/ HandleCloseDone
     \/ HandleError
  /\ UNCHANGED <<vb2, decode, closing, packet, client, cmds, fw, alive>>

-----------------------------------------------------------------------------
(* The firmware.  fw.psc is "last" while it owes the last buffer of a      *)
(* sequence it has reported, "seen" when it owes nothing but still waits   *)
(* to be resumed; fw.drain goes from "asked" to "last" with drain_done;    *)
(* fw.data is input it has not looked at ("after": queued behind a drain). *)

Flush(p) ==
  If(fw.psc = "last", << <<"psc_last">> >>)
    \o If(p = "in" /\ fw.drain = "asked", << <<"drain_done">> >>)
    \o If(\/ fw.drain = "last" /\ (p = "out" \/ decode)
          \/ fw.drain = "asked" /\ p = "in" /\ decode, << <<"drain_last">> >>)

FwStart(p) ==
  /\ fw' = IF p = "in" THEN [fw EXCEPT !.in = "run", !.data = "none"]
           ELSE [fw EXCEPT !.out = "run", !.psc = IF @ = "seen" THEN "last" ELSE @]
  /\ UNCHANGED <<msgs, blame>>

FwStop(p) ==
  /\ \E answer \in IF fw[p] = "stop" THEN {"stop_done", "stop_error"}
                                     ELSE {"stop_done"} :
       msgs' = msgs \o Flush(p) \o << <<answer, p>> >>
  /\ fw' = IF p = "in"
           THEN [fw EXCEPT !.in = "stop", !.psc = "none", !.data = "none",
                           !.drain = IF decode \/ @ = "none" THEN "none"
                                     ELSE "last",
                           !.out = IF decode /\ @ = "run" /\ Flush("in") # << >>
                                   THEN "pause" ELSE @]
           ELSE [fw EXCEPT !.out = "stop",
                           !.psc = IF @ = "last" THEN "seen" ELSE @,
                           !.drain = IF @ = "last" THEN "none" ELSE @]
  /\ blame' = IF p = "in" /\ fw.drain = "asked" /\ fw.out = "stop"
              THEN blame \cup {"drain_unheard"} ELSE blame

FwCommand ==
  /\ cmds # << >> /\ alive
  /\ cmds' = Tail(cmds)
  /\ \/ \E p \in Port : Head(cmds) = <<"start", p>> /\ FwStart(p)
     \/ \E p \in Port : Head(cmds) = <<"stop", p>> /\ FwStop(p)
     \/ /\ Head(cmds) = <<"pause", "in">>
        /\ fw' = [fw EXCEPT !.in = IF @ = "run" THEN "pause" ELSE @]
        /\ UNCHANGED <<msgs, blame>>
     \/ /\ Head(cmds) = <<"resume", "in">>
        /\ fw' = [fw EXCEPT !.in = IF @ = "pause" THEN "run" ELSE @,
                            !.psc = "none"]
        /\ UNCHANGED <<msgs, blame>>
     \/ /\ Head(cmds) = <<"resume", "out">>
        /\ fw' = [fw EXCEPT !.out = IF @ = "pause" THEN "run" ELSE @]
        /\ UNCHANGED <<msgs, blame>>
     \/ /\ Head(cmds) = <<"drain">>
        /\ fw' = [fw EXCEPT !.drain = "asked"]
        /\ UNCHANGED <<msgs, blame>>
     \/ /\ Head(cmds) = <<"etb">>
        /\ fw' = [fw EXCEPT !.data = IF fw.drain = "asked" THEN "after" ELSE "now"]
        /\ UNCHANGED <<msgs, blame>>
     \/ /\ Head(cmds) = <<"close">>
        /\ fw' = [fw EXCEPT !.in = "stop", !.out = "stop", !.data = "none",
                            !.psc = "none", !.drain = "none"]
        /\ msgs' = Append(msgs, <<"close_done">>)
        /\ UNCHANGED blame
  /\ UNCHANGED <<session, client, signal, alive>>

Says(m) ==
  /\ alive
  /\ msgs' = Append(msgs, m)
  /\ UNCHANGED <<session, client, signal, cmds, alive, blame>>

\* A new sequence in the bitstream: input is paused until it is resumed.
FwIpsc ==
  /\ decode /\ fw.in = "run" /\ fw.data = "now"
  /\ fw' = [fw EXCEPT !.in = "pause", !.data = "none",
                      !.psc = IF fw.out = "stop" THEN "seen" ELSE "last"]
  /\ Says(<<"ipsc">>)

FwPscLast ==
  /\ fw.psc = "last" /\ fw.out = "run"
  /\ fw' = [fw EXCEPT !.psc = "seen", !.out = "pause"]
  /\ Says(<<"psc_last">>)

FwDrainDone ==
  /\ fw.drain = "asked" /\ fw.in = "run" /\ fw.out = "run"
  /\ fw' = [fw EXCEPT !.drain = "last", !.in = "pause",
                      !.data = IF @ = "after" THEN "now" ELSE "none"]
  /\ Says(<<"drain_done">>)

FwDrainLast ==
  /\ fw.drain = "last" /\ fw.out = "run"
  /\ fw' = [fw EXCEPT !.drain = "none", !.out = IF decode THEN "pause" ELSE @]
  /\ Says(<<"drain_last">>)

FwError ==
  /\ "fw_error" \in Faults \ blame /\ alive
  /\ blame' = blame \cup {"fw_error"}
  /\ msgs' = Append(msgs, <<"error">>)
  /\ UNCHANGED <<session, client, signal, cmds, fw, alive>>

FwHang ==
  /\ "fw_hang" \in Faults /\ alive
  /\ alive' = FALSE
  /\ blame' = blame \cup {"fw_hang"}
  /\ UNCHANGED <<session, client, signal, cmds, msgs, fw>>

-----------------------------------------------------------------------------
Client ==
  \/ \E deferred \in BOOLEAN : StreamOnInput(deferred)
  \/ StreamOnOutput
  \/ \E p \in Port : StreamOnFails(p)
  \/ QueueInput \/ StopCmd \/ StartCmd
  \/ \E p \in Port : StreamOff(p)
  \/ \E p \in Port : StreamOffDone(p)
  \/ \E p \in Port : StreamOffBuffersLeft(p)
  \/ BeginClose \/ SessionClose \/ SessionCloseDone
  \/ Timeout

Firmware ==
  \/ FwCommand \/ FwIpsc \/ FwPscLast \/ FwDrainDone \/ FwDrainLast
  \/ FwError \/ FwHang

\* The file is closed: nothing is left to do.
Gone == client = "gone" /\ UNCHANGED vars

Next == Client \/ HandleResponse \/ Firmware \/ Gone

Spec == Init /\ [][Next]_vars

\* The interrupt thread runs, the firmware answers what it is sent and keeps
\* its promises (input is finite, so a drain ends), an ioctl that waits goes on
\* when its wait is over, and the client resumes after a last buffer
\* (driver.c:1588-1592 relies on it).
FairSpec ==
  /\ Spec
  /\ WF_vars(HandleResponse) /\ WF_vars(FwCommand)
  /\ WF_vars(FwPscLast) /\ SF_vars(FwDrainDone) /\ WF_vars(FwDrainLast)
  /\ WF_vars(\E p \in Port : StreamOffDone(p) \/ StreamOffBuffersLeft(p))
  /\ WF_vars(SessionCloseDone) /\ WF_vars(Timeout)
  /\ WF_vars(StartCmd)

-----------------------------------------------------------------------------
TypeOK ==
  /\ state \in States /\ sub \subseteq Flags /\ vb2 \subseteq Port
  /\ client \in Port \cup {"idle", "killed", "closed", "gone"}
  /\ decode \in BOOLEAN
  /\ closing \in BOOLEAN /\ packet \in BOOLEAN /\ alive \in BOOLEAN
  /\ signal \subseteq Port \cup {"close"}
  /\ cmds \in Seq(Cmds) /\ msgs \in Seq(Msgs)
  /\ fw \in [in : {"stop", "run", "pause"}, out : {"stop", "run", "pause"},
             data : {"none", "now", "after"}, psc : {"none", "seen", "last"},
             drain : {"none", "asked", "last"}]
  /\ blame \subseteq FaultKinds \cup {"late_ipsc", "drain_unheard", "drain_left"}

(***************************************************************************)
(* A last-buffer flag never outlives its sequence: DRC_LAST_BUFFER is set  *)
(* only together with DRC and DRAIN_LAST_BUFFER with DRAIN, and a first    *)
(* port reconfiguration (FIRST_IPSC) is never open at the same time as a   *)
(* dynamic one, nor with both ports streaming.                             *)
(***************************************************************************)
SequencesNest ==
  /\ "DRC_LAST" \in sub => "DRC" \in sub
  /\ "DRAIN_LAST" \in sub => "DRAIN" \in sub
  /\ "FIRST_IPSC" \in sub =>
       "DRC" \notin sub /\ state \notin {"OUTPUT_STREAMING", "STREAMING"}

\* No ioctl is under way and nothing is in flight.
Quiet == client = "idle" /\ cmds = << >> /\ msgs = << >> /\ alive /\ packet

(***************************************************************************)
(* Once everything in flight has arrived, the pause flags of the driver    *)
(* say what the firmware's ports do.  (The encoder's output port is never  *)
(* paused by the firmware, whatever OUTPUT_PAUSE says.)                    *)
(***************************************************************************)
PauseAgrees ==
  Quiet /\ state # "ERROR" =>
    /\ Streaming("in") => (("INPUT_PAUSE" \in sub) <=> (fw.in = "pause"))
    /\ Streaming("out") /\ decode =>
         (("OUTPUT_PAUSE" \in sub) <=> (fw.out = "pause"))

(***************************************************************************)
(* With both ports streaming and nothing in flight, a paused input port is *)
(* paused for a sequence the client can complete with a start command,     *)
(* unless the firmware still owes something.                               *)
(***************************************************************************)
NoStuckPause ==
  Quiet /\ state = "STREAMING" /\ "INPUT_PAUSE" \in sub =>
    DrcPending \/ DrainPending \/ fw.psc = "last" \/ fw.drain = "last"

(* A pause is one of the firmware, and one that ends.                      *)
PauseIsSound == PauseAgrees /\ NoStuckPause

(***************************************************************************)
(* A session goes to ERROR only after something went wrong: a fault of the *)
(* firmware or of an allocation, or one of the three orders of events the  *)
(* code does not stand: a settings change handled when the output port has *)
(* been stopped for the firmware (late_ipsc), a drain cut short by a stop  *)
(* of the input while the output does not stream (drain_unheard), a drain  *)
(* left open by a restart of the output that completed a settings change   *)
(* (drain_left).  No other interleaving of ioctls and responses fails.     *)
(***************************************************************************)
NoSpuriousError == state = "ERROR" => blame # {}

(***************************************************************************)
(* When nothing is under way and the session has not failed, the ports the *)
(* driver takes for streaming are the ones the client started and the ones *)
(* the firmware runs.                                                      *)
(***************************************************************************)
PortsAgree ==
  Quiet /\ state # "ERROR" =>
    \A p \in Port : /\ Streaming(p) <=> p \in vb2
                   /\ Streaming(p) <=> fw[p] # "stop"

(***************************************************************************)
(* A drain of a session whose two ports stream is followed by its last     *)
(* buffer, settings changes in between notwithstanding, unless the client  *)
(* stops a port first or the session fails.                                *)
(***************************************************************************)
DrainCompletes ==
  (state = "STREAMING" /\ "DRAIN" \in sub) ~>
     ("DRAIN_LAST" \in sub \/ state # "STREAMING" \/ client # "idle"
        \/ closing \/ ~alive)

(***************************************************************************)
(* Every ioctl that waits for the firmware returns, even if the firmware   *)
(* hangs.                                                                  *)
(***************************************************************************)
WaitsEnd == (client \in Port \cup {"killed", "closed"}) ~> (client \in {"idle", "gone"})

(* What a client waits for comes: drains, and the ioctls themselves.       *)
WaitedForComes == DrainCompletes /\ WaitsEnd

(***************************************************************************)
(* A wait times out only when the firmware hangs, or when the stop was     *)
(* sent for a streamon that failed (see HardwareAnswers).                  *)
(***************************************************************************)
OnlyHangsTimeOut == NoAnswer => ~alive \/ "streamon_fails" \in blame

-----------------------------------------------------------------------------
(* What a comment of the source says and the code does not keep.           *)

(***************************************************************************)
(* driver.c:4759: the timeout that marks the hardware unresponsive is one  *)
(* of a hardware that did not answer.                                      *)
(***************************************************************************)
HardwareAnswers == NoAnswer => ~alive
=============================================================================
