--------------------------- MODULE SessionProofs ---------------------------
(***************************************************************************)
(* For any faults, and for decoder and encoder alike: that the sequences   *)
(* of a session nest, that its types hold, that driver, vb2 and firmware   *)
(* agree on the ports when nothing is under way, that the driver waits in  *)
(* vain only for a firmware that hangs or for a port it never started,     *)
(* that a session fails only for a reason, and that a port is paused for   *)
(* the driver when it is for the firmware, and not for ever.  The first    *)
(* needs nothing of the firmware: whatever packets arrive, in whatever     *)
(* order, the driver's own checks keep the flags consistent.  The others   *)
(* follow each command to the firmware and its answer back; the last two   *)
(* also need the order in which commands, and answers, can be in flight.   *)
(***************************************************************************)
EXTENDS Session, SequenceTheorems, TLAPS

\* Only the state and the flags matter: the state is one of the six, and a
\* session enters CLOSE with its flags cleared (an IPSC may still arrive there).
Nest ==
  /\ SequencesNest
  /\ state \in States
  /\ "FIRST_IPSC" \in sub => state # "CLOSE"

LEMMA ChangedIsState ==
  ASSUME state \in States, NEW s
  PROVE  /\ Changed(s) \in States
         /\ Changed(s) = state \/ Changed(s) \in Allowed[state]
         /\ Changed(s) # state => Changed(s) = s
BY DEF Changed, Allowed, States

(***************************************************************************)
(* The states in which a first port reconfiguration may be open.  Only a   *)
(* start of the output port or a close leaves them, and both clear it.     *)
(***************************************************************************)
Early == {"OPEN", "INPUT_STREAMING", "ERROR"}

LEMMA ErrorStaysEarly ==
  ASSUME state \in States
  PROVE  state \in Early => Changed("ERROR") \in Early
BY DEF Changed, Allowed, States, Early

LEMMA InputStartStaysEarly ==
  ASSUME state \in Early
  PROVE  Changed(Plus("in")) \in Early
BY DEF Changed, Allowed, States, Early, Plus, Streaming

LEMMA StopStaysEarly ==
  ASSUME state \in Early, NEW p \in Port
  PROVE  Changed(Minus(p)) \in Early
BY DEF Changed, Allowed, States, Early, Minus, Streaming, Port

LEMMA NestIsEarly ==
  Nest <=> /\ state \in States
           /\ "DRC_LAST" \in sub => "DRC" \in sub
           /\ "DRAIN_LAST" \in sub => "DRAIN" \in sub
           /\ "FIRST_IPSC" \in sub => "DRC" \notin sub /\ state \in Early
BY DEF Nest, SequencesNest, States, Early

-----------------------------------------------------------------------------
(* The initial states, and each step.                                      *)

LEMMA InitNest == Init => Nest
BY DEF Init, Nest, SequencesNest, States

LEMMA ClientNest == Nest /\ Client => Nest'
<1> SUFFICES ASSUME Nest, Client PROVE Nest'
  OBVIOUS
<1> USE NestIsEarly
<1>a. /\ state \in States
      /\ "DRC_LAST" \in sub => "DRC" \in sub
      /\ "DRAIN_LAST" \in sub => "DRAIN" \in sub
      /\ "FIRST_IPSC" \in sub => "DRC" \notin sub /\ state \in Early
  OBVIOUS
<1>b. ASSUME /\ state' \in States
             /\ "DRC_LAST" \in sub' => "DRC" \in sub'
             /\ "DRAIN_LAST" \in sub' => "DRAIN" \in sub'
             /\ "FIRST_IPSC" \in sub' => "DRC" \notin sub' /\ state' \in Early
      PROVE  Nest'
  BY <1>b DEF Nest, SequencesNest, States, Early
<1>1. ASSUME NEW deferred \in BOOLEAN, StreamOnInput(deferred) PROVE Nest'
  <2>1. state' = Changed(Plus("in")) BY <1>1 DEF StreamOnInput
  <2>2. \A f \in {"DRC", "DRC_LAST", "DRAIN", "DRAIN_LAST", "FIRST_IPSC"} :
          f \in sub' <=> f \in sub
    BY <1>1 DEF StreamOnInput
  <2>3. state' \in States BY <1>a, <2>1, ChangedIsState
  <2>4. state \in Early => state' \in Early BY <2>1, InputStartStaysEarly
  <2> QED BY <1>a, <1>b, <2>2, <2>3, <2>4
<1>2. CASE StreamOnOutput
  <2>1. state' = Changed(Plus("out")) BY <1>2 DEF StreamOnOutput
  <2>2. /\ "FIRST_IPSC" \notin sub'
        /\ "DRC_LAST" \in sub' => "DRC" \in sub'
        /\ "DRAIN_LAST" \in sub' => "DRAIN" \in sub'
    BY <1>2, <1>a DEF StreamOnOutput, OutputClears, DrcPending, DrainPending
  <2>3. state' \in States BY <1>a, <2>1, ChangedIsState
  <2> QED BY <1>b, <2>2, <2>3
<1>3. ASSUME NEW p \in Port, StreamOnFails(p) PROVE Nest'
  <2>1. sub' = sub /\ state' \in {state, Changed("ERROR")}
    BY <1>3 DEF StreamOnFails
  <2> QED BY <1>a, <1>b, <2>1, ChangedIsState, ErrorStaysEarly
<1>4. CASE QueueInput
  BY <1>4, <1>a, <1>b DEF QueueInput, session
<1>5. CASE StopCmd
  <2>1. state' = state /\ sub' \in {sub, sub \cup {"DRAIN"}}
    BY <1>5 DEF StopCmd, SetSub
  <2> QED BY <1>a, <1>b, <2>1
<1>6. CASE StartCmd
  <2>1. state' = state /\ sub' \subseteq sub
    BY <1>6 DEF StartCmd
  <2>2. /\ "DRC_LAST" \in sub' => "DRC" \in sub'
        /\ "DRAIN_LAST" \in sub' => "DRAIN" \in sub'
    BY <1>6, <1>a DEF StartCmd, DrcPending, DrainPending
  <2> QED BY <1>a, <1>b, <2>1, <2>2
<1>7. ASSUME NEW p \in Port, StreamOff(p) PROVE Nest'
  <2>1. sub' = sub /\ state' \in {state, Changed("ERROR")}
    BY <1>7 DEF StreamOff
  <2> QED BY <1>a, <1>b, <2>1, ChangedIsState, ErrorStaysEarly
<1>8. ASSUME NEW p \in Port, StreamOffDone(p) PROVE Nest'
  <2>1. sub' = sub /\ state' \in {Changed(Minus(p)), Changed("ERROR")}
    BY <1>8 DEF StreamOffDone
  <2>2. state' \in States BY <1>a, <2>1, ChangedIsState
  <2>3. state \in Early => state' \in Early
    BY <1>a, <2>1, StopStaysEarly, ErrorStaysEarly
  <2> QED BY <1>a, <1>b, <2>1, <2>2, <2>3
<1>9. ASSUME NEW p \in Port, StreamOffBuffersLeft(p) PROVE Nest'
  BY <1>9, <1>a, <1>b DEF StreamOffBuffersLeft
<1>10. CASE BeginClose
  BY <1>10, <1>a, <1>b DEF BeginClose
<1>11. CASE SessionClose
  <2>1. \/ sub' = sub /\ state' = state
        \/ sub' = {} /\ state' = Changed("CLOSE")
    BY <1>11 DEF SessionClose
  <2> QED BY <1>a, <1>b, <2>1, ChangedIsState, ErrorStaysEarly
<1>12. CASE SessionCloseDone
  <2>1. \/ sub' = sub /\ state' = Changed("ERROR")
        \/ sub' = {} /\ state' = Changed("CLOSE")
    BY <1>12 DEF SessionCloseDone
  <2> QED BY <1>a, <1>b, <2>1, ChangedIsState, ErrorStaysEarly
<1>13. CASE Timeout
  <2>1. sub' \in {sub, {}} /\ state' = Changed("ERROR")
    BY <1>13 DEF Timeout
  <2> QED BY <1>a, <1>b, <2>1, ChangedIsState, ErrorStaysEarly
<1> QED
  BY <1>1, <1>2, <1>3, <1>4, <1>5, <1>6, <1>7, <1>8, <1>9, <1>10, <1>11, <1>12,
     <1>13 DEF Client

LEMMA ResponseNest == Nest /\ HandleResponse => Nest'
<1> SUFFICES ASSUME Nest, HandleResponse PROVE Nest'
  OBVIOUS
<1>a. /\ state \in States
      /\ "DRC_LAST" \in sub => "DRC" \in sub
      /\ "DRAIN_LAST" \in sub => "DRAIN" \in sub
      /\ "FIRST_IPSC" \in sub => "DRC" \notin sub /\ state \in Early
  BY NestIsEarly
<1>b. ASSUME /\ state' \in States
             /\ "DRC_LAST" \in sub' => "DRC" \in sub'
             /\ "DRAIN_LAST" \in sub' => "DRAIN" \in sub'
             /\ "FIRST_IPSC" \in sub' => "DRC" \notin sub' /\ state' \in Early
      PROVE  Nest'
  BY <1>b DEF Nest, SequencesNest, States, Early
\* A handler that keeps the flags and at most fails keeps Nest.
<1>c. ASSUME sub' = sub, state' \in {state, Changed("ERROR")} PROVE Nest'
  BY <1>a, <1>b, <1>c, ChangedIsState, ErrorStaysEarly
\* So does one that sets flags that open no sequence.
<1>d. ASSUME state' = state, NEW S \in SUBSET {"INPUT_PAUSE", "OUTPUT_PAUSE"},
             sub' \in {sub, sub \cup S}
      PROVE  Nest'
  BY <1>a, <1>b, <1>d
<1>1. CASE HandleIpsc
  <2> DEFINE set == IF state \in {"INPUT_STREAMING", "OPEN"}
                    THEN {"INPUT_PAUSE", "FIRST_IPSC"} ELSE {"DRC", "INPUT_PAUSE"}
             ok  == "DRC" \notin sub /\ CanSet(set)
  <2>1. /\ sub' = IF ok THEN SetSub(set) ELSE sub
        /\ state' = IF ok THEN state ELSE Changed("ERROR")
    BY <1>1 DEF HandleIpsc
  <2>2. CASE ~ok
    BY <2>1, <2>2, <1>c
  <2>3. CASE ok /\ state = "ERROR"
    BY <2>1, <2>3, <1>c DEF SetSub
  <2>4. CASE ok /\ state # "ERROR"
    <3>1. state' = state /\ sub' = sub \cup set
      BY <2>1, <2>4 DEF SetSub
    <3>2. CASE state \in {"INPUT_STREAMING", "OPEN"}
      <4>1. sub' = sub \cup {"INPUT_PAUSE", "FIRST_IPSC"} BY <3>1, <3>2
      <4>2. "DRC" \notin sub' BY <4>1, <2>4
      <4> QED BY <1>a, <1>b, <3>1, <3>2, <4>1, <4>2 DEF Early
    <3>3. CASE state \notin {"INPUT_STREAMING", "OPEN"}
      <4>1. sub' = sub \cup {"DRC", "INPUT_PAUSE"} BY <3>1, <3>3
      <4>2. "FIRST_IPSC" \notin sub
        BY <1>a, <2>4, <3>3 DEF Early
      <4> QED BY <1>a, <1>b, <3>1, <4>1, <4>2
    <3> QED BY <3>2, <3>3
  <2> QED BY <2>2, <2>3, <2>4
<1>2. CASE HandleLast("psc_last", "DRC", "DRC_LAST")
  <2>1. CASE /\ {"DRC", "INPUT_PAUSE"} \subseteq sub
             /\ state' = state
             /\ sub' \in {sub, sub \cup {"DRC_LAST", "OUTPUT_PAUSE"}}
    BY <1>a, <1>b, <2>1
  <2>2. CASE sub' = sub /\ state' = Changed("ERROR")
    BY <2>2, <1>c
  <2> QED BY <1>2, <2>1, <2>2 DEF HandleLast, SetSub
<1>3. CASE HandleLast("drain_last", "DRAIN", "DRAIN_LAST")
  <2>1. CASE /\ {"DRAIN", "INPUT_PAUSE"} \subseteq sub
             /\ state' = state
             /\ sub' \in {sub, sub \cup {"DRAIN_LAST", "OUTPUT_PAUSE"}}
    BY <1>a, <1>b, <2>1
  <2>2. CASE sub' = sub /\ state' = Changed("ERROR")
    BY <2>2, <1>c
  <2> QED BY <1>3, <2>1, <2>2 DEF HandleLast, SetSub
<1>4. CASE HandleDrainDone
  <2>1. \/ state' = state /\ sub' \in {sub, sub \cup {"INPUT_PAUSE"}}
        \/ sub' = sub /\ state' = Changed("ERROR")
    BY <1>4 DEF HandleDrainDone, SetSub
  <2> QED BY <2>1, <1>c, <1>d
<1>5. ASSUME NEW p \in Port, HandleStopDone(p) PROVE Nest'
  <2> DEFINE pause == {IF p = "in" THEN "INPUT_PAUSE" ELSE "OUTPUT_PAUSE"}
  <2>1. \/ state' = state /\ sub' = sub \cup pause
        \/ sub' = sub /\ state' \in {state, Changed("ERROR")}
    BY <1>5 DEF HandleStopDone
  <2> QED BY <2>1, <1>c, <1>d
<1>6. CASE HandleCloseDone
  BY <1>6, <1>c DEF HandleCloseDone
<1>7. CASE HandleError
  BY <1>7, <1>c DEF HandleError
<1> QED
  BY <1>1, <1>2, <1>3, <1>4, <1>5, <1>6, <1>7 DEF HandleResponse

\* The firmware touches neither the state nor the flags.
LEMMA FirmwareNest == Nest /\ (Firmware \/ UNCHANGED vars) => Nest'
<1> SUFFICES ASSUME Nest, Firmware \/ UNCHANGED vars PROVE Nest'
  OBVIOUS
<1>1. state' = state /\ sub' = sub
  BY DEF Firmware, FwCommand, FwIpsc, FwPscLast, FwDrainDone, FwDrainLast,
         FwError, FwHang, Says, vars, session
<1> QED BY <1>1 DEF Nest, SequencesNest

-----------------------------------------------------------------------------
(***************************************************************************)
(* In every session, a last-buffer flag goes with its sequence, and a      *)
(* first port reconfiguration is never open beside a dynamic one or with   *)
(* both ports streaming.                                                   *)
(***************************************************************************)
THEOREM SequencesAlwaysNest == Spec => []SequencesNest
<1>1. Nest /\ [Next]_vars => Nest'
  BY ClientNest, ResponseNest, FirmwareNest DEF Next, Gone
<1>2. Nest => SequencesNest
  BY DEF Nest
<1> QED BY <1>1, <1>2, InitNest, PTL DEF Spec

-----------------------------------------------------------------------------
(* Types.                                                                  *)

\* What is sent and answered is a command and a message.
LEMMA CmdsHas ==
  /\ \A op \in {"start", "stop", "pause", "resume"}, p \in Port :
       <<op, p>> \in Cmds
  /\ <<"drain">> \in Cmds /\ <<"etb">> \in Cmds /\ <<"close">> \in Cmds
BY DEF Cmds

LEMMA MsgsHas ==
  /\ \A p \in Port : <<"stop_done", p>> \in Msgs /\ <<"stop_error", p>> \in Msgs
  /\ <<"ipsc">> \in Msgs /\ <<"psc_last">> \in Msgs /\ <<"drain_done">> \in Msgs
  /\ <<"drain_last">> \in Msgs /\ <<"close_done">> \in Msgs /\ <<"error">> \in Msgs
BY DEF Msgs

LEMMA SendTyped ==
  ASSUME cmds \in Seq(Cmds), NEW s \in Seq(Cmds), Send(s)
  PROVE  cmds' \in Seq(Cmds)
BY DEF Send

LEMMA IfTyped ==
  ASSUME NEW S, NEW c, NEW s \in Seq(S)
  PROVE  If(c, s) \in Seq(S)
BY DEF If

\* What a stop of a port makes the firmware say first.
LEMMA FlushTyped ==
  ASSUME NEW p \in Port
  PROVE  Flush(p) \in Seq(Msgs)
<1>1. /\ << <<"psc_last">> >> \in Seq(Msgs)
      /\ << <<"drain_done">> >> \in Seq(Msgs)
      /\ << <<"drain_last">> >> \in Seq(Msgs)
  BY MsgsHas
<1> DEFINE a == If(fw.psc = "last", << <<"psc_last">> >>)
           b == If(p = "in" /\ fw.drain = "asked", << <<"drain_done">> >>)
           c == If(\/ fw.drain = "last" /\ (p = "out" \/ decode)
                   \/ fw.drain = "asked" /\ p = "in" /\ decode, << <<"drain_last">> >>)
<1>2. a \in Seq(Msgs) /\ b \in Seq(Msgs) /\ c \in Seq(Msgs)
  BY <1>1, IfTyped
<1>3. Flush(p) = a \o b \o c
  BY DEF Flush
<1> HIDE DEF a, b, c
<1> QED BY <1>2, <1>3

LEMMA ChangedTyped ==
  ASSUME state \in States, NEW s \in States
  PROVE  Changed(s) \in States
BY DEF Changed

LEMMA PlusMinusTyped ==
  ASSUME NEW p \in Port PROVE Plus(p) \in States /\ Minus(p) \in States
BY DEF Plus, Minus, Streaming, States

(* Each part of the system keeps the types.                                *)
LEMMA ClientTypes == TypeOK /\ Client => TypeOK'
<1> SUFFICES ASSUME TypeOK, Client PROVE TypeOK'
  OBVIOUS
<1>s. /\ state \in States /\ "ERROR" \in States /\ "CLOSE" \in States
  BY DEF TypeOK, States
<1>c. cmds \in Seq(Cmds) /\ msgs \in Seq(Msgs) BY DEF TypeOK
<1>0. /\ \A op \in {"start", "stop", "pause", "resume"} : \A p \in Port :
            << <<op, p>> >> \in Seq(Cmds)
      /\ << <<"drain">> >> \in Seq(Cmds) /\ << <<"etb">> >> \in Seq(Cmds)
      /\ << <<"close">> >> \in Seq(Cmds)
  <2>1. ASSUME NEW m \in Cmds PROVE <<m>> \in Seq(Cmds)
    BY <2>1
  <2> QED BY <2>1, CmdsHas
<1>p. "in" \in Port /\ "out" \in Port BY DEF Port
<1>1. ASSUME NEW deferred \in BOOLEAN, StreamOnInput(deferred) PROVE TypeOK'
  <2> DEFINE a == << <<"start", "in">> >>
             b == If(MustPause, << <<"pause", "in">> >>)
             c == If(deferred, << <<"etb">> >>)
  <2>1. a \in Seq(Cmds) /\ b \in Seq(Cmds) /\ c \in Seq(Cmds)
    BY <1>0, <1>p, IfTyped
  <2>2. Send(a \o b \o c) BY <1>1 DEF StreamOnInput
  <2> HIDE DEF a, b, c
  <2>3. a \o b \o c \in Seq(Cmds) BY <2>1
  <2>4. cmds' \in Seq(Cmds) BY <1>c, <2>2, <2>3, SendTyped
  <2>5. state' \in States
    BY <1>1, <1>s, <1>p, ChangedTyped, PlusMinusTyped DEF StreamOnInput
  <2> QED BY <1>1, <2>4, <2>5, <1>p DEF StreamOnInput, TypeOK, Flags
<1>2. CASE StreamOnOutput
  <2> DEFINE a == << <<"start", "out">> >>
             b == If(ResumeInput, << <<"resume", "in">> >>)
  <2>1. a \in Seq(Cmds) /\ b \in Seq(Cmds)
    BY <1>0, <1>p, IfTyped
  <2>2. Send(b \o a) BY <1>2 DEF StreamOnOutput
  <2> HIDE DEF a, b
  <2>3. b \o a \in Seq(Cmds) BY <2>1
  <2>4. cmds' \in Seq(Cmds) BY <1>c, <2>2, <2>3, SendTyped
  <2>5. state' \in States
    BY <1>2, <1>s, <1>p, ChangedTyped, PlusMinusTyped DEF StreamOnOutput
  <2> QED BY <1>2, <2>4, <2>5, <1>p DEF StreamOnOutput, TypeOK
<1>3. ASSUME NEW p \in Port, StreamOnFails(p) PROVE TypeOK'
  <2>1. cmds' \in Seq(Cmds)
    BY <1>3, <1>0, <1>c, <1>p, SendTyped DEF StreamOnFails
  <2>2. state' \in States BY <1>3, <1>s, ChangedTyped DEF StreamOnFails
  <2> QED BY <1>3, <2>1, <2>2, <1>p DEF StreamOnFails, TypeOK, FaultKinds
<1>4. CASE QueueInput
  <2>1. cmds' \in Seq(Cmds) BY <1>4, <1>0, <1>c, SendTyped DEF QueueInput
  <2> QED BY <1>4, <2>1 DEF QueueInput, TypeOK, session
<1>5. CASE StopCmd
  <2>1. cmds' \in Seq(Cmds) BY <1>5, <1>0, <1>c, SendTyped DEF StopCmd
  <2> QED BY <1>5, <2>1 DEF StopCmd, TypeOK, SetSub, Flags
<1>6. CASE StartCmd
  <2> DEFINE resume == ~(DrcPending /\ DrainPending)
             in     == resume /\ "INPUT_PAUSE" \in sub
             out    == resume /\ "OUTPUT_PAUSE" \in sub /\ decode
             a == If(in, << <<"resume", "in">> >>)
             b == If(out, << <<"resume", "out">> >>)
  <2>1. a \in Seq(Cmds) /\ b \in Seq(Cmds) BY <1>0, <1>p, IfTyped
  <2>2. Send(a \o b) BY <1>6 DEF StartCmd
  <2>s. sub' \subseteq sub BY <1>6 DEF StartCmd
  <2> HIDE DEF a, b
  <2>3. a \o b \in Seq(Cmds) BY <2>1
  <2>4. cmds' \in Seq(Cmds) BY <1>c, <2>2, <2>3, SendTyped
  <2> QED BY <1>6, <2>4, <2>s DEF StartCmd, TypeOK
<1>7. ASSUME NEW p \in Port, StreamOff(p) PROVE TypeOK'
  <2>1. cmds' \in Seq(Cmds)
    <3>0. <<"stop", p>> \in Cmds BY CmdsHas
    <3>1. << <<"stop", p>> >> \in Seq(Cmds) BY <3>0
    <3>2. cmds' = cmds \/ Send(<< <<"stop", p>> >>) BY <1>7 DEF StreamOff
    <3> QED BY <1>c, <3>1, <3>2, SendTyped
  <2>2. state' \in States BY <1>7, <1>s, ChangedTyped DEF StreamOff
  <2>3. client' \in {client, p} /\ vb2' \subseteq vb2 BY <1>7 DEF StreamOff
  <2>4. UNCHANGED <<sub, decode, closing, packet, signal, msgs, fw, alive, blame>>
    BY <1>7 DEF StreamOff
  <2> QED BY <2>1, <2>2, <2>3, <2>4 DEF TypeOK
<1>8. ASSUME NEW p \in Port, StreamOffDone(p) PROVE TypeOK'
  <2>2. state' \in States
    BY <1>8, <1>s, ChangedTyped, PlusMinusTyped DEF StreamOffDone
  <2>3. /\ signal' \subseteq signal /\ vb2' \subseteq vb2 /\ client' = "idle"
    BY <1>8 DEF StreamOffDone
  <2> QED BY <1>8, <2>2, <2>3 DEF StreamOffDone, TypeOK
<1>9. ASSUME NEW p \in Port, StreamOffBuffersLeft(p) PROVE TypeOK'
  <2>1. cmds' \in Seq(Cmds)
    BY <1>9, <1>0, <1>c, SendTyped DEF StreamOffBuffersLeft
  <2>2. /\ signal' \subseteq signal /\ vb2' \subseteq vb2 /\ client' = "killed"
        /\ blame' = blame \cup {"bufs_left"}
        /\ UNCHANGED <<state, sub, decode, closing, packet, msgs, fw, alive>>
    BY <1>9 DEF StreamOffBuffersLeft
  <2> QED BY <2>1, <2>2 DEF TypeOK, FaultKinds
<1>10. CASE BeginClose
  BY <1>10 DEF BeginClose, TypeOK
<1>11. CASE SessionClose
  <2>1. cmds' \in Seq(Cmds) BY <1>11, <1>0, <1>c, SendTyped DEF SessionClose
  <2>2. state' \in States BY <1>11, <1>s, ChangedTyped DEF SessionClose
  <2>3. sub' \in {sub, {}} /\ client' \in {"closed", "gone"}
    BY <1>11 DEF SessionClose
  <2>4. UNCHANGED <<vb2, decode, closing, packet, signal, msgs, fw, alive, blame>>
    BY <1>11 DEF SessionClose
  <2> QED BY <2>1, <2>2, <2>3, <2>4 DEF TypeOK
<1>12. CASE SessionCloseDone
  <2>2. state' \in States BY <1>12, <1>s, ChangedTyped DEF SessionCloseDone
  <2>3. /\ signal' \subseteq signal /\ packet' \in BOOLEAN
        /\ sub' \in {sub, {}} /\ client' \in {"idle", "gone"}
    BY <1>12 DEF SessionCloseDone
  <2>4. UNCHANGED <<vb2, decode, closing, cmds, msgs, fw, alive, blame>>
    BY <1>12 DEF SessionCloseDone
  <2> QED BY <2>2, <2>3, <2>4 DEF TypeOK
<1>13. CASE Timeout
  <2>1. << >> \in Seq(Cmds) /\ << >> \in Seq(Msgs) OBVIOUS
  <2>2. state' \in States BY <1>13, <1>s, ChangedTyped DEF Timeout
  <2>3. /\ alive' \in BOOLEAN /\ packet' \in BOOLEAN /\ cmds' = << >> /\ msgs' = << >>
        /\ vb2' \subseteq vb2 /\ sub' \in {sub, {}} /\ client' \in {"idle", "gone"}
    BY <1>13 DEF Timeout
  <2>4. UNCHANGED <<decode, closing, signal, fw, blame>>
    BY <1>13 DEF Timeout
  <2> QED BY <2>1, <2>2, <2>3, <2>4 DEF TypeOK
<1> QED
  BY <1>1, <1>2, <1>3, <1>4, <1>5, <1>6, <1>7, <1>8, <1>9, <1>10, <1>11, <1>12,
     <1>13 DEF Client

LEMMA ResponseTypes == TypeOK /\ HandleResponse => TypeOK'
<1> SUFFICES ASSUME TypeOK, HandleResponse PROVE TypeOK'
  OBVIOUS
<1>s. /\ state \in States /\ "ERROR" \in States /\ Changed("ERROR") \in States
  BY ChangedTyped DEF TypeOK, States
<1>1. msgs' \in Seq(Msgs)
  BY DEF HandleResponse, TypeOK
<1>2. UNCHANGED <<vb2, decode, closing, packet, client, cmds, fw, alive>>
  BY DEF HandleResponse
<1> DEFINE Goal ==
      /\ state' \in States /\ sub' \subseteq Flags
      /\ signal' \subseteq Port \cup {"close"}
      /\ blame' \subseteq FaultKinds \cup {"late_ipsc", "drain_unheard", "drain_left"}
<1>3. Goal
  <2>0. /\ sub \subseteq Flags /\ signal \subseteq Port \cup {"close"}
        /\ blame \subseteq FaultKinds \cup {"late_ipsc", "drain_unheard", "drain_left"}
    BY DEF TypeOK
  <2>1. CASE HandleIpsc
    BY <2>0, <2>1, <1>s DEF HandleIpsc, SetSub, Flags
  <2>2. ASSUME NEW m, NEW F, NEW last \in Flags, HandleLast(m, F, last)
        PROVE Goal
    BY <2>0, <2>2, <1>s DEF HandleLast, SetSub, Flags
  <2>3. CASE HandleDrainDone
    BY <2>0, <2>3, <1>s DEF HandleDrainDone, SetSub, Flags
  <2>4. ASSUME NEW p \in Port, HandleStopDone(p) PROVE Goal
    BY <2>0, <2>4, <1>s DEF HandleStopDone, Flags
  <2>5. CASE HandleCloseDone
    BY <2>0, <2>5, <1>s DEF HandleCloseDone
  <2>6. CASE HandleError
    BY <2>0, <2>6, <1>s DEF HandleError
  <2>7. "DRC_LAST" \in Flags /\ "DRAIN_LAST" \in Flags BY DEF Flags
  <2> QED BY <2>1, <2>2, <2>3, <2>4, <2>5, <2>6, <2>7 DEF HandleResponse
<1> QED BY <1>1, <1>2, <1>3 DEF TypeOK

LEMMA FirmwareTypes == TypeOK /\ (Firmware \/ UNCHANGED vars) => TypeOK'
<1> SUFFICES ASSUME TypeOK, Firmware \/ UNCHANGED vars PROVE TypeOK'
  OBVIOUS
<1> DEFINE FwType == [in : {"stop", "run", "pause"}, out : {"stop", "run", "pause"},
             data : {"none", "now", "after"}, psc : {"none", "seen", "last"},
             drain : {"none", "asked", "last"}]
<1>0. fw \in FwType /\ cmds \in Seq(Cmds) /\ msgs \in Seq(Msgs)
  BY DEF TypeOK
<1>1. CASE FwCommand
  <2>1. cmds' \in Seq(Cmds) BY <1>0, <1>1 DEF FwCommand
  <2>2. UNCHANGED <<session, client, signal, alive>> BY <1>1 DEF FwCommand
  <2> DEFINE Out == /\ msgs' \in Seq(Msgs) /\ fw' \in FwType
                    /\ blame' \in {blame, blame \cup {"drain_unheard"}}
  <2>3. Out
    <3>1. ASSUME NEW p \in Port, FwStart(p) PROVE Out
      BY <1>0, <3>1 DEF FwStart
    <3>2. ASSUME NEW p \in Port, FwStop(p) PROVE Out
      <4>1. PICK answer \in {"stop_done", "stop_error"} :
              msgs' = msgs \o Flush(p) \o << <<answer, p>> >>
        BY <3>2 DEF FwStop
      <4>2. << <<answer, p>> >> \in Seq(Msgs)
        <5>1. <<answer, p>> \in Msgs
          BY MsgsHas
        <5> QED BY <5>1
      <4>3. msgs' \in Seq(Msgs)
        BY <4>1, <4>2, <1>0, FlushTyped
      <4>4. fw' \in FwType
        BY <1>0, <3>2 DEF FwStop
      <4>5. blame' \in {blame, blame \cup {"drain_unheard"}}
        BY <3>2 DEF FwStop
      <4> QED BY <4>3, <4>4, <4>5
    <3>3. /\ [fw EXCEPT !.in = IF @ = "run" THEN "pause" ELSE @] \in FwType
          /\ [fw EXCEPT !.in = IF @ = "pause" THEN "run" ELSE @, !.psc = "none"] \in FwType
          /\ [fw EXCEPT !.out = IF @ = "pause" THEN "run" ELSE @] \in FwType
          /\ [fw EXCEPT !.drain = "asked"] \in FwType
          /\ [fw EXCEPT !.data = IF fw.drain = "asked" THEN "after" ELSE "now"] \in FwType
          /\ [fw EXCEPT !.in = "stop", !.out = "stop", !.data = "none",
                        !.psc = "none", !.drain = "none"] \in FwType
      BY <1>0
    <3>4. Append(msgs, <<"close_done">>) \in Seq(Msgs)
      BY <1>0, MsgsHas
    <3> HIDE DEF FwType
    <3> QED BY <1>0, <1>1, <3>1, <3>2, <3>3, <3>4 DEF FwCommand
  <2> QED BY <2>1, <2>2, <2>3 DEF TypeOK, session
<1>2. CASE FwIpsc
  <2>1. msgs' \in Seq(Msgs) BY <1>0, <1>2, MsgsHas DEF FwIpsc, Says
  <2>2. fw' \in FwType BY <1>0, <1>2 DEF FwIpsc
  <2> QED BY <1>2, <2>1, <2>2 DEF FwIpsc, Says, session, TypeOK
<1>3. CASE FwPscLast
  <2>1. msgs' \in Seq(Msgs) BY <1>0, <1>3, MsgsHas DEF FwPscLast, Says
  <2>2. fw' \in FwType BY <1>0, <1>3 DEF FwPscLast
  <2> QED BY <1>3, <2>1, <2>2 DEF FwPscLast, Says, session, TypeOK
<1>4. CASE FwDrainDone
  <2>1. msgs' \in Seq(Msgs) BY <1>0, <1>4, MsgsHas DEF FwDrainDone, Says
  <2>2. fw' \in FwType BY <1>0, <1>4 DEF FwDrainDone
  <2> QED BY <1>4, <2>1, <2>2 DEF FwDrainDone, Says, session, TypeOK
<1>5. CASE FwDrainLast
  <2>1. msgs' \in Seq(Msgs) BY <1>0, <1>5, MsgsHas DEF FwDrainLast, Says
  <2>2. fw' \in FwType BY <1>0, <1>5 DEF FwDrainLast
  <2> QED BY <1>5, <2>1, <2>2 DEF FwDrainLast, Says, session, TypeOK
<1>6. CASE FwError
  <2>1. msgs' \in Seq(Msgs) BY <1>0, <1>6, MsgsHas DEF FwError
  <2> QED BY <1>6, <2>1 DEF FwError, session, TypeOK, FaultKinds
<1>7. CASE FwHang
  <2>1. alive' \in BOOLEAN BY <1>7 DEF FwHang
  <2> QED BY <1>7, <2>1 DEF FwHang, session, TypeOK, FaultKinds
<1>8. CASE UNCHANGED vars
  BY <1>8 DEF vars, session, TypeOK
<1> QED BY <1>1, <1>2, <1>3, <1>4, <1>5, <1>6, <1>7, <1>8 DEF Firmware

LEMMA InitTypes == Init => TypeOK
<1>1. << >> \in Seq(Cmds) /\ << >> \in Seq(Msgs) OBVIOUS
<1>2. SUFFICES ASSUME Init PROVE TypeOK
  OBVIOUS
<1>3. closing \in BOOLEAN /\ packet \in BOOLEAN /\ alive \in BOOLEAN
  BY <1>2 DEF Init
<1> QED BY <1>1, <1>2, <1>3 DEF Init, TypeOK, States

(***************************************************************************)
(* Whatever the client, the firmware and the faults do, the state is one   *)
(* of msm_vidc_state, the flags are those of msm_vidc_sub_state, and every *)
(* packet in flight is one that venus_hfi.c sends or venus_hfi_response.c  *)
(* handles.                                                                *)
(***************************************************************************)
THEOREM TypesAlwaysHold == Spec => []TypeOK
<1>1. TypeOK /\ [Next]_vars => TypeOK'
  BY ClientTypes, ResponseTypes, FirmwareTypes DEF Next, Gone
<1> QED BY <1>1, InitTypes, PTL DEF Spec

-----------------------------------------------------------------------------
(* What the commands in flight will do to a port.                          *)

\* What makes the firmware stop the port.
Stops(p) == {<<"stop", p>>, <<"close">>}

\* The commands leave a running port running; they start it, for good.
Kept(c, p)    == \A i \in 1..Len(c) : c[i] \notin Stops(p)
Started(c, p) == \E i \in 1..Len(c) :
                   /\ c[i] = <<"start", p>>
                   /\ \A j \in (i + 1)..Len(c) : c[j] \notin Stops(p)

\* The port runs once the firmware has seen all that was sent.
WillRun(p) == Started(cmds, p) \/ (fw[p] # "stop" /\ Kept(cmds, p))

\* The session takes calls still.
Well == state \notin {"ERROR", "CLOSE"}

\* Packets with a port and packets without one are never the same.
LEMMA PacketsDiffer ==
  /\ \A a, b, p, q : <<a, p>> = <<b, q>> <=> a = b /\ p = q
  /\ \A a, b, p : <<a>> # <<b, p>>
  /\ \A a, b : <<a>> = <<b>> <=> a = b
<1>1. \A a, b, p : <<a>> # <<b, p>>
  <2> TAKE a, b, p
  <2>1. Len(<<a>>) = 1 /\ Len(<<b, p>>) = 2 OBVIOUS
  <2> QED BY <2>1
<1>2. \A a, b, p, q : <<a, p>> = <<b, q>> <=> a = b /\ p = q OBVIOUS
<1>3. \A a, b : <<a>> = <<b>> <=> a = b OBVIOUS
<1> QED BY <1>1, <1>2, <1>3

\* What a series of commands does is what its parts do, one after the other.
LEMMA AfterBoth ==
  ASSUME NEW c \in Seq(Cmds), NEW d \in Seq(Cmds), NEW p
  PROVE  /\ Kept(c \o d, p) <=> Kept(c, p) /\ Kept(d, p)
         /\ Started(c \o d, p) <=> Started(d, p) \/ (Started(c, p) /\ Kept(d, p))
<1> DEFINE e == c \o d
<1>1. /\ e \in Seq(Cmds) /\ Len(c) \in Nat /\ Len(d) \in Nat /\ Len(e) = Len(c) + Len(d)
      /\ \A i \in 1..Len(c) : e[i] = c[i]
      /\ \A i \in 1..Len(d) : e[Len(c) + i] = d[i]
      /\ \A i \in (Len(c) + 1)..Len(e) :
           i - Len(c) \in 1..Len(d) /\ e[i] = d[i - Len(c)]
  OBVIOUS
<1> DEFINE Bad(x) == x \in Stops(p)
           Good(x) == x = <<"start", p>>
<1> HIDE DEF e, Bad, Good
\* Where e goes on in d.
<1>2. ASSUME NEW i \in 1..Len(e) PROVE i \in 1..Len(c) \/ i \in (Len(c) + 1)..Len(e)
  BY <1>1
<1>3. ASSUME NEW i \in 1..Len(d) PROVE Len(c) + i \in 1..Len(e)
  BY <1>1
<1>4. ASSUME NEW i \in 1..Len(c) PROVE i \in 1..Len(e)
  BY <1>1
<1>5. (\A i \in 1..Len(e) : ~Bad(e[i])) <=>
        (\A i \in 1..Len(c) : ~Bad(c[i])) /\ (\A i \in 1..Len(d) : ~Bad(d[i]))
  BY <1>1, <1>2, <1>3, <1>4
<1>6. ASSUME NEW i \in 1..Len(c)
      PROVE  (\A j \in (i + 1)..Len(e) : ~Bad(e[j])) <=>
               (\A j \in (i + 1)..Len(c) : ~Bad(c[j])) /\ (\A j \in 1..Len(d) : ~Bad(d[j]))
  <2>1. \A j \in (i + 1)..Len(e) : j \in (i + 1)..Len(c) \/ j \in (Len(c) + 1)..Len(e)
    BY <1>1
  <2>2. \A j \in (i + 1)..Len(c) : j \in (i + 1)..Len(e) /\ j \in 1..Len(c)
    BY <1>1
  <2>3. \A j \in 1..Len(d) : Len(c) + j \in (i + 1)..Len(e)
    BY <1>1
  <2> QED BY <1>1, <2>1, <2>2, <2>3
<1>7. ASSUME NEW k \in 1..Len(d)
      PROVE  (\A j \in (Len(c) + k + 1)..Len(e) : ~Bad(e[j])) <=>
               (\A j \in (k + 1)..Len(d) : ~Bad(d[j]))
  <2>1. \A j \in (Len(c) + k + 1)..Len(e) :
          j - Len(c) \in (k + 1)..Len(d) /\ j \in (Len(c) + 1)..Len(e)
    BY <1>1
  <2>2. \A j \in (k + 1)..Len(d) :
          j \in 1..Len(d) /\ Len(c) + j \in (Len(c) + k + 1)..Len(e)
    BY <1>1
  <2> QED BY <1>1, <2>1, <2>2
<1> DEFINE StartedAt(s, i) == Good(s[i]) /\ \A j \in (i + 1)..Len(s) : ~Bad(s[j])
<1>8. ASSUME NEW i \in 1..Len(c)
      PROVE  StartedAt(e, i) <=> StartedAt(c, i) /\ \A j \in 1..Len(d) : ~Bad(d[j])
  BY <1>1, <1>6
<1>9. ASSUME NEW k \in 1..Len(d) PROVE StartedAt(e, Len(c) + k) <=> StartedAt(d, k)
  BY <1>1, <1>7
<1>10. \A i \in (Len(c) + 1)..Len(e) :
         i - Len(c) \in 1..Len(d) /\ Len(c) + (i - Len(c)) = i
  BY <1>1
<1> HIDE DEF StartedAt
<1>11. (\E i \in 1..Len(e) : StartedAt(e, i)) <=>
         \/ \E k \in 1..Len(d) : StartedAt(d, k)
         \/ (\E i \in 1..Len(c) : StartedAt(c, i)) /\ \A j \in 1..Len(d) : ~Bad(d[j])
  <2>1. ASSUME NEW i \in 1..Len(e), StartedAt(e, i)
        PROVE  \/ \E k \in 1..Len(d) : StartedAt(d, k)
               \/ (\E k \in 1..Len(c) : StartedAt(c, k)) /\ \A j \in 1..Len(d) : ~Bad(d[j])
    <3>1. CASE i \in 1..Len(c) BY <3>1, <2>1, <1>8
    <3>2. CASE i \in (Len(c) + 1)..Len(e)
      <4>1. StartedAt(d, i - Len(c)) BY <3>2, <2>1, <1>9, <1>10
      <4> QED BY <4>1, <3>2, <1>10
    <3> QED BY <1>2, <3>1, <3>2
  <2> QED BY <2>1, <1>8, <1>9, <1>3, <1>4
<1> QED BY <1>5, <1>11 DEF e, Kept, Started, StartedAt, Good, Bad

LEMMA AfterOne ==
  ASSUME NEW m, NEW p
  PROVE  /\ Kept(<<m>>, p) <=> m \notin Stops(p)
         /\ Started(<<m>>, p) <=> m = <<"start", p>>
<1>1. Len(<<m>>) = 1 /\ <<m>>[1] = m OBVIOUS
<1>2. 1..1 = {1} /\ (1 + 1)..1 = {} OBVIOUS
<1> QED BY <1>1, <1>2 DEF Kept, Started

LEMMA AfterNone ==
  ASSUME NEW p PROVE Kept(<< >>, p) /\ ~Started(<< >>, p)
<1>1. 1..Len(<< >>) = {} OBVIOUS
<1> QED BY <1>1 DEF Kept, Started

LEMMA AfterIf ==
  ASSUME NEW c, NEW s, NEW p
  PROVE  /\ Kept(If(c, s), p) <=> (c => Kept(s, p))
         /\ Started(If(c, s), p) <=> (c /\ Started(s, p))
BY AfterNone DEF If

\* What the first command in flight does, and what the others do.
LEMMA AfterHead ==
  ASSUME NEW c \in Seq(Cmds), NEW p, c # << >>
  PROVE  /\ Kept(c, p) <=> Head(c) \notin Stops(p) /\ Kept(Tail(c), p)
         /\ Started(c, p) <=> \/ Started(Tail(c), p)
                              \/ Head(c) = <<"start", p>> /\ Kept(Tail(c), p)
<1>1. <<Head(c)>> \in Seq(Cmds) /\ Tail(c) \in Seq(Cmds) /\ c = <<Head(c)>> \o Tail(c)
  OBVIOUS
<1> DEFINE a == <<Head(c)>>
           b == Tail(c)
<1>2. /\ Kept(a \o b, p) <=> Kept(a, p) /\ Kept(b, p)
      /\ Started(a \o b, p) <=> Started(b, p) \/ (Started(a, p) /\ Kept(b, p))
  <2> HIDE DEF a, b
  <2> QED BY <1>1, AfterBoth DEF a, b
<1>3. /\ Kept(a, p) <=> Head(c) \notin Stops(p)
      /\ Started(a, p) <=> Head(c) = <<"start", p>>
  BY AfterOne
<1>4. c = a \o b BY <1>1
<1> HIDE DEF a
<1> QED BY <1>2, <1>3, <1>4

-----------------------------------------------------------------------------
(***************************************************************************)
(* The ports: as long as the session is well and between two calls, the    *)
(* state says which ports vb2 streams, and the firmware runs those, or     *)
(* will once it has seen what was sent.  PortsAgree looks at moments when  *)
(* nothing is in flight; this one holds at every moment, and also while a  *)
(* port is being stopped, when only that port differs.                     *)
(***************************************************************************)
Ports ==
  /\ state = "CLOSE" => client = "gone"
  /\ Well /\ client \in Port \cup {"idle"} =>
       \A p \in Port : /\ Streaming(p) <=> p \in vb2
                       /\ WillRun(p) <=> Streaming(p) /\ client # p

LEMMA FailsToError ==
  ASSUME state \in States
  PROVE  /\ Changed("ERROR") = IF state = "CLOSE" THEN "CLOSE" ELSE "ERROR"
         /\ Changed("CLOSE") = IF state = "ERROR" THEN "ERROR" ELSE "CLOSE"
BY DEF Changed, Allowed, States

\* The states in which the port streams.
Streams(p) ==
  {"STREAMING", IF p = "in" THEN "INPUT_STREAMING" ELSE "OUTPUT_STREAMING"}

LEMMA PlusMinusStreaming ==
  ASSUME state \in States, Well, NEW p \in Port
  PROVE  /\ ~Streaming(p) => /\ Changed(Plus(p)) \in States \ {"ERROR", "CLOSE"}
                             /\ \A q \in Port : Changed(Plus(p)) \in Streams(q)
                                                  <=> q = p \/ Streaming(q)
         /\ Streaming(p) => /\ Changed(Minus(p)) \in States \ {"ERROR", "CLOSE"}
                             /\ \A q \in Port : Changed(Minus(p)) \in Streams(q)
                                                  <=> q # p /\ Streaming(q)
BY DEF Changed, Allowed, States, Plus, Minus, Streaming, Streams, Port, Well

\* The firmware only brings about what was to come.
LEMMA FirmwarePorts ==
  TypeOK /\ Ports /\ (Firmware \/ UNCHANGED vars) => Ports'
<1> SUFFICES ASSUME TypeOK, Ports, Firmware \/ UNCHANGED vars PROVE Ports'
  OBVIOUS
<1>1. UNCHANGED <<state, vb2, client>>
  BY DEF Firmware, FwCommand, FwIpsc, FwPscLast, FwDrainDone, FwDrainLast,
         FwError, FwHang, Says, vars, session
<1>2. ASSUME NEW p \in Port PROVE WillRun(p)' <=> WillRun(p)
  <2>p. p = "in" \/ p = "out" BY DEF Port
  <2>f. fw \in [in : {"stop", "run", "pause"}, out : {"stop", "run", "pause"},
             data : {"none", "now", "after"}, psc : {"none", "seen", "last"},
             drain : {"none", "asked", "last"}]
    BY DEF TypeOK
  <2>1. CASE FwCommand
    <3> DEFINE h == Head(cmds)
    <3>1. /\ Kept(cmds, p) <=> h \notin Stops(p) /\ Kept(Tail(cmds), p)
          /\ Started(cmds, p) <=> \/ Started(Tail(cmds), p)
                                  \/ h = <<"start", p>> /\ Kept(Tail(cmds), p)
      BY <2>1, AfterHead DEF FwCommand, TypeOK
    <3>2. cmds' = Tail(cmds) BY <2>1 DEF FwCommand
    <3> DEFINE Right == (fw'[p] # "stop") <=>
                          (h = <<"start", p>> \/ (fw[p] # "stop" /\ h \notin Stops(p)))
    <3>3. Right
      <4>1. ASSUME NEW q \in Port, h = <<"start", q>>, FwStart(q)
            PROVE  Right
        <5>1. h \notin Stops(p) /\ (h = <<"start", p>> <=> q = p)
          BY <4>1, PacketsDiffer DEF Stops
        <5>2. IF q = p THEN fw'[p] # "stop" ELSE fw'[p] = fw[p]
          BY <4>1, <2>p, <2>f DEF FwStart, Port
        <5> QED BY <5>1, <5>2
      <4>2. ASSUME NEW q \in Port, h = <<"stop", q>>, FwStop(q)
            PROVE  Right
        <5>1. h # <<"start", p>> /\ (h \in Stops(p) <=> q = p)
          BY <4>2, PacketsDiffer DEF Stops
        <5>2. IF q = p THEN fw'[p] = "stop" ELSE fw'[p] = "stop" <=> fw[p] = "stop"
          BY <4>2, <2>p, <2>f DEF FwStop, Port
        <5> QED BY <5>1, <5>2
      <4>3. ASSUME \/ h \in {<<"pause", "in">>, <<"resume", "in">>, <<"resume", "out">>}
                   \/ h \in {<<"drain">>, <<"etb">>},
                   (fw'[p] = "stop") <=> (fw[p] = "stop")
            PROVE  Right
        <5>1. h # <<"start", p>> /\ h \notin Stops(p)
          BY <4>3, PacketsDiffer DEF Stops
        <5> QED BY <4>3, <5>1
      <4>4. ASSUME h = <<"close">>, fw'[p] = "stop"
            PROVE  Right
        <5>1. h # <<"start", p>> /\ h \in Stops(p)
          BY <4>4, PacketsDiffer DEF Stops
        <5> QED BY <4>4, <5>1
      <4>5. /\ [fw EXCEPT !.in = IF @ = "run" THEN "pause" ELSE @][p] = "stop"
                 <=> fw[p] = "stop"
            /\ [fw EXCEPT !.in = IF @ = "pause" THEN "run" ELSE @,
                          !.psc = "none"][p] = "stop"
                 <=> fw[p] = "stop"
            /\ [fw EXCEPT !.out = IF @ = "pause" THEN "run" ELSE @][p] = "stop"
                 <=> fw[p] = "stop"
            /\ [fw EXCEPT !.drain = "asked"][p] = fw[p]
            /\ [fw EXCEPT !.data = IF fw.drain = "asked" THEN "after" ELSE "now"][p]
                 = fw[p]
            /\ [fw EXCEPT !.in = "stop", !.out = "stop", !.data = "none",
                          !.psc = "none", !.drain = "none"][p] = "stop"
        BY <2>f, <2>p
      <4> HIDE DEF Right
      <4> QED BY <2>1, <4>1, <4>2, <4>3, <4>4, <4>5 DEF FwCommand
    <3> QED BY <3>1, <3>2, <3>3 DEF WillRun
  <2>2. ASSUME cmds' = cmds, (fw'[p] = "stop") <=> (fw[p] = "stop")
        PROVE  WillRun(p)' <=> WillRun(p)
    BY <2>2 DEF WillRun
  <2>3. CASE FwIpsc
    BY <2>2, <2>3, <2>p, <2>f DEF FwIpsc, Says
  <2>4. CASE FwPscLast
    BY <2>2, <2>4, <2>p, <2>f DEF FwPscLast, Says
  <2>5. CASE FwDrainDone
    BY <2>2, <2>5, <2>p, <2>f DEF FwDrainDone, Says
  <2>6. CASE FwDrainLast
    BY <2>2, <2>6, <2>p, <2>f DEF FwDrainLast, Says
  <2>7. CASE FwError \/ FwHang \/ UNCHANGED vars
    BY <2>2, <2>7 DEF FwError, FwHang, vars
  <2> QED BY <2>1, <2>3, <2>4, <2>5, <2>6, <2>7 DEF Firmware
<1> QED BY <1>1, <1>2 DEF Ports, Well, Streaming

\* A step that sends nothing, and keeps the state or fails, keeps the ports.
LEMMA FailurePorts ==
  ASSUME TypeOK, Ports, UNCHANGED <<vb2, client, cmds, fw>>,
         state' \in {state, Changed("ERROR")}
  PROVE  Ports'
<1>1. state \in States BY DEF TypeOK
<1>2. CASE state' = state
  BY <1>2 DEF Ports, Well, Streaming, WillRun
<1>3. CASE state' = Changed("ERROR")
  <2>1. state' \in {"ERROR", "CLOSE"} /\ (state' = "CLOSE" => state = "CLOSE")
    BY <1>1, <1>3, FailsToError
  <2> QED BY <2>1 DEF Ports, Well
<1> QED BY <1>2, <1>3

LEMMA ResponsePorts == TypeOK /\ Ports /\ HandleResponse => Ports'
<1> SUFFICES ASSUME TypeOK, Ports, HandleResponse PROVE Ports'
  OBVIOUS
<1>1. state' \in {state, Changed("ERROR")}
  BY DEF HandleResponse, HandleIpsc, HandleLast, HandleDrainDone, HandleStopDone,
         HandleCloseDone, HandleError
<1>2. UNCHANGED <<vb2, client, cmds, fw>>
  BY DEF HandleResponse
<1> QED BY <1>1, <1>2, FailurePorts

\* What a packet sent does for the ports.
LEMMA SendOne ==
  ASSUME cmds \in Seq(Cmds), NEW s \in Seq(Cmds), Send(s), fw' = fw, NEW p
  PROVE  WillRun(p)' <=> Started(s, p) \/ (WillRun(p) /\ Kept(s, p))
<1>1. /\ Kept(cmds', p) <=> Kept(cmds, p) /\ Kept(s, p)
      /\ Started(cmds', p) <=> Started(s, p) \/ (Started(cmds, p) /\ Kept(s, p))
  BY AfterBoth DEF Send
<1> QED BY <1>1 DEF WillRun

LEMMA ClientPorts == TypeOK /\ Ports /\ Client => Ports'
<1> SUFFICES ASSUME TypeOK, Ports, Client PROVE Ports'
  OBVIOUS
<1>t. state \in States /\ cmds \in Seq(Cmds) BY DEF TypeOK
<1>p. "in" \in Port /\ "out" \in Port /\ Port = {"in", "out"} BY DEF Port
<1>s. ASSUME NEW m \in Cmds PROVE <<m>> \in Seq(Cmds)
  BY <1>s
<1>c. \A op \in {"start", "stop", "pause", "resume"}, p \in Port :
        << <<op, p>> >> \in Seq(Cmds)
  BY <1>s, CmdsHas
\* The packets that neither start nor stop a port.
<1>k. ASSUME NEW m, NEW p \in Port,
             \/ m \in {<<"drain">>, <<"etb">>}
             \/ \E q \in Port : m \in {<<"pause", q>>, <<"resume", q>>}
      PROVE  Kept(<<m>>, p) /\ ~Started(<<m>>, p)
  <2>1. m \notin Stops(p) /\ m # <<"start", p>>
    BY <1>k, PacketsDiffer DEF Stops
  <2> QED BY <2>1, AfterOne
<1>m. ASSUME NEW q \in Port, NEW p \in Port
      PROVE  /\ Started(<< <<"start", q>> >>, p) <=> q = p
             /\ Kept(<< <<"start", q>> >>, p)
             /\ ~Started(<< <<"stop", q>> >>, p)
             /\ Kept(<< <<"stop", q>> >>, p) <=> q # p
  <2>1. /\ <<"start", q>> = <<"start", p>> <=> q = p
        /\ <<"start", q>> \notin Stops(p)
        /\ <<"stop", q>> # <<"start", p>>
        /\ <<"stop", q>> \in Stops(p) <=> q = p
    BY PacketsDiffer DEF Stops
  <2> QED BY <2>1, AfterOne
<1>i. MayCall => /\ state # "ERROR" /\ client = "idle" /\ Well
                 /\ \A p \in Port : /\ Streaming(p) <=> p \in vb2
                                    /\ WillRun(p) <=> Streaming(p)
  BY DEF MayCall, Ports, Well, Port
<1>1. ASSUME NEW deferred \in BOOLEAN, StreamOnInput(deferred) PROVE Ports'
  <2> DEFINE a == << <<"start", "in">> >>
             b == If(MustPause, << <<"pause", "in">> >>)
             c == If(deferred, << <<"etb">> >>)
  <2>1. a \in Seq(Cmds) /\ b \in Seq(Cmds) /\ c \in Seq(Cmds)
    BY <1>c, <1>s, <1>p, CmdsHas, IfTyped
  <2>2. Send(a \o b \o c) BY <1>1 DEF StreamOnInput
  <2>3. ASSUME NEW p \in Port
        PROVE  /\ Started(a, p) <=> p = "in"
               /\ Kept(a, p) /\ Kept(b, p) /\ Kept(c, p)
               /\ ~Started(b, p) /\ ~Started(c, p)
    BY <1>k, <1>m, <1>p, AfterIf
  <2> HIDE DEF a, b, c
  <2>4. ASSUME NEW p \in Port
        PROVE  Kept(a \o b \o c, p) /\ (Started(a \o b \o c, p) <=> p = "in")
    <3>1. a \o b \in Seq(Cmds) BY <2>1
    <3>2. Kept(a \o b, p) /\ (Started(a \o b, p) <=> p = "in")
      BY <2>1, <2>3, AfterBoth
    <3> QED BY <2>1, <2>3, <3>1, <3>2, AfterBoth
  <2>5. ASSUME NEW p \in Port PROVE WillRun(p)' <=> p = "in" \/ WillRun(p)
    <3>1. a \o b \o c \in Seq(Cmds) BY <2>1
    <3>2. fw' = fw BY <1>1 DEF StreamOnInput
    <3> QED BY <1>t, <2>2, <2>4, <3>1, <3>2, SendOne
  <2>6. state' = Changed(Plus("in")) /\ client' = client /\ vb2' = vb2 \cup {"in"}
        /\ MayCall /\ "in" \notin vb2
    BY <1>1 DEF StreamOnInput
  <2>7. ~Streaming("in") BY <2>6, <1>i, <1>p
  <2>8. /\ state' \in States \ {"ERROR", "CLOSE"}
        /\ \A q \in Port : Streaming(q)' <=> q = "in" \/ Streaming(q)
    BY <1>t, <1>i, <1>p, <2>6, <2>7, PlusMinusStreaming DEF Streaming, Streams
  <2> QED BY <1>i, <2>5, <2>6, <2>8 DEF Ports
<1>2. CASE StreamOnOutput
  <2> DEFINE a == << <<"start", "out">> >>
             b == If(ResumeInput, << <<"resume", "in">> >>)
  <2>1. a \in Seq(Cmds) /\ b \in Seq(Cmds)
    BY <1>c, <1>p, IfTyped
  <2>2. Send(b \o a) BY <1>2 DEF StreamOnOutput
  <2>3. ASSUME NEW p \in Port
        PROVE  (Started(a, p) <=> p = "out") /\ Kept(a, p) /\ Kept(b, p) /\ ~Started(b, p)
    BY <1>k, <1>m, <1>p, AfterIf
  <2> HIDE DEF a, b
  <2>5. ASSUME NEW p \in Port PROVE WillRun(p)' <=> p = "out" \/ WillRun(p)
    <3>1. b \o a \in Seq(Cmds) BY <2>1
    <3>2. fw' = fw BY <1>2 DEF StreamOnOutput
    <3>3. Kept(b \o a, p) /\ (Started(b \o a, p) <=> p = "out")
      BY <2>1, <2>3, AfterBoth
    <3> QED BY <1>t, <2>2, <3>1, <3>2, <3>3, SendOne
  <2>6. state' = Changed(Plus("out")) /\ client' = client /\ vb2' = vb2 \cup {"out"}
        /\ MayCall /\ "out" \notin vb2
    BY <1>2 DEF StreamOnOutput
  <2>7. ~Streaming("out") BY <2>6, <1>i, <1>p
  <2>8. /\ state' \in States \ {"ERROR", "CLOSE"}
        /\ \A q \in Port : Streaming(q)' <=> q = "out" \/ Streaming(q)
    BY <1>t, <1>i, <1>p, <2>6, <2>7, PlusMinusStreaming DEF Streaming, Streams
  <2> QED BY <1>i, <2>5, <2>6, <2>8 DEF Ports
<1>3. ASSUME NEW p \in Port, StreamOnFails(p) PROVE Ports'
  <2>1. CASE p = "in" /\ state' = Changed("ERROR") /\ UNCHANGED <<client, cmds>>
    BY <1>3, <2>1, FailurePorts DEF StreamOnFails
  <2>2. CASE /\ p = "out" /\ Send(<< <<"stop", "out">> >>) /\ client' = "out"
             /\ state' = state
    <3>1. MayCall /\ "out" \notin vb2 /\ vb2' = vb2 /\ fw' = fw
      BY <1>3, <2>2 DEF StreamOnFails
    <3>2. ASSUME NEW q \in Port PROVE WillRun(q)' <=> WillRun(q) /\ q # "out"
      BY <1>t, <1>c, <1>m, <1>p, <2>2, <3>1, SendOne
    <3>3. \A q \in Port : Streaming(q)' <=> Streaming(q) BY <2>2 DEF Streaming
    <3> QED BY <1>i, <2>2, <3>1, <3>2, <3>3, <1>p DEF Ports, Well
  <2> QED BY <1>3, <2>1, <2>2 DEF StreamOnFails
\* The steps that leave the ports alone.
<1>a. ASSUME NEW s \in Seq(Cmds), Send(s), UNCHANGED <<state, client, vb2, fw>>,
             \A p \in Port : Kept(s, p) /\ ~Started(s, p)
      PROVE  Ports'
  <2>1. \A p \in Port : WillRun(p)' <=> WillRun(p) BY <1>a, <1>t, SendOne
  <2> QED BY <1>a, <2>1 DEF Ports, Well, Streaming
<1>4. CASE QueueInput
  BY <1>4, <1>a, <1>k, <1>s, CmdsHas DEF QueueInput, session
<1>5. CASE StopCmd
  BY <1>5, <1>a, <1>k, <1>s, CmdsHas DEF StopCmd
<1>6. CASE StartCmd
  <2> DEFINE resume == ~(DrcPending /\ DrainPending)
             in     == resume /\ "INPUT_PAUSE" \in sub
             out    == resume /\ "OUTPUT_PAUSE" \in sub /\ decode
             a == If(in, << <<"resume", "in">> >>)
             b == If(out, << <<"resume", "out">> >>)
  <2>1. a \in Seq(Cmds) /\ b \in Seq(Cmds) BY <1>c, <1>p, IfTyped
  <2>2. Send(a \o b) /\ UNCHANGED <<state, client, vb2, fw>> BY <1>6 DEF StartCmd
  <2>3. \A p \in Port : Kept(a, p) /\ Kept(b, p) /\ ~Started(a, p) /\ ~Started(b, p)
    BY <1>k, <1>p, AfterIf
  <2> HIDE DEF a, b
  <2>4. /\ a \o b \in Seq(Cmds)
        /\ \A p \in Port : Kept(a \o b, p) /\ ~Started(a \o b, p)
    BY <2>1, <2>3, AfterBoth
  <2> QED BY <1>a, <2>2, <2>4
<1>7. ASSUME NEW p \in Port, StreamOff(p) PROVE Ports'
  <2>0. /\ client = "idle" /\ p \in vb2 /\ fw' = fw
    BY <1>7 DEF StreamOff
  <2>1. CASE Send(<< <<"stop", p>> >>) /\ client' = p /\ UNCHANGED <<state, vb2>>
    <3>2. ASSUME NEW q \in Port PROVE WillRun(q)' <=> WillRun(q) /\ q # p
      BY <1>t, <1>c, <1>m, <1>p, <2>0, <2>1, SendOne
    <3>3. \A q \in Port : Streaming(q)' <=> Streaming(q) BY <2>1 DEF Streaming
    <3>4. state # "CLOSE" BY <2>0 DEF Ports
    <3> QED BY <1>p, <2>0, <2>1, <3>2, <3>3, <3>4 DEF Ports, Well
  <2>2. CASE state' = Changed("ERROR") /\ client' = client
    <3>1. state' = "ERROR" BY <2>0, <2>2, <1>t, FailsToError DEF Ports
    <3> QED BY <3>1 DEF Ports, Well
  <2> QED BY <1>7, <2>1, <2>2 DEF StreamOff
<1>8. ASSUME NEW p \in Port, StreamOffDone(p) PROVE Ports'
  <2>0. /\ client = p /\ client' = "idle" /\ vb2' = vb2 \ {p} /\ UNCHANGED <<fw, cmds>>
        /\ state' = Changed(IF p \in vb2 THEN Minus(p) ELSE "ERROR")
    BY <1>8 DEF StreamOffDone
  <2>1. state # "CLOSE" BY <2>0, <1>p DEF Ports
  <2>2. \A q \in Port : WillRun(q)' <=> WillRun(q) BY <2>0 DEF WillRun
  <2>3. CASE Well /\ p \in vb2
    <3>1. Streaming(p) BY <2>0, <2>3 DEF Ports
    <3>2. /\ state' \in States \ {"ERROR", "CLOSE"}
          /\ \A q \in Port : Streaming(q)' <=> q # p /\ Streaming(q)
      BY <1>t, <2>0, <2>3, <3>1, PlusMinusStreaming DEF Streaming, Streams
    <3> QED BY <1>p, <2>0, <2>2, <2>3, <3>2 DEF Ports
  <2>4. CASE ~Well \/ p \notin vb2
    <3>1. state' = "ERROR"
      BY <2>0, <2>1, <2>4, <1>t, FailsToError DEF Well, Changed, Allowed, States
    <3> QED BY <3>1 DEF Ports, Well
  <2> QED BY <2>3, <2>4
<1>9. ASSUME NEW p \in Port, StreamOffBuffersLeft(p) PROVE Ports'
  <2>1. client = p /\ client' = "killed" /\ state' = state
    BY <1>9 DEF StreamOffBuffersLeft
  <2> QED BY <2>1, <1>p DEF Ports
<1>10. CASE BeginClose
  BY <1>10 DEF BeginClose, Ports, Well, Streaming, WillRun
<1>11. CASE SessionClose
  <2>1. \/ client' = "closed" /\ state' = state /\ client = "idle"
        \/ client' = "gone"
    BY <1>11 DEF SessionClose
  <2> QED BY <2>1 DEF Ports, Port
<1>12. CASE SessionCloseDone
  <2>1. /\ client \in {"killed", "closed"}
        /\ \/ client' = "gone"
           \/ state' = Changed("ERROR")
    BY <1>12 DEF SessionCloseDone
  <2>2. state # "CLOSE" BY <2>1 DEF Ports
  <2> QED BY <2>1, <2>2, <1>t, FailsToError DEF Ports, Port, Well
<1>13. CASE Timeout
  <2>1. state' = Changed("ERROR") /\ client # "gone"
    BY <1>13 DEF Timeout, NoAnswer, Port
  <2> QED BY <2>1, <1>t, FailsToError DEF Ports, Well
<1> QED
  BY <1>1, <1>2, <1>3, <1>4, <1>5, <1>6, <1>7, <1>8, <1>9, <1>10, <1>11, <1>12,
     <1>13 DEF Client

LEMMA InitPorts == Init => Ports
<1> SUFFICES ASSUME Init PROVE Ports
  OBVIOUS
<1>1. \A p \in Port : ~WillRun(p)
  BY AfterNone DEF Init, WillRun, Port
<1> QED BY <1>1 DEF Init, Ports, Streaming, Port

(***************************************************************************)
(* When nothing is in flight and the session has not failed, the session's *)
(* state, vb2 and the firmware agree on which ports stream: no order of    *)
(* streamon, streamoff, stop and start commands, port reconfigurations and *)
(* faults leaves the firmware running a port the driver believes stopped,  *)
(* or the reverse (msm_vidc_state_change_streamon, _streamoff,             *)
(* msm_vidc_session_streamoff).                                            *)
(***************************************************************************)
THEOREM PortsAlwaysAgree == Spec => []PortsAgree
<1>1. TypeOK /\ Ports /\ [Next]_vars => TypeOK' /\ Ports'
  BY ClientTypes, ResponseTypes, FirmwareTypes, ClientPorts, ResponsePorts,
     FirmwarePorts DEF Next, Gone
<1>2. Ports => PortsAgree
  <2> SUFFICES ASSUME Ports, Quiet, state # "ERROR"
               PROVE  \A p \in Port : /\ Streaming(p) <=> p \in vb2
                                      /\ Streaming(p) <=> fw[p] # "stop"
    BY DEF PortsAgree
  <2>1. \A p \in Port : WillRun(p) <=> fw[p] # "stop"
    BY AfterNone DEF Quiet, WillRun
  <2>2. client = "idle" /\ client \notin Port /\ Well BY DEF Quiet, Ports, Well, Port
  <2> QED BY <2>1, <2>2 DEF Ports
<1> QED BY <1>1, <1>2, InitTypes, InitPorts, PTL DEF Spec

-----------------------------------------------------------------------------
(* The answers the driver waits for.                                       *)

\* The answer to the stop of a port, and to the close, is on its way.
StopComing(p) ==
  \/ InFlight(<<"stop", p>>, cmds)
  \/ InFlight(<<"stop_done", p>>, msgs) \/ InFlight(<<"stop_error", p>>, msgs)
  \/ p \in signal
CloseComing ==
  InFlight(<<"close">>, cmds) \/ InFlight(<<"close_done">>, msgs) \/ "close" \in signal

(***************************************************************************)
(* Whoever waits is answered: while the firmware lives, the answer to the  *)
(* stop or the close the driver waits for is among the commands to be      *)
(* handled, the messages to be read, or signalled already.  A stop is left *)
(* out when the start of its port failed: the port is not one of vb2's     *)
(* then, and a session that has not failed always streams those it stops.  *)
(***************************************************************************)
Answered ==
  /\ "streamon_fails" \notin blame /\ client \in Port =>
       /\ Well => client \in vb2
       /\ alive => StopComing(client)
  /\ alive /\ client \in {"killed", "closed"} => CloseComing

\* A message is in flight in a series when it is in one of its parts.
LEMMA InFlightBoth ==
  ASSUME NEW S, NEW c \in Seq(S), NEW d \in Seq(S), NEW m
  PROVE  InFlight(m, c \o d) <=> InFlight(m, c) \/ InFlight(m, d)
<1> DEFINE e == c \o d
<1>1. /\ e \in Seq(S) /\ Len(c) \in Nat /\ Len(d) \in Nat /\ Len(e) = Len(c) + Len(d)
      /\ \A i \in 1..Len(c) : i \in 1..Len(e) /\ e[i] = c[i]
      /\ \A i \in 1..Len(d) : Len(c) + i \in 1..Len(e) /\ e[Len(c) + i] = d[i]
      /\ \A i \in 1..Len(e) :
           i \in 1..Len(c) \/ (i - Len(c) \in 1..Len(d) /\ e[i] = d[i - Len(c)])
  OBVIOUS
<1> HIDE DEF e
<1>2. InFlight(m, e) <=> InFlight(m, c) \/ InFlight(m, d)
  BY <1>1 DEF InFlight
<1> QED BY <1>2 DEF e

LEMMA InFlightOne ==
  ASSUME NEW x, NEW m PROVE InFlight(m, <<x>>) <=> x = m
<1>1. Len(<<x>>) = 1 /\ <<x>>[1] = x /\ 1..1 = {1} OBVIOUS
<1> QED BY <1>1 DEF InFlight

LEMMA InFlightHead ==
  ASSUME NEW S, NEW c \in Seq(S), NEW m, c # << >>
  PROVE  InFlight(m, c) <=> Head(c) = m \/ InFlight(m, Tail(c))
<1> DEFINE a == <<Head(c)>>
           b == Tail(c)
<1>1. a \in Seq(S) /\ b \in Seq(S) /\ c = a \o b
  OBVIOUS
<1>3. InFlight(m, a) <=> Head(c) = m
  BY InFlightOne
<1> HIDE DEF a, b
<1>2. InFlight(m, a \o b) <=> InFlight(m, a) \/ InFlight(m, b)
  BY <1>1, InFlightBoth
<1> QED BY <1>1, <1>2, <1>3 DEF b

LEMMA InFlightAppend ==
  ASSUME NEW S, NEW c \in Seq(S), NEW x \in S, NEW m
  PROVE  InFlight(m, Append(c, x)) <=> InFlight(m, c) \/ x = m
<1> DEFINE a == <<x>>
<1>1. a \in Seq(S) /\ Append(c, x) = c \o a
  OBVIOUS
<1>2. InFlight(m, a) <=> x = m
  BY InFlightOne
<1> HIDE DEF a
<1>3. InFlight(m, c \o a) <=> InFlight(m, c) \/ InFlight(m, a)
  BY <1>1, InFlightBoth
<1> QED BY <1>1, <1>2, <1>3

LEMMA SendKeeps ==
  ASSUME cmds \in Seq(Cmds), NEW s \in Seq(Cmds), Send(s), NEW m
  PROVE  InFlight(m, cmds') <=> InFlight(m, cmds) \/ InFlight(m, s)
BY InFlightBoth DEF Send

\* The firmware drops no command without its answer.
LEMMA FirmwareAnswers ==
  TypeOK /\ Answered /\ (Firmware \/ UNCHANGED vars) => Answered'
<1> SUFFICES ASSUME TypeOK, Answered, Firmware \/ UNCHANGED vars PROVE Answered'
  OBVIOUS
<1>1. /\ UNCHANGED <<state, vb2, client, signal>>
      /\ alive' => alive
      /\ "streamon_fails" \in blame => "streamon_fails" \in blame'
  BY DEF Firmware, FwCommand, FwStart, FwStop, FwIpsc, FwPscLast, FwDrainDone,
     FwDrainLast,
         FwError, FwHang, Says, vars, session
<1>t. cmds \in Seq(Cmds) /\ msgs \in Seq(Msgs) BY DEF TypeOK
<1>2. /\ \A p \in Port : StopComing(p) => StopComing(p)'
      /\ CloseComing => CloseComing'
  <2>1. CASE FwCommand
    <3> DEFINE h == Head(cmds)
    <3>1. /\ cmds # << >> /\ cmds' = Tail(cmds) /\ UNCHANGED signal
      BY <2>1 DEF FwCommand
    <3>2. \A m : InFlight(m, cmds) <=> h = m \/ InFlight(m, cmds')
      BY <1>t, <3>1, InFlightHead
    <3>3. ASSUME NEW q \in Port, h = <<"stop", q>>, FwStop(q)
          PROVE  /\ \A p \in Port : StopComing(p) => StopComing(p)'
                 /\ CloseComing => CloseComing'
      <4>1. PICK answer \in {"stop_done", "stop_error"} :
              msgs' = msgs \o Flush(q) \o << <<answer, q>> >>
        BY <3>3 DEF FwStop
      <4> DEFINE a == msgs \o Flush(q)
                 b == << <<answer, q>> >>
      <4>2. /\ a \in Seq(Msgs) /\ b \in Seq(Msgs)
            /\ \A m : InFlight(m, msgs) => InFlight(m, a)
            /\ InFlight(<<answer, q>>, b)
        <5>1. <<answer, q>> \in Msgs BY MsgsHas
        <5>2. Flush(q) \in Seq(Msgs) BY FlushTyped
        <5> QED BY <1>t, <5>1, <5>2, InFlightBoth, InFlightOne
      <4>3. msgs' = a \o b BY <4>1
      <4> HIDE DEF a, b
      <4>4. \A m : InFlight(m, msgs) => InFlight(m, msgs')
        BY <4>2, <4>3, InFlightBoth
      <4>5. InFlight(<<"stop_done", q>>, msgs') \/ InFlight(<<"stop_error", q>>, msgs')
        BY <4>2, <4>3, InFlightBoth
      <4>6. \A p \in Port : h = <<"stop", p>> => p = q
        BY <3>3, PacketsDiffer
      <4>7. h # <<"close">> BY <3>3, PacketsDiffer
      <4> QED BY <3>1, <3>2, <4>4, <4>5, <4>6, <4>7 DEF StopComing, CloseComing
    <3>4. ASSUME msgs' = msgs, \A p \in Port : h # <<"stop", p>>, h # <<"close">>
          PROVE  /\ \A p \in Port : StopComing(p) => StopComing(p)'
                 /\ CloseComing => CloseComing'
      BY <3>1, <3>2, <3>4 DEF StopComing, CloseComing
    <3>5. ASSUME h = <<"close">>, msgs' = Append(msgs, <<"close_done">>)
          PROVE  /\ \A p \in Port : StopComing(p) => StopComing(p)'
                 /\ CloseComing => CloseComing'
      <4>1. \A m : InFlight(m, msgs') <=> InFlight(m, msgs) \/ <<"close_done">> = m
        BY <1>t, <3>5, MsgsHas, InFlightAppend
      <4>2. \A p \in Port : h # <<"stop", p>> BY <3>5, PacketsDiffer
      <4> QED BY <3>1, <3>2, <4>1, <4>2 DEF StopComing, CloseComing
    <3>6. ASSUME NEW q \in Port, h = <<"start", q>>, FwStart(q)
          PROVE  msgs' = msgs /\ (\A p \in Port : h # <<"stop", p>>) /\ h # <<"close">>
      BY <3>6, PacketsDiffer DEF FwStart
    <3>7. ASSUME \/ h \in {<<"pause", "in">>, <<"resume", "in">>, <<"resume", "out">>}
                 \/ h \in {<<"drain">>, <<"etb">>}
          PROVE  (\A p \in Port : h # <<"stop", p>>) /\ h # <<"close">>
      BY <3>7, PacketsDiffer
    <3> QED BY <2>1, <3>3, <3>4, <3>5, <3>6, <3>7 DEF FwCommand
  <2>2. ASSUME UNCHANGED <<cmds, signal>>, NEW m \in Msgs, msgs' = Append(msgs, m)
        PROVE  /\ \A p \in Port : StopComing(p) => StopComing(p)'
               /\ CloseComing => CloseComing'
    <3>1. \A n : InFlight(n, msgs) => InFlight(n, msgs')
      BY <1>t, <2>2, InFlightAppend
    <3> QED BY <2>2, <3>1 DEF StopComing, CloseComing
  <2>3. CASE FwIpsc BY <2>2, <2>3, MsgsHas DEF FwIpsc, Says
  <2>4. CASE FwPscLast BY <2>2, <2>4, MsgsHas DEF FwPscLast, Says
  <2>5. CASE FwDrainDone BY <2>2, <2>5, MsgsHas DEF FwDrainDone, Says
  <2>6. CASE FwDrainLast BY <2>2, <2>6, MsgsHas DEF FwDrainLast, Says
  <2>7. CASE FwError BY <2>2, <2>7, MsgsHas DEF FwError
  <2>8. CASE FwHang \/ UNCHANGED vars
    BY <2>8 DEF FwHang, vars, StopComing, CloseComing
  <2> QED BY <2>1, <2>3, <2>4, <2>5, <2>6, <2>7, <2>8 DEF Firmware
<1> QED BY <1>1, <1>2 DEF Answered, Well

\* The interrupt thread signals what it reads.
LEMMA ResponseAnswers ==
  TypeOK /\ Ports /\ Answered /\ HandleResponse => Answered'
<1> SUFFICES ASSUME TypeOK, Ports, Answered, HandleResponse PROVE Answered'
  OBVIOUS
<1>t. state \in States /\ cmds \in Seq(Cmds) /\ msgs \in Seq(Msgs) BY DEF TypeOK
<1> DEFINE h == Head(msgs)
<1>1. UNCHANGED <<vb2, client, cmds, alive>> /\ msgs # << >> /\ msgs' = Tail(msgs)
  BY DEF HandleResponse
<1>2. /\ state' \in {state, Changed("ERROR")} /\ signal \subseteq signal'
      /\ "streamon_fails" \in blame => "streamon_fails" \in blame'
  BY DEF HandleResponse, HandleIpsc, HandleLast, HandleDrainDone, HandleStopDone,
         HandleCloseDone, HandleError
<1>3. Well' => Well /\ state' = state
  BY <1>2, <1>t, FailsToError DEF Well
<1>4. \A m : InFlight(m, msgs) <=> h = m \/ InFlight(m, msgs')
  BY <1>t, <1>1, InFlightHead
<1>5. h = <<"close_done">> => "close" \in signal'
  <2> SUFFICES ASSUME h = <<"close_done">> PROVE "close" \in signal'
    OBVIOUS
  <2>1. ~HandleIpsc /\ ~HandleDrainDone /\ ~HandleError
        /\ ~HandleLast("psc_last", "DRC", "DRC_LAST")
        /\ ~HandleLast("drain_last", "DRAIN", "DRAIN_LAST")
    BY PacketsDiffer DEF HandleIpsc, HandleDrainDone, HandleError, HandleLast
  <2>2. \A p \in Port : ~HandleStopDone(p)
    BY PacketsDiffer DEF HandleStopDone
  <2> QED BY <2>1, <2>2 DEF HandleResponse, HandleCloseDone
<1>6. ASSUME NEW p \in Port, h \in {<<"stop_done", p>>, <<"stop_error", p>>},
             Well => p \in vb2, client = p
      PROVE  p \in signal'
  <2>1. /\ ~HandleIpsc /\ ~HandleDrainDone /\ ~HandleError /\ ~HandleCloseDone
        /\ ~HandleLast("psc_last", "DRC", "DRC_LAST")
        /\ ~HandleLast("drain_last", "DRAIN", "DRAIN_LAST")
    BY <1>6, PacketsDiffer
       DEF HandleIpsc, HandleDrainDone, HandleError, HandleLast, HandleCloseDone
  <2>2. ASSUME NEW q \in Port, HandleStopDone(q) PROVE q = p
    BY <1>6, <2>2, PacketsDiffer DEF HandleStopDone
  <2>3. HandleStopDone(p) BY <2>1, <2>2 DEF HandleResponse
  <2>4. state # "CLOSE" BY <1>6 DEF Ports, Port
  <2>5. state = "ERROR" \/ CanSet({IF p = "in" THEN "INPUT_PAUSE" ELSE "OUTPUT_PAUSE"})
    <3>1. Well => Streaming(p) BY <1>6 DEF Ports
    <3> QED BY <2>4, <3>1, <1>t DEF Well, Streaming, CanSet, Refused, States, Port, Flags
  <2> QED BY <2>3, <2>5 DEF HandleStopDone
<1>7. ASSUME client \in Port, "streamon_fails" \notin blame
      PROVE  /\ Well' => client \in vb2
             /\ alive => StopComing(client)'
  <2>1. (Well => client \in vb2) /\ (alive => StopComing(client))
    BY <1>7 DEF Answered
  <2>2. h \in {<<"stop_done", client>>, <<"stop_error", client>>} => client \in signal'
    BY <1>6, <1>7, <2>1
  <2> QED BY <1>1, <1>2, <1>3, <1>4, <2>1, <2>2 DEF StopComing
<1>8. alive /\ CloseComing => CloseComing'
  BY <1>1, <1>2, <1>4, <1>5 DEF CloseComing
<1> QED BY <1>1, <1>2, <1>7, <1>8 DEF Answered

\* A client that waits has just asked.
LEMMA ClientAnswers ==
  TypeOK /\ Ports /\ Answered /\ Client => Answered'
<1> SUFFICES ASSUME TypeOK, Ports, Answered, Client PROVE Answered'
  OBVIOUS
<1>t. state \in States /\ cmds \in Seq(Cmds) BY DEF TypeOK
<1>c. /\ \A p \in Port : << <<"stop", p>> >> \in Seq(Cmds)
      /\ << <<"close">> >> \in Seq(Cmds)
  <2>1. ASSUME NEW m \in Cmds PROVE <<m>> \in Seq(Cmds)
    BY <2>1
  <2> QED BY <2>1, CmdsHas
<1>i. client' \notin Port \cup {"killed", "closed"} => Answered'
  BY DEF Answered
<1>n. /\ "idle" \notin Port \cup {"killed", "closed"}
      /\ "gone" \notin Port \cup {"killed", "closed"}
      /\ "killed" \notin Port /\ "closed" \notin Port
  BY DEF Port
<1>1. ASSUME NEW deferred \in BOOLEAN, StreamOnInput(deferred) PROVE Answered'
  BY <1>1, <1>i, <1>n DEF StreamOnInput, MayCall
<1>2. CASE StreamOnOutput
  BY <1>2, <1>i, <1>n DEF StreamOnOutput, MayCall
<1>3. ASSUME NEW p \in Port, StreamOnFails(p) PROVE Answered'
  <2>1. "streamon_fails" \in blame' /\ client' \notin {"killed", "closed"}
    BY <1>3, <1>n DEF StreamOnFails, MayCall
  <2> QED BY <2>1 DEF Answered
<1>4. CASE QueueInput \/ StopCmd \/ StartCmd \/ BeginClose
  BY <1>4, <1>i, <1>n DEF QueueInput, StopCmd, StartCmd, BeginClose, MayCall
<1>7. ASSUME NEW p \in Port, StreamOff(p) PROVE Answered'
  <2>0. /\ client = "idle" /\ p \in vb2
    BY <1>7 DEF StreamOff
  <2>1. CASE Send(<< <<"stop", p>> >>) /\ client' = p /\ UNCHANGED <<state, vb2>>
    <3>1. InFlight(<<"stop", p>>, cmds')
      BY <1>t, <1>c, <2>1, SendKeeps, InFlightOne
    <3> QED BY <2>0, <2>1, <3>1, <1>n DEF Answered, StopComing
  <2>2. CASE client' = client
    BY <2>0, <2>2, <1>i, <1>n
  <2> QED BY <1>7, <2>1, <2>2 DEF StreamOff
<1>8. ASSUME NEW p \in Port, StreamOffDone(p) PROVE Answered'
  BY <1>8, <1>i, <1>n DEF StreamOffDone
<1>9. ASSUME NEW p \in Port, StreamOffBuffersLeft(p) PROVE Answered'
  <2>1. client' = "killed" /\ Send(<< <<"close">> >>)
    BY <1>9 DEF StreamOffBuffersLeft
  <2>2. InFlight(<<"close">>, cmds')
    BY <1>t, <1>c, <2>1, SendKeeps, InFlightOne
  <2> QED BY <2>1, <2>2, <1>n DEF Answered, CloseComing
<1>11. CASE SessionClose
  <2>1. CASE client' = "closed" /\ Send(<< <<"close">> >>)
    <3>1. InFlight(<<"close">>, cmds')
      BY <1>t, <1>c, <2>1, SendKeeps, InFlightOne
    <3> QED BY <2>1, <3>1, <1>n DEF Answered, CloseComing
  <2> QED BY <1>11, <2>1, <1>i, <1>n DEF SessionClose
<1>12. CASE SessionCloseDone \/ Timeout
  BY <1>12, <1>i, <1>n DEF SessionCloseDone, Timeout
<1> QED
  BY <1>1, <1>2, <1>3, <1>4, <1>7, <1>8, <1>9, <1>11, <1>12 DEF Client

(***************************************************************************)
(* A wait for the answer to a stop or a close runs out only when the       *)
(* firmware hangs, or when the port stopped was never started: no order of *)
(* answers, errors and calls loses or takes away the completion waited for *)
(* (msm_vidc_session_streamoff, msm_vidc_session_close,                    *)
(* handle_session_stop, handle_session_close).                             *)
(***************************************************************************)
THEOREM OnlyHangsEverTimeOut == Spec => []OnlyHangsTimeOut
<1>1. TypeOK /\ Ports /\ Answered /\ [Next]_vars => TypeOK' /\ Ports' /\ Answered'
  BY ClientTypes, ResponseTypes, FirmwareTypes, ClientPorts, ResponsePorts,
     FirmwarePorts,
     ClientAnswers, ResponseAnswers, FirmwareAnswers DEF Next, Gone
<1>2. Answered => OnlyHangsTimeOut
  <2> SUFFICES ASSUME Answered, NoAnswer, alive, "streamon_fails" \notin blame PROVE FALSE
    BY DEF OnlyHangsTimeOut
  <2>1. signal = {} /\ msgs = << >> /\ cmds = << >> BY DEF NoAnswer
  <2>2. \A m : ~InFlight(m, << >>)
    <3>1. 1..Len(<< >>) = {} OBVIOUS
    <3> QED BY <3>1 DEF InFlight
  <2> QED BY <2>1, <2>2 DEF Answered, StopComing, CloseComing, NoAnswer
<1>3. Init => Answered
  BY DEF Init, Answered, Port
<1> QED BY <1>1, <1>2, <1>3, InitTypes, InitPorts, PTL DEF Spec
-----------------------------------------------------------------------------
(***************************************************************************)
(* Why a session fails only for a reason.  What follows holds as long as   *)
(* nothing has gone wrong (blame is empty); it says which packets may be   *)
(* in flight together, and in which order, and what the flags of the       *)
(* driver and the firmware's side of the session then are.                 *)
(***************************************************************************)

\* The packets of a session that has not failed, but for the close.
StartIn  == <<"start", "in">>
StartOut == <<"start", "out">>
StopIn   == <<"stop", "in">>
StopOut  == <<"stop", "out">>
PauseIn  == <<"pause", "in">>
ResumeIn == <<"resume", "in">>
ResumeOut == <<"resume", "out">>
Drain    == <<"drain">>
Etb      == <<"etb">>

Ipsc      == <<"ipsc">>
PscLast   == <<"psc_last">>
DrainDone == <<"drain_done">>
DrainLast == <<"drain_last">>
StopDoneIn  == <<"stop_done", "in">>
StopDoneOut == <<"stop_done", "out">>

Sent(m) == InFlight(m, cmds)
Said(m) == InFlight(m, msgs)

\* No pair of R is in s in that order.
Ordered(s, R) == \A i, j \in 1..Len(s) : i < j => <<s[i], s[j]>> \notin R

\* Commands that do not follow one another.  Nothing follows a stop.
CmdBars ==
  { <<Drain, StartIn>>, <<Drain, PauseIn>>, <<Drain, Drain>>,
    <<Etb, StartIn>>, <<Etb, PauseIn>>,
    <<PauseIn, StartIn>>, <<PauseIn, PauseIn>>,
    <<ResumeIn, ResumeIn>>, <<ResumeIn, PauseIn>>,
    <<StartIn, StartIn>>, <<StartOut, StartOut>>, <<StartOut, ResumeIn>> }
  \cup ({StopIn, StopOut} \X Cmds)

\* Answers that do not follow one another.  The last buffer of an encoder may
\* follow the answer to the stop of its input.
MsgBars ==
  { <<DrainDone, Ipsc>>, <<DrainLast, DrainLast>>, <<DrainLast, DrainDone>>,
    <<DrainLast, PscLast>>, <<Ipsc, Ipsc>>, <<PscLast, Ipsc>>, <<PscLast, PscLast>>,
    <<StopDoneIn, StopDoneIn>>, <<StopDoneIn, Ipsc>>, <<StopDoneIn, DrainDone>>,
    <<StopDoneIn, PscLast>>, <<StopDoneOut, StopDoneOut>>,
    <<StopDoneOut, PscLast>>, <<StopDoneOut, DrainLast>> }
  \cup (IF decode THEN { <<StopDoneIn, DrainLast>> } ELSE {})

\* A resume of the input behind its start.
LateResume == { <<StartIn, ResumeIn>> }

InOrder == Ordered(cmds, CmdBars) /\ Ordered(msgs, MsgBars)

\* The last buffer of a settings change, or of a drain, is still to be handled.
DrcWaits   == "DRC" \in sub /\ "DRC_LAST" \notin sub
DrainWaits == "DRAIN" \in sub /\ "DRAIN_LAST" \notin sub
Paused     == "INPUT_PAUSE" \in sub

\* A call: the stop of a port is the last thing sent, its answer empties the
\* queue of commands, and only the client that waits takes it.
Call(p, start, stop, done) ==
  /\ client # p => p \notin signal /\ ~Sent(stop) /\ ~Said(done)
  /\ client = p => Streaming(p)
  /\ p \in signal \/ Said(done) => cmds = << >> /\ fw[p] = "stop"
  /\ p \in signal => ~Said(done)
  /\ Sent(start) => fw[p] = "stop" /\ Streaming(p)
  /\ fw[p] # "stop" => Streaming(p)
  /\ Sent(stop) /\ fw[p] = "stop" => Sent(start)

Calls ==
  /\ Call("in", StartIn, StopIn, StopDoneIn)
  /\ Call("out", StartOut, StopOut, StopDoneOut)
  /\ ~Sent(<<"close">>) /\ ~Said(<<"close_done">>) /\ ~Said(<<"error">>)
  /\ ~Said(<<"stop_error", "in">>) /\ ~Said(<<"stop_error", "out">>)

\* What the firmware says of a port is read before the port has stopped.
Heard ==
  /\ Said(Ipsc) \/ Said(DrainDone) \/ Said(PscLast) \/ (decode /\ Said(DrainLast)) =>
       Streaming("in") /\ "in" \notin signal
  /\ Said(PscLast) \/ Said(DrainLast) =>
       Streaming("out") /\ "out" \notin signal /\ ~Sent(StartOut)
  /\ ~decode => /\ ~Said(Ipsc) /\ ~Said(PscLast) /\ fw.psc = "none"
                /\ "DRC" \notin sub /\ "FIRST_IPSC" \notin sub

\* The firmware is in one sequence at a time.
Sequences ==
  /\ fw.psc # "none" => /\ fw.in = "pause" /\ fw.drain # "last"
                        /\ ~Said(DrainLast) /\ ~Said(DrainDone)
  /\ fw.psc = "last" => fw.out # "stop"
  /\ fw.drain = "last" => /\ fw.out # "stop"
                          /\ decode => fw.in = "pause" /\ ~Sent(ResumeIn)
  /\ fw.drain = "asked" => fw.in # "stop"
  /\ decode /\ fw.in = "stop" => fw.drain = "none"

\* A drain waits for its last buffer exactly as long as that is to come.
DrainComes ==
  /\ DrainWaits <=> Sent(Drain) \/ fw.drain # "none" \/ Said(DrainLast)
  /\ Sent(Drain) => fw.drain = "none" /\ ~Said(DrainLast)
  /\ Said(DrainLast) => fw.drain = "none"
  /\ Said(DrainDone) => DrainWaits /\ fw.drain # "asked" /\ ~Sent(Drain)
  /\ fw.drain = "last" \/ Said(DrainLast) =>
       /\ Paused \/ Said(DrainDone)
       /\ "DRC_LAST" \in sub => client = "in"

\* So does a settings change, unless its IPSC is not read yet.
DrcComes ==
  /\ DrcWaits => LastIsComing
  /\ \/ fw.psc = "last" \/ Said(PscLast)
     \/ fw.psc = "seen" /\ Sent(StartOut) /\ ~Sent(ResumeIn)
     => DrcWaits \/ Said(Ipsc)
  /\ DrcWaits => "DRAIN_LAST" \notin sub
  /\ Said(PscLast) => /\ fw.psc # "last" /\ fw.drain # "last"
                      /\ Said(DrainLast) => client = "in"
  /\ Sent(StartOut) => "DRC_LAST" \notin sub /\ "DRAIN_LAST" \notin sub
  /\ "FIRST_IPSC" \in sub => "DRAIN_LAST" \notin sub

\* The input is paused for the driver when it is for the firmware, or what
\* makes it so is in flight.
Pauses ==
  /\ "DRC" \in sub \/ "DRAIN_LAST" \in sub \/ "FIRST_IPSC" \in sub => Paused
  /\ Paused /\ (fw.in = "run" \/ Sent(StartIn)) => Sent(PauseIn)
  /\ Sent(PauseIn) => /\ Paused \/ Sent(ResumeIn)
                      /\ fw.in # "pause" /\ fw.drain # "asked"
                      /\ fw.in = "stop" \/ fw.data = "none"
  /\ Sent(ResumeIn) => /\ ~Paused /\ ~DrcWaits
                       /\ fw.in = "run" => Sent(PauseIn)
  /\ Ordered(cmds, LateResume) \/ Sent(PauseIn)
  /\ fw.in = "pause" /\ ~Paused => Said(Ipsc) \/ Said(DrainDone) \/ Sent(ResumeIn)
  /\ Said(Ipsc) => ~Paused
  /\ \/ Said(Ipsc) \/ Said(PscLast) \/ Said(DrainDone) \/ Said(StopDoneIn)
     \/ decode /\ Said(DrainLast)
     => fw.in # "run" /\ ~Sent(ResumeIn) /\ ~Sent(StartIn)
  /\ Sent(Etb) \/ Sent(Drain) \/ Sent(PauseIn) =>
       Streaming("in") /\ (fw.in # "stop" \/ Sent(StartIn))

Good == InOrder /\ Calls /\ Heard /\ Sequences /\ DrainComes /\ DrcComes /\ Pauses

\* The session is being closed: its ports have stopped.
Closing ==
  /\ state = "OPEN" /\ fw.in = "stop" /\ fw.out = "stop"
  /\ ~Sent(StartIn) /\ ~Sent(StartOut) /\ ~Sent(StopIn) /\ ~Sent(StopOut)
  /\ \A m \in Msgs \ {<<"close_done">>} : ~Said(m)

NoFault ==
  blame = {} =>
    /\ alive /\ state # "ERROR" /\ client # "killed"
    /\ client \in Port \cup {"idle"} => packet /\ Good
    /\ client = "closed" => Closing
    /\ client = "gone" => state = "CLOSE"

LEMMA CommandsDiffer ==
  /\ \A a \in {StartIn, StartOut, StopIn, StopOut, PauseIn, ResumeIn, ResumeOut} :
       a # Drain /\ a # Etb /\ a # <<"close">>
  /\ Drain # Etb /\ Drain # <<"close">> /\ Etb # <<"close">>
  /\ StartIn # StartOut /\ StartIn # StopIn /\ StartIn # StopOut
  /\ StartIn # PauseIn /\ StartIn # ResumeIn /\ StartIn # ResumeOut
  /\ StartOut # StopIn /\ StartOut # StopOut /\ StartOut # PauseIn
  /\ StartOut # ResumeIn /\ StartOut # ResumeOut
  /\ StopIn # StopOut /\ StopIn # PauseIn /\ StopIn # ResumeIn /\ StopIn # ResumeOut
  /\ StopOut # PauseIn /\ StopOut # ResumeIn /\ StopOut # ResumeOut
  /\ PauseIn # ResumeIn /\ PauseIn # ResumeOut /\ ResumeIn # ResumeOut
BY PacketsDiffer
   DEF StartIn, StartOut, StopIn, StopOut, PauseIn, ResumeIn, ResumeOut, Drain, Etb

LEMMA AnswersDiffer ==
  /\ \A a \in {StopDoneIn, StopDoneOut, <<"stop_error", "in">>, <<"stop_error", "out">>},
        b \in {Ipsc, PscLast, DrainDone, DrainLast, <<"close_done">>, <<"error">>} : a # b
  /\ Ipsc # PscLast /\ Ipsc # DrainDone /\ Ipsc # DrainLast
  /\ PscLast # DrainDone /\ PscLast # DrainLast /\ DrainDone # DrainLast
  /\ \A a \in {Ipsc, PscLast, DrainDone, DrainLast} : a # <<"close_done">> /\ a # <<"error">>
  /\ StopDoneIn # StopDoneOut
  /\ \A a \in {StopDoneIn, StopDoneOut} : a # <<"stop_error", "in">> /\ a # <<"stop_error", "out">>
BY PacketsDiffer
   DEF Ipsc, PscLast, DrainDone, DrainLast, StopDoneIn, StopDoneOut

LEMMA NamesAre ==
  /\ {StartIn, StartOut, StopIn, StopOut, PauseIn, ResumeIn, ResumeOut, Drain, Etb}
       \subseteq Cmds
  /\ {Ipsc, PscLast, DrainDone, DrainLast, StopDoneIn, StopDoneOut} \subseteq Msgs
<1>1. /\ StartIn \in Cmds /\ StartOut \in Cmds /\ StopIn \in Cmds /\ StopOut \in Cmds
      /\ PauseIn \in Cmds /\ ResumeIn \in Cmds /\ ResumeOut \in Cmds
  BY CmdsHas
     DEF StartIn, StartOut, StopIn, StopOut, PauseIn, ResumeIn, ResumeOut, Port
<1>2. Drain \in Cmds /\ Etb \in Cmds
  BY CmdsHas DEF Drain, Etb
<1>3. StopDoneIn \in Msgs /\ StopDoneOut \in Msgs
  BY MsgsHas DEF StopDoneIn, StopDoneOut, Port
<1>4. Ipsc \in Msgs /\ PscLast \in Msgs /\ DrainDone \in Msgs /\ DrainLast \in Msgs
  BY MsgsHas DEF Ipsc, PscLast, DrainDone, DrainLast
<1> QED BY <1>1, <1>2, <1>3, <1>4

\* Order in a series, in its parts, and in what is left of it.
LEMMA OrderedBoth ==
  ASSUME NEW S, NEW c \in Seq(S), NEW d \in Seq(S), NEW R,
         Ordered(c, R), Ordered(d, R),
         \A a, b : InFlight(a, c) /\ InFlight(b, d) => <<a, b>> \notin R
  PROVE  Ordered(c \o d, R)
<1> DEFINE e == c \o d
<1>1. /\ e \in Seq(S) /\ Len(c) \in Nat /\ Len(d) \in Nat /\ Len(e) = Len(c) + Len(d)
      /\ \A i \in 1..Len(c) : e[i] = c[i]
      /\ \A i \in 1..Len(e) :
           i \in 1..Len(c) \/ (i - Len(c) \in 1..Len(d) /\ e[i] = d[i - Len(c)])
  OBVIOUS
<1> HIDE DEF e
<1>2. SUFFICES ASSUME NEW i \in 1..Len(e), NEW j \in 1..Len(e), i < j
               PROVE  <<e[i], e[j]>> \notin R
  BY DEF Ordered, e
<1>3. CASE i \in 1..Len(c) /\ j \in 1..Len(c)
  BY <1>1, <1>2, <1>3 DEF Ordered
<1>4. CASE i \in 1..Len(c) /\ j \notin 1..Len(c)
  <2>1. j - Len(c) \in 1..Len(d) /\ e[j] = d[j - Len(c)] /\ e[i] = c[i]
    BY <1>1, <1>4
  <2>2. InFlight(e[i], c) /\ InFlight(e[j], d)
    BY <2>1, <1>4 DEF InFlight
  <2> QED BY <2>2
<1>5. CASE i \notin 1..Len(c)
  <2>1. /\ i - Len(c) \in 1..Len(d) /\ e[i] = d[i - Len(c)]
        /\ j - Len(c) \in 1..Len(d) /\ e[j] = d[j - Len(c)]
        /\ i - Len(c) < j - Len(c)
    BY <1>1, <1>2, <1>5
  <2>2. <<d[i - Len(c)], d[j - Len(c)]>> \notin R
    BY <2>1 DEF Ordered
  <2> QED BY <2>1, <2>2
<1> QED BY <1>3, <1>4, <1>5

LEMMA OrderedOne ==
  ASSUME NEW x, NEW R PROVE Ordered(<<x>>, R) /\ Ordered(<< >>, R)
<1>1. Len(<<x>>) = 1 /\ Len(<< >>) = 0 OBVIOUS
<1>2. \A i, j \in 1..1 : ~(i < j) OBVIOUS
<1>3. \A i, j \in 1..0 : ~(i < j) OBVIOUS
<1> QED BY <1>1, <1>2, <1>3 DEF Ordered

LEMMA OrderedRest ==
  ASSUME NEW S, NEW s \in Seq(S), s # << >>, NEW R, Ordered(s, R)
  PROVE  /\ Ordered(Tail(s), R)
         /\ \A b : InFlight(b, Tail(s)) => <<Head(s), b>> \notin R
<1> DEFINE t == Tail(s)
<1>1. /\ Len(s) \in Nat /\ Len(t) = Len(s) - 1 /\ Head(s) = s[1] /\ 1 \in 1..Len(s)
      /\ \A i \in 1..Len(t) : i + 1 \in 1..Len(s) /\ t[i] = s[i + 1] /\ 1 < i + 1
  OBVIOUS
<1>r. \A i, j \in 1..Len(s) : i < j => <<s[i], s[j]>> \notin R
  BY DEF Ordered
<1> HIDE DEF t
<1>2. ASSUME NEW i \in 1..Len(t), NEW j \in 1..Len(t), i < j
      PROVE  <<t[i], t[j]>> \notin R
  <2>1. i + 1 \in 1..Len(s) /\ j + 1 \in 1..Len(s) /\ i + 1 < j + 1
    BY <1>1, <1>2
  <2>2. <<s[i + 1], s[j + 1]>> \notin R BY <2>1, <1>r
  <2>3. t[i] = s[i + 1] /\ t[j] = s[j + 1] BY <1>1
  <2> QED BY <2>2, <2>3
<1>3. ASSUME NEW b, InFlight(b, t) PROVE <<Head(s), b>> \notin R
  <2>1. PICK i \in 1..Len(t) : t[i] = b BY <1>3 DEF InFlight
  <2>2. <<s[1], s[i + 1]>> \notin R BY <1>1, <1>r
  <2> QED BY <1>1, <2>1, <2>2
<1> QED BY <1>2, <1>3 DEF t, Ordered

\* What is sent or said once more keeps the order if nothing in flight bars it.
LEMMA OrderedMore ==
  ASSUME NEW S, NEW s \in Seq(S), NEW x \in S, NEW R, Ordered(s, R),
         \A a : InFlight(a, s) => <<a, x>> \notin R
  PROVE  Ordered(Append(s, x), R) /\ Ordered(s \o <<x>>, R)
<1> DEFINE d == <<x>>
<1>1. d \in Seq(S) /\ Append(s, x) = s \o d OBVIOUS
<1>2. Ordered(d, R) BY OrderedOne
<1>3. \A b : InFlight(b, d) => b = x BY InFlightOne
<1> HIDE DEF d
<1>4. Ordered(s \o d, R)
  BY <1>1, <1>2, <1>3, OrderedBoth
<1> QED BY <1>1, <1>4 DEF d

LEMMA CommandTaken ==
  ASSUME TypeOK, InOrder, cmds # << >>, cmds' = Tail(cmds)
  PROVE  /\ \A m : Sent(m) <=> Head(cmds) = m \/ Sent(m)'
         /\ \A m : Sent(m)' => <<Head(cmds), m>> \notin CmdBars
         /\ Ordered(cmds', CmdBars)
         /\ Ordered(cmds, LateResume) =>
              /\ Ordered(cmds', LateResume)
              /\ \A m : Sent(m)' => <<Head(cmds), m>> \notin LateResume
<1>1. cmds \in Seq(Cmds) /\ Ordered(cmds, CmdBars) BY DEF TypeOK, InOrder
<1>2. \A m : Sent(m) <=> Head(cmds) = m \/ Sent(m)'
  BY <1>1, InFlightHead DEF Sent
<1>3. /\ Ordered(cmds', CmdBars)
      /\ \A m : Sent(m)' => <<Head(cmds), m>> \notin CmdBars
  BY <1>1, OrderedRest DEF Sent
<1>4. Ordered(cmds, LateResume) =>
        /\ Ordered(cmds', LateResume)
        /\ \A m : Sent(m)' => <<Head(cmds), m>> \notin LateResume
  BY <1>1, OrderedRest DEF Sent
<1> QED BY <1>2, <1>3, <1>4

LEMMA AnswerTaken ==
  ASSUME TypeOK, InOrder, msgs # << >>, msgs' = Tail(msgs)
  PROVE  /\ \A m : Said(m) <=> Head(msgs) = m \/ Said(m)'
         /\ \A m : Said(m)' => <<Head(msgs), m>> \notin MsgBars
         /\ Ordered(msgs', MsgBars)
<1>1. msgs \in Seq(Msgs) /\ Ordered(msgs, MsgBars) BY DEF TypeOK, InOrder
<1>2. \A m : Said(m) <=> Head(msgs) = m \/ Said(m)'
  BY <1>1, InFlightHead DEF Said
<1>3. /\ Ordered(msgs', MsgBars)
      /\ \A m : Said(m)' => <<Head(msgs), m>> \notin MsgBars
  BY <1>1, OrderedRest DEF Said
<1> QED BY <1>2, <1>3

LEMMA AnswerGiven ==
  ASSUME TypeOK, InOrder, NEW m \in Msgs, msgs' = Append(msgs, m), decode' = decode,
         \A a : Said(a) => <<a, m>> \notin MsgBars
  PROVE  /\ \A a : Said(a)' <=> Said(a) \/ a = m
         /\ Ordered(msgs', MsgBars')
<1>1. msgs \in Seq(Msgs) /\ Ordered(msgs, MsgBars) BY DEF TypeOK, InOrder
<1>2. \A a : Said(a)' <=> Said(a) \/ a = m
  BY <1>1, InFlightAppend DEF Said
<1>3. Ordered(msgs', MsgBars)
  BY <1>1, OrderedMore DEF Said
<1>4. MsgBars' = MsgBars BY DEF MsgBars
<1> QED BY <1>2, <1>3, <1>4

\* What the driver knows when the firmware moves.
LEMMA SameDriver ==
  ASSUME UNCHANGED <<session, client, signal>>
  PROVE  /\ Streaming("in")' <=> Streaming("in")
         /\ Streaming("out")' <=> Streaming("out")
         /\ Paused' <=> Paused
         /\ DrcWaits' <=> DrcWaits
         /\ DrainWaits' <=> DrainWaits
         /\ client' = client /\ signal' = signal /\ sub' = sub /\ state' = state
         /\ decode' = decode /\ MsgBars' = MsgBars
BY DEF session, Streaming, Paused, DrcWaits, DrainWaits, MsgBars

\* What a stop of a port makes the firmware say first.
LEMMA FlushSays ==
  ASSUME NEW p \in Port
  PROVE  /\ Flush(p) \in Seq(Msgs)
         /\ Ordered(Flush(p), MsgBars)
         /\ \A a : InFlight(a, Flush(p)) <=>
              \/ fw.psc = "last" /\ a = PscLast
              \/ p = "in" /\ fw.drain = "asked" /\ a = DrainDone
              \/ fw.drain = "last" /\ (p = "out" \/ decode) /\ a = DrainLast
              \/ fw.drain = "asked" /\ p = "in" /\ decode /\ a = DrainLast
<1> DEFINE c1 == fw.psc = "last"
           c2 == p = "in" /\ fw.drain = "asked"
           c3 == \/ fw.drain = "last" /\ (p = "out" \/ decode)
                 \/ fw.drain = "asked" /\ p = "in" /\ decode
           f1 == If(c1, << PscLast >>)
           f2 == If(c2, << DrainDone >>)
           f3 == If(c3, << DrainLast >>)
<1>1. PscLast \in Msgs /\ DrainDone \in Msgs /\ DrainLast \in Msgs
  BY NamesAre
<1>2. Flush(p) = f1 \o f2 \o f3
  BY DEF Flush, PscLast, DrainDone, DrainLast
\* One part: an answer, if it is due.
<1>3. ASSUME NEW c, NEW m \in Msgs
      PROVE  /\ If(c, <<m>>) \in Seq(Msgs)
             /\ Ordered(If(c, <<m>>), MsgBars)
             /\ \A a : InFlight(a, If(c, <<m>>)) <=> c /\ a = m
  <2>1. \A a : ~InFlight(a, << >>)
    <3>1. 1..Len(<< >>) = {} OBVIOUS
    <3> QED BY <3>1 DEF InFlight
  <2>2. \A a : InFlight(a, <<m>>) <=> a = m
    BY InFlightOne
  <2>3. /\ Ordered(<<m>>, MsgBars) /\ Ordered(<< >>, MsgBars)
        /\ <<m>> \in Seq(Msgs) /\ << >> \in Seq(Msgs)
    BY OrderedOne
  <2> QED BY <2>1, <2>2, <2>3 DEF If
<1>4. /\ f1 \in Seq(Msgs) /\ Ordered(f1, MsgBars)
      /\ \A a : InFlight(a, f1) <=> c1 /\ a = PscLast
  BY <1>1, <1>3
<1>5. /\ f2 \in Seq(Msgs) /\ Ordered(f2, MsgBars)
      /\ \A a : InFlight(a, f2) <=> c2 /\ a = DrainDone
  BY <1>1, <1>3
<1>6. /\ f3 \in Seq(Msgs) /\ Ordered(f3, MsgBars)
      /\ \A a : InFlight(a, f3) <=> c3 /\ a = DrainLast
  BY <1>1, <1>3
<1> HIDE DEF f1, f2, f3
<1>7. /\ f1 \o f2 \in Seq(Msgs) /\ Ordered(f1 \o f2, MsgBars)
      /\ \A a : InFlight(a, f1 \o f2) <=> InFlight(a, f1) \/ InFlight(a, f2)
  <2>1. \A a, b : InFlight(a, f1) /\ InFlight(b, f2) => <<a, b>> \notin MsgBars
    BY <1>4, <1>5, AnswersDiffer DEF MsgBars
  <2> QED BY <1>4, <1>5, <2>1, OrderedBoth, InFlightBoth
<1> DEFINE g == f1 \o f2
<1> HIDE DEF g
<1>8. /\ g \o f3 \in Seq(Msgs) /\ Ordered(g \o f3, MsgBars)
      /\ \A a : InFlight(a, g \o f3) <=> InFlight(a, g) \/ InFlight(a, f3)
  <2>0. /\ g \in Seq(Msgs) /\ Ordered(g, MsgBars)
        /\ \A a : InFlight(a, g) => a = PscLast \/ a = DrainDone
    BY <1>4, <1>5, <1>7 DEF g
  <2>1. \A a, b : InFlight(a, g) /\ InFlight(b, f3) => <<a, b>> \notin MsgBars
    BY <2>0, <1>6, AnswersDiffer DEF MsgBars
  <2> QED BY <2>0, <1>6, <2>1, OrderedBoth, InFlightBoth
<1>9. \A a : InFlight(a, g) <=> (c1 /\ a = PscLast) \/ (c2 /\ a = DrainDone)
  BY <1>4, <1>5, <1>7 DEF g
<1>10. Flush(p) = g \o f3 BY <1>2 DEF g
<1> DEFINE F == g \o f3
<1>11. /\ F \in Seq(Msgs) /\ Ordered(F, MsgBars) /\ Flush(p) = F
       /\ \A a : InFlight(a, F) <=> InFlight(a, g) \/ InFlight(a, f3)
  BY <1>8, <1>10
<1> HIDE DEF F
<1>12. ASSUME NEW a
       PROVE  InFlight(a, Flush(p)) <=>
              \/ fw.psc = "last" /\ a = PscLast
              \/ p = "in" /\ fw.drain = "asked" /\ a = DrainDone
              \/ fw.drain = "last" /\ (p = "out" \/ decode) /\ a = DrainLast
              \/ fw.drain = "asked" /\ p = "in" /\ decode /\ a = DrainLast
  <2>0. InFlight(a, Flush(p)) <=> InFlight(a, F) BY <1>11
  <2>1. InFlight(a, F) <=> InFlight(a, g) \/ InFlight(a, f3) BY <1>11
  <2>2. InFlight(a, f3) <=> c3 /\ a = DrainLast BY <1>6
  <2>3. InFlight(a, g) <=> (c1 /\ a = PscLast) \/ (c2 /\ a = DrainDone) BY <1>9
  <2> QED BY <2>0, <2>1, <2>2, <2>3
<1>13. Flush(p) \in Seq(Msgs) /\ Ordered(Flush(p), MsgBars)
  BY <1>11
<1> QED BY <1>12, <1>13

\* The whole answer to a stop.
LEMMA StopSays ==
  ASSUME TypeOK, InOrder, NEW p \in Port, NEW x \in Msgs, decode' = decode,
         msgs' = msgs \o Flush(p) \o << x >>,
         \A a, b : Said(a) /\ InFlight(b, Flush(p)) => <<a, b>> \notin MsgBars,
         \A a : Said(a) \/ InFlight(a, Flush(p)) => <<a, x>> \notin MsgBars
  PROVE  /\ \A a : Said(a)' <=> Said(a) \/ InFlight(a, Flush(p)) \/ a = x
         /\ Ordered(msgs', MsgBars')
<1> DEFINE f == Flush(p)
           g == msgs \o f
           h == << x >>
<1>1. msgs \in Seq(Msgs) /\ Ordered(msgs, MsgBars) BY DEF TypeOK, InOrder
<1>2. f \in Seq(Msgs) /\ Ordered(f, MsgBars) BY FlushSays
<1>3. \A a : InFlight(a, h) <=> a = x BY InFlightOne
<1>4. h \in Seq(Msgs) /\ msgs' = g \o h OBVIOUS
<1>5. \A a, b : InFlight(a, msgs) /\ InFlight(b, f) => <<a, b>> \notin MsgBars
  BY DEF Said
<1>6. \A a : Said(a) \/ InFlight(a, f) => <<a, x>> \notin MsgBars
  OBVIOUS
<1> HIDE DEF f, h
<1>7. /\ g \in Seq(Msgs) /\ Ordered(g, MsgBars)
      /\ \A a : InFlight(a, g) <=> Said(a) \/ InFlight(a, f)
  BY <1>1, <1>2, <1>5, OrderedBoth, InFlightBoth DEF Said
<1> HIDE DEF g
<1>8. /\ Ordered(g \o <<x>>, MsgBars)
      /\ \A a : InFlight(a, g \o h) <=> InFlight(a, g) \/ InFlight(a, h)
  <2>1. Ordered(g \o <<x>>, MsgBars)
    BY <1>6, <1>7, OrderedMore
  <2>2. \A a : InFlight(a, g \o h) <=> InFlight(a, g) \/ InFlight(a, h)
    BY <1>4, <1>7, InFlightBoth
  <2> QED BY <2>1, <2>2
<1>9. MsgBars' = MsgBars BY DEF MsgBars
<1>10. \A a : Said(a)' <=> Said(a) \/ InFlight(a, f) \/ a = x
  BY <1>3, <1>4, <1>7, <1>8 DEF Said
<1>11. Ordered(msgs', MsgBars')
  BY <1>4, <1>8, <1>9 DEF h
<1> QED BY <1>10, <1>11 DEF f

LEMMA NothingInFlight ==
  ASSUME NEW m PROVE ~InFlight(m, << >>)
<1>1. 1..Len(<< >>) = {} OBVIOUS
<1> QED BY <1>1 DEF InFlight

\* Nothing follows a stop.
LEMMA StopIsLast ==
  ASSUME TypeOK, InOrder, cmds # << >>, cmds' = Tail(cmds), Head(cmds) \in {StopIn, StopOut}
  PROVE  cmds' = << >> /\ \A m : ~Sent(m)'
<1>1. cmds \in Seq(Cmds) BY DEF TypeOK
<1>2. Tail(cmds) \in Seq(Cmds) BY <1>1
<1>3. ASSUME Tail(cmds) # << >> PROVE FALSE
  <2>1. PICK b : b = Head(Tail(cmds)) OBVIOUS
  <2>2. b \in Cmds BY <1>2, <1>3, <2>1
  <2>3. InFlight(b, Tail(cmds))
    BY <1>2, <1>3, <2>1, InFlightHead
  <2>4. Sent(b)' BY <2>3 DEF Sent
  <2>5. <<Head(cmds), b>> \in CmdBars BY <2>2 DEF CmdBars
  <2> QED BY <2>4, <2>5, CommandTaken
<1>4. cmds' = << >> BY <1>2, <1>3
<1> QED BY <1>4, NothingInFlight DEF Sent

LEMMA FwTyped ==
  ASSUME TypeOK
  PROVE  /\ fw \in [in : {"stop", "run", "pause"}, out : {"stop", "run", "pause"},
                    data : {"none", "now", "after"}, psc : {"none", "seen", "last"},
                    drain : {"none", "asked", "last"}]
         /\ fw.in \in {"stop", "run", "pause"} /\ fw.out \in {"stop", "run", "pause"}
         /\ fw.data \in {"none", "now", "after"} /\ fw.psc \in {"none", "seen", "last"}
         /\ fw.drain \in {"none", "asked", "last"} /\ decode \in BOOLEAN
BY DEF TypeOK

LEMMA LastComes ==
  /\ LastIsComing <=> fw.psc = "last" \/ (fw.psc = "seen" /\ Sent(StartOut)) \/ Said(PscLast)
  /\ LastIsComing' <=>
       fw'.psc = "last" \/ (fw'.psc = "seen" /\ Sent(StartOut)') \/ Said(PscLast)'
BY DEF LastIsComing, Sent, Said, StartOut, PscLast

LEMMA GoodStopIn ==
  ASSUME TypeOK, Good, UNCHANGED <<session, client, signal>>,
         cmds # << >>, cmds' = Tail(cmds), Head(cmds) = StopIn, FwStop("in"), blame' = {}
  PROVE  Good'
<1>d. /\ Streaming("in")' <=> Streaming("in")
      /\ Streaming("out")' <=> Streaming("out")
      /\ Paused' <=> Paused
      /\ DrcWaits' <=> DrcWaits
      /\ DrainWaits' <=> DrainWaits
      /\ client' = client /\ signal' = signal /\ sub' = sub /\ decode' = decode
  BY SameDriver
<1>o. InOrder BY DEF Good
<1>1. cmds' = << >> /\ \A m : ~Sent(m)'
  BY <1>o, StopIsLast
<1>2. /\ Sent(StopIn) /\ ~Sent(StartIn) /\ ~Sent(StartOut) /\ ~Sent(Drain)
      /\ ~Sent(ResumeIn) /\ ~Sent(PauseIn)
  BY <1>o, <1>1, CommandTaken, CommandsDiffer
<1>3. /\ client = "in" /\ fw.in # "stop" /\ Streaming("in") /\ "in" \notin signal
      /\ ~Said(StopDoneIn) /\ ~Said(StopDoneOut) /\ "out" \notin signal
  BY <1>2 DEF Good, Calls, Call
<1>g. /\ Calls /\ Heard /\ Sequences /\ DrainComes /\ DrcComes /\ Pauses BY DEF Good
<1>4. ~(fw.drain = "asked" /\ fw.out = "stop")
  BY DEF FwStop
<1>5. /\ fw'.in = "stop" /\ fw'.psc = "none" /\ fw'.data = "none"
      /\ fw'.drain = IF decode \/ fw.drain = "none" THEN "none" ELSE "last"
      /\ (fw'.out = "stop") <=> (fw.out = "stop")
  BY FwTyped DEF FwStop
<1>6. /\ \A a : Said(a)' <=> Said(a) \/ InFlight(a, Flush("in")) \/ a = StopDoneIn
      /\ Ordered(msgs', MsgBars')
      /\ \A a : InFlight(a, Flush("in")) <=>
              \/ fw.psc = "last" /\ a = PscLast
              \/ fw.drain = "asked" /\ a = DrainDone
              \/ fw.drain = "last" /\ decode /\ a = DrainLast
              \/ fw.drain = "asked" /\ decode /\ a = DrainLast
  <2>1. msgs' = msgs \o Flush("in") \o << StopDoneIn >>
    BY <1>3 DEF FwStop, StopDoneIn
  <2>2. \A a : InFlight(a, Flush("in")) <=>
              \/ fw.psc = "last" /\ a = PscLast
              \/ fw.drain = "asked" /\ a = DrainDone
              \/ fw.drain = "last" /\ decode /\ a = DrainLast
              \/ fw.drain = "asked" /\ decode /\ a = DrainLast
    BY FlushSays DEF Port
  <2>3. \A a, b : Said(a) /\ InFlight(b, Flush("in")) => <<a, b>> \notin MsgBars
    BY <1>g, <1>3, <2>2, AnswersDiffer DEF MsgBars, Sequences, DrainComes, DrcComes
  <2>4. \A a : Said(a) \/ InFlight(a, Flush("in")) => <<a, StopDoneIn>> \notin MsgBars
    BY <1>3, <2>2, AnswersDiffer DEF MsgBars
  <2> QED BY <1>d, <1>o, <2>1, <2>2, <2>3, <2>4, StopSays, NamesAre DEF Port
<1>s. /\ Said(StopDoneIn)' /\ ~Said(StopDoneOut)'
      /\ Said(Ipsc)' <=> Said(Ipsc)
      /\ Said(PscLast)' <=> Said(PscLast) \/ fw.psc = "last"
      /\ Said(DrainDone)' <=> Said(DrainDone) \/ fw.drain = "asked"
      /\ Said(DrainLast)' <=> Said(DrainLast) \/ (decode /\ fw.drain \in {"asked", "last"})
      /\ \A a \in {<<"close_done">>, <<"error">>, <<"stop_error", "in">>, <<"stop_error", "out">>} :
           Said(a)' <=> Said(a)
  BY <1>3, <1>6, AnswersDiffer
<1>7. InOrder'
  BY <1>1, <1>6, OrderedOne DEF InOrder
<1>8. Calls'
  <2>1. Call("in", StartIn, StopIn, StopDoneIn)'
    BY <1>g, <1>d, <1>1, <1>3, <1>5, <1>s DEF Calls, Call
  <2>2. Call("out", StartOut, StopOut, StopDoneOut)'
    BY <1>g, <1>d, <1>1, <1>3, <1>5, <1>s DEF Calls, Call
  <2>3. ~Sent(<<"close">>)'
    BY <1>1
  <2>4. ~Said(<<"close_done">>)'
    BY <1>g, <1>s DEF Calls
  <2> QED BY <1>g, <1>1, <1>s, <2>1, <2>2 DEF Calls
<1>9. Heard'
  BY <1>g, <1>d, <1>1, <1>3, <1>4, <1>5, <1>s, FwTyped
     DEF Heard, Calls, Call, Sequences
<1>10. Sequences'
  BY <1>g, <1>d, <1>1, <1>3, <1>4, <1>5, <1>s, FwTyped DEF Sequences
<1>11. DrainComes'
  BY <1>g, <1>d, <1>1, <1>2, <1>3, <1>4, <1>5, <1>s, FwTyped DEF DrainComes, Sequences
<1>12. DrcComes'
  BY <1>g, <1>d, <1>1, <1>2, <1>3, <1>4, <1>5, <1>s, FwTyped, LastComes
     DEF DrcComes, Sequences, Heard
<1>13. Pauses'
  BY <1>g, <1>d, <1>1, <1>2, <1>3, <1>4, <1>5, <1>s, FwTyped, OrderedOne
     DEF Pauses, Sequences
<1> QED BY <1>7, <1>8, <1>9, <1>10, <1>11, <1>12, <1>13 DEF Good

\* What is known when the firmware has taken a command and said nothing.
LEMMA FwTakes ==
  ASSUME TypeOK, Good, UNCHANGED <<session, client, signal, msgs>>,
         cmds # << >>, cmds' = Tail(cmds)
  PROVE  /\ Streaming("in")' <=> Streaming("in")
         /\ Streaming("out")' <=> Streaming("out")
         /\ Paused' <=> Paused
         /\ DrcWaits' <=> DrcWaits
         /\ DrainWaits' <=> DrainWaits
         /\ client' = client /\ signal' = signal /\ sub' = sub /\ decode' = decode
         /\ \A m : Said(m)' <=> Said(m)
         /\ \A m : Sent(m) <=> Head(cmds) = m \/ Sent(m)'
         /\ InOrder'
         /\ Calls /\ Heard /\ Sequences /\ DrainComes /\ DrcComes /\ Pauses
         /\ Call("in", StartIn, StopIn, StopDoneIn)
         /\ Call("out", StartOut, StopOut, StopDoneOut)
<1>1. InOrder BY DEF Good
<1>2. UNCHANGED <<session, client, signal>> /\ msgs' = msgs OBVIOUS
<1>3. \A m : Sent(m) <=> Head(cmds) = m \/ Sent(m)' BY <1>1, CommandTaken
<1>4. Ordered(cmds', CmdBars) BY <1>1, CommandTaken
<1>5. Ordered(msgs, MsgBars) BY <1>1 DEF InOrder
<1>6. MsgBars' = MsgBars BY <1>2, SameDriver
<1>7. InOrder' BY <1>2, <1>4, <1>5, <1>6 DEF InOrder
<1>8. \A m : Said(m)' <=> Said(m) BY <1>2 DEF Said
<1>9. /\ Streaming("in")' <=> Streaming("in")
      /\ Streaming("out")' <=> Streaming("out")
      /\ Paused' <=> Paused
      /\ DrcWaits' <=> DrcWaits
      /\ DrainWaits' <=> DrainWaits
      /\ client' = client /\ signal' = signal /\ sub' = sub /\ decode' = decode
  BY <1>2, SameDriver
<1>10. /\ Calls /\ Heard /\ Sequences /\ DrainComes /\ DrcComes /\ Pauses
       /\ Call("in", StartIn, StopIn, StopDoneIn)
       /\ Call("out", StartOut, StopOut, StopDoneOut)
  BY DEF Good, Calls
<1> QED BY <1>3, <1>7, <1>8, <1>9, <1>10

\* What does not follow the command the firmware takes.
LEMMA Followers ==
  ASSUME TypeOK, InOrder, cmds # << >>, cmds' = Tail(cmds)
  PROVE  /\ Head(cmds) = StartIn => ~Sent(StartIn)'
         /\ Head(cmds) = StartOut => ~Sent(StartOut)' /\ ~Sent(ResumeIn)'
         /\ Head(cmds) = PauseIn => ~Sent(StartIn)' /\ ~Sent(PauseIn)'
         /\ Head(cmds) = ResumeIn => ~Sent(ResumeIn)' /\ ~Sent(PauseIn)'
         /\ Head(cmds) = Drain => ~Sent(StartIn)' /\ ~Sent(PauseIn)' /\ ~Sent(Drain)'
         /\ Head(cmds) = Etb => ~Sent(StartIn)' /\ ~Sent(PauseIn)'
         /\ Head(cmds) = StartIn /\ Ordered(cmds, LateResume) => ~Sent(ResumeIn)'
         /\ Ordered(cmds, LateResume) => Ordered(cmds', LateResume)
<1>1. \A m : Sent(m)' => <<Head(cmds), m>> \notin CmdBars BY CommandTaken
<1>2. Ordered(cmds, LateResume) =>
        /\ Ordered(cmds', LateResume)
        /\ \A m : Sent(m)' => <<Head(cmds), m>> \notin LateResume
  BY CommandTaken
<1>3. /\ <<StartIn, StartIn>> \in CmdBars
      /\ <<StartOut, StartOut>> \in CmdBars /\ <<StartOut, ResumeIn>> \in CmdBars
      /\ <<PauseIn, StartIn>> \in CmdBars /\ <<PauseIn, PauseIn>> \in CmdBars
      /\ <<ResumeIn, ResumeIn>> \in CmdBars /\ <<ResumeIn, PauseIn>> \in CmdBars
      /\ <<Drain, StartIn>> \in CmdBars /\ <<Drain, PauseIn>> \in CmdBars
      /\ <<Drain, Drain>> \in CmdBars
      /\ <<Etb, StartIn>> \in CmdBars /\ <<Etb, PauseIn>> \in CmdBars
      /\ <<StartIn, ResumeIn>> \in LateResume
  BY DEF CmdBars, LateResume
<1> QED BY <1>1, <1>2, <1>3

\* Without a start nothing is behind one.
LEMMA NoStartNoLate ==
  ~Sent(StartIn)' => Ordered(cmds', LateResume)
<1>1. \A i \in 1..Len(cmds') : InFlight(cmds'[i], cmds') BY DEF InFlight
<1>2. SUFFICES ASSUME ~Sent(StartIn)', NEW i \in 1..Len(cmds'), NEW j \in 1..Len(cmds')
               PROVE  <<cmds'[i], cmds'[j]>> \notin LateResume
  BY DEF Ordered
<1>3. cmds'[i] # StartIn BY <1>1, <1>2 DEF Sent
<1> QED BY <1>3 DEF LateResume

\* The firmware starts its input.
LEMMA GoodStartIn ==
  ASSUME TypeOK, Good, UNCHANGED <<session, client, signal, msgs>>,
         cmds # << >>, cmds' = Tail(cmds), Head(cmds) = StartIn,
         fw' = [fw EXCEPT !.in = "run", !.data = "none"]
  PROVE  Good'
<1>o. InOrder BY DEF Good
<1>g. /\ Calls /\ Heard /\ Sequences /\ DrainComes /\ DrcComes /\ Pauses
      /\ Call("in", StartIn, StopIn, StopDoneIn)
      /\ Call("out", StartOut, StopOut, StopDoneOut)
      /\ InOrder'
  BY FwTakes
<1>d. /\ Streaming("in")' <=> Streaming("in")
      /\ Streaming("out")' <=> Streaming("out")
      /\ Paused' <=> Paused
      /\ DrcWaits' <=> DrcWaits
      /\ DrainWaits' <=> DrainWaits
      /\ client' = client /\ signal' = signal /\ sub' = sub /\ decode' = decode
      /\ \A m : Said(m)' <=> Said(m)
  BY FwTakes
<1>c. /\ Sent(StartIn)
      /\ Sent(StartOut)' <=> Sent(StartOut)
      /\ Sent(StopIn)' <=> Sent(StopIn)
      /\ Sent(StopOut)' <=> Sent(StopOut)
      /\ Sent(PauseIn)' <=> Sent(PauseIn)
      /\ Sent(ResumeIn)' <=> Sent(ResumeIn)
      /\ Sent(ResumeOut)' <=> Sent(ResumeOut)
      /\ Sent(Drain)' <=> Sent(Drain)
      /\ Sent(Etb)' <=> Sent(Etb)
      /\ Sent(<<"close">>)' <=> Sent(<<"close">>)
  BY FwTakes, CommandsDiffer
<1>r. /\ ~Sent(StartIn)'
      /\ Ordered(cmds, LateResume) => ~Sent(ResumeIn)' /\ Ordered(cmds', LateResume)
  BY <1>o, Followers
<1>f. /\ fw'.in = "run"
      /\ fw'.out = fw.out
      /\ fw'.data = "none"
      /\ fw'.psc = fw.psc
      /\ fw'.drain = fw.drain
  BY FwTyped
<1>1. Call("in", StartIn, StopIn, StopDoneIn)'
  BY <1>g, <1>d, <1>c, <1>r, <1>f, FwTyped DEF Call
<1>2. Call("out", StartOut, StopOut, StopDoneOut)'
  BY <1>g, <1>d, <1>c, <1>r, <1>f, FwTyped DEF Call
<1>3. Calls'
  BY <1>g, <1>d, <1>c, <1>1, <1>2 DEF Calls
<1>4. Heard'
  BY <1>g, <1>d, <1>c, <1>r, <1>f, FwTyped DEF Heard
<1>5. Sequences'
  BY <1>g, <1>d, <1>c, <1>r, <1>f, FwTyped DEF Sequences, Call
<1>6. DrainComes'
  BY <1>g, <1>d, <1>c, <1>r, <1>f, FwTyped DEF DrainComes
<1>7. DrcComes'
  BY <1>g, <1>d, <1>c, <1>r, <1>f, FwTyped, LastComes DEF DrcComes
<1>8. Pauses'
  BY <1>g, <1>d, <1>c, <1>r, <1>f, FwTyped DEF Pauses
<1> QED BY <1>g, <1>3, <1>4, <1>5, <1>6, <1>7, <1>8 DEF Good

\* The firmware starts its output, and owes the last buffer it had not sent.
LEMMA GoodStartOut ==
  ASSUME TypeOK, Good, UNCHANGED <<session, client, signal, msgs>>,
         cmds # << >>, cmds' = Tail(cmds), Head(cmds) = StartOut,
         fw' = [fw EXCEPT !.out = "run", !.psc = IF @ = "seen" THEN "last" ELSE @]
  PROVE  Good'
<1>o. InOrder BY DEF Good
<1>g. /\ Calls /\ Heard /\ Sequences /\ DrainComes /\ DrcComes /\ Pauses
      /\ Call("in", StartIn, StopIn, StopDoneIn)
      /\ Call("out", StartOut, StopOut, StopDoneOut)
      /\ InOrder'
  BY FwTakes
<1>d. /\ Streaming("in")' <=> Streaming("in")
      /\ Streaming("out")' <=> Streaming("out")
      /\ Paused' <=> Paused
      /\ DrcWaits' <=> DrcWaits
      /\ DrainWaits' <=> DrainWaits
      /\ client' = client /\ signal' = signal /\ sub' = sub /\ decode' = decode
      /\ \A m : Said(m)' <=> Said(m)
  BY FwTakes
<1>c. /\ Sent(StartOut)
      /\ Sent(StartIn)' <=> Sent(StartIn)
      /\ Sent(StopIn)' <=> Sent(StopIn)
      /\ Sent(StopOut)' <=> Sent(StopOut)
      /\ Sent(PauseIn)' <=> Sent(PauseIn)
      /\ Sent(ResumeIn)' <=> Sent(ResumeIn)
      /\ Sent(ResumeOut)' <=> Sent(ResumeOut)
      /\ Sent(Drain)' <=> Sent(Drain)
      /\ Sent(Etb)' <=> Sent(Etb)
      /\ Sent(<<"close">>)' <=> Sent(<<"close">>)
  BY FwTakes, CommandsDiffer
<1>r. /\ ~Sent(StartOut)' /\ ~Sent(ResumeIn)'
      /\ Ordered(cmds, LateResume) => Ordered(cmds', LateResume)
  BY <1>o, Followers
<1>f. /\ fw'.in = fw.in
      /\ fw'.out = "run"
      /\ fw'.data = fw.data
      /\ fw'.psc = IF fw.psc = "seen" THEN "last" ELSE fw.psc
      /\ fw'.drain = fw.drain
  BY FwTyped
<1>1. Call("in", StartIn, StopIn, StopDoneIn)'
  BY <1>g, <1>d, <1>c, <1>r, <1>f, FwTyped DEF Call
<1>2. Call("out", StartOut, StopOut, StopDoneOut)'
  BY <1>g, <1>d, <1>c, <1>r, <1>f, FwTyped DEF Call
<1>3. Calls'
  BY <1>g, <1>d, <1>c, <1>1, <1>2 DEF Calls
<1>4. Heard'
  BY <1>g, <1>d, <1>c, <1>r, <1>f, FwTyped DEF Heard
<1>5. Sequences'
  BY <1>g, <1>d, <1>c, <1>r, <1>f, FwTyped DEF Sequences
<1>6. DrainComes'
  BY <1>g, <1>d, <1>c, <1>r, <1>f, FwTyped DEF DrainComes
<1>7. DrcComes'
  BY <1>g, <1>d, <1>c, <1>r, <1>f, FwTyped, LastComes
     DEF DrcComes, Sequences, Heard, Call
<1>8. Pauses'
  BY <1>g, <1>d, <1>c, <1>r, <1>f, FwTyped DEF Pauses
<1> QED BY <1>g, <1>3, <1>4, <1>5, <1>6, <1>7, <1>8 DEF Good

\* The firmware pauses its input.
LEMMA GoodPauseIn ==
  ASSUME TypeOK, Good, UNCHANGED <<session, client, signal, msgs>>,
         cmds # << >>, cmds' = Tail(cmds), Head(cmds) = PauseIn,
         fw' = [fw EXCEPT !.in = IF @ = "run" THEN "pause" ELSE @]
  PROVE  Good'
<1>o. InOrder BY DEF Good
<1>g. /\ Calls /\ Heard /\ Sequences /\ DrainComes /\ DrcComes /\ Pauses
      /\ Call("in", StartIn, StopIn, StopDoneIn)
      /\ Call("out", StartOut, StopOut, StopDoneOut)
      /\ InOrder'
  BY FwTakes
<1>d. /\ Streaming("in")' <=> Streaming("in")
      /\ Streaming("out")' <=> Streaming("out")
      /\ Paused' <=> Paused
      /\ DrcWaits' <=> DrcWaits
      /\ DrainWaits' <=> DrainWaits
      /\ client' = client /\ signal' = signal /\ sub' = sub /\ decode' = decode
      /\ \A m : Said(m)' <=> Said(m)
  BY FwTakes
<1>c. /\ Sent(PauseIn)
      /\ Sent(StartIn)' <=> Sent(StartIn)
      /\ Sent(StartOut)' <=> Sent(StartOut)
      /\ Sent(StopIn)' <=> Sent(StopIn)
      /\ Sent(StopOut)' <=> Sent(StopOut)
      /\ Sent(ResumeIn)' <=> Sent(ResumeIn)
      /\ Sent(ResumeOut)' <=> Sent(ResumeOut)
      /\ Sent(Drain)' <=> Sent(Drain)
      /\ Sent(Etb)' <=> Sent(Etb)
      /\ Sent(<<"close">>)' <=> Sent(<<"close">>)
  BY FwTakes, CommandsDiffer
<1>r. /\ ~Sent(StartIn)' /\ ~Sent(PauseIn)'
      /\ Ordered(cmds, LateResume) => Ordered(cmds', LateResume)
  BY <1>o, Followers
<1>f. /\ fw'.in = IF fw.in = "run" THEN "pause" ELSE fw.in
      /\ fw'.out = fw.out
      /\ fw'.data = fw.data
      /\ fw'.psc = fw.psc
      /\ fw'.drain = fw.drain
  BY FwTyped
<1>1. Call("in", StartIn, StopIn, StopDoneIn)'
  BY <1>g, <1>d, <1>c, <1>r, <1>f, FwTyped DEF Call
<1>2. Call("out", StartOut, StopOut, StopDoneOut)'
  BY <1>g, <1>d, <1>c, <1>r, <1>f, FwTyped DEF Call
<1>3. Calls'
  BY <1>g, <1>d, <1>c, <1>1, <1>2 DEF Calls
<1>4. Heard'
  BY <1>g, <1>d, <1>c, <1>r, <1>f, FwTyped DEF Heard
<1>5. Sequences'
  BY <1>g, <1>d, <1>c, <1>r, <1>f, FwTyped DEF Sequences
<1>6. DrainComes'
  BY <1>g, <1>d, <1>c, <1>r, <1>f, FwTyped DEF DrainComes
<1>7. DrcComes'
  BY <1>g, <1>d, <1>c, <1>r, <1>f, FwTyped, LastComes DEF DrcComes
<1>8. Pauses'
  BY <1>g, <1>d, <1>c, <1>r, <1>f, FwTyped, NoStartNoLate DEF Pauses
<1> QED BY <1>g, <1>3, <1>4, <1>5, <1>6, <1>7, <1>8 DEF Good

\* The firmware resumes its input.
LEMMA GoodResumeIn ==
  ASSUME TypeOK, Good, UNCHANGED <<session, client, signal, msgs>>,
         cmds # << >>, cmds' = Tail(cmds), Head(cmds) = ResumeIn,
         fw' = [fw EXCEPT !.in = IF @ = "pause" THEN "run" ELSE @, !.psc = "none"]
  PROVE  Good'
<1>o. InOrder BY DEF Good
<1>g. /\ Calls /\ Heard /\ Sequences /\ DrainComes /\ DrcComes /\ Pauses
      /\ Call("in", StartIn, StopIn, StopDoneIn)
      /\ Call("out", StartOut, StopOut, StopDoneOut)
      /\ InOrder'
  BY FwTakes
<1>d. /\ Streaming("in")' <=> Streaming("in")
      /\ Streaming("out")' <=> Streaming("out")
      /\ Paused' <=> Paused
      /\ DrcWaits' <=> DrcWaits
      /\ DrainWaits' <=> DrainWaits
      /\ client' = client /\ signal' = signal /\ sub' = sub /\ decode' = decode
      /\ \A m : Said(m)' <=> Said(m)
  BY FwTakes
<1>c. /\ Sent(ResumeIn)
      /\ Sent(StartIn)' <=> Sent(StartIn)
      /\ Sent(StartOut)' <=> Sent(StartOut)
      /\ Sent(StopIn)' <=> Sent(StopIn)
      /\ Sent(StopOut)' <=> Sent(StopOut)
      /\ Sent(PauseIn)' <=> Sent(PauseIn)
      /\ Sent(ResumeOut)' <=> Sent(ResumeOut)
      /\ Sent(Drain)' <=> Sent(Drain)
      /\ Sent(Etb)' <=> Sent(Etb)
      /\ Sent(<<"close">>)' <=> Sent(<<"close">>)
  BY FwTakes, CommandsDiffer
<1>r. /\ ~Sent(ResumeIn)' /\ ~Sent(PauseIn)'
      /\ Ordered(cmds, LateResume) => Ordered(cmds', LateResume)
  BY <1>o, Followers
<1>f. /\ fw'.in = IF fw.in = "pause" THEN "run" ELSE fw.in
      /\ fw'.out = fw.out
      /\ fw'.data = fw.data
      /\ fw'.psc = "none"
      /\ fw'.drain = fw.drain
  BY FwTyped
<1>1. Call("in", StartIn, StopIn, StopDoneIn)'
  BY <1>g, <1>d, <1>c, <1>r, <1>f, FwTyped DEF Call
<1>2. Call("out", StartOut, StopOut, StopDoneOut)'
  BY <1>g, <1>d, <1>c, <1>r, <1>f, FwTyped DEF Call
<1>3. Calls'
  BY <1>g, <1>d, <1>c, <1>1, <1>2 DEF Calls
<1>4. Heard'
  BY <1>g, <1>d, <1>c, <1>r, <1>f, FwTyped DEF Heard
<1>5. Sequences'
  BY <1>g, <1>d, <1>c, <1>r, <1>f, FwTyped DEF Sequences
<1>6. DrainComes'
  BY <1>g, <1>d, <1>c, <1>r, <1>f, FwTyped DEF DrainComes
<1>7. DrcComes'
  BY <1>g, <1>d, <1>c, <1>r, <1>f, FwTyped, LastComes DEF DrcComes, Pauses
<1>8. Pauses'
  BY <1>g, <1>d, <1>c, <1>r, <1>f, FwTyped DEF Pauses
<1> QED BY <1>g, <1>3, <1>4, <1>5, <1>6, <1>7, <1>8 DEF Good

\* The firmware resumes its output.
LEMMA GoodResumeOut ==
  ASSUME TypeOK, Good, UNCHANGED <<session, client, signal, msgs>>,
         cmds # << >>, cmds' = Tail(cmds), Head(cmds) = ResumeOut,
         fw' = [fw EXCEPT !.out = IF @ = "pause" THEN "run" ELSE @]
  PROVE  Good'
<1>o. InOrder BY DEF Good
<1>g. /\ Calls /\ Heard /\ Sequences /\ DrainComes /\ DrcComes /\ Pauses
      /\ Call("in", StartIn, StopIn, StopDoneIn)
      /\ Call("out", StartOut, StopOut, StopDoneOut)
      /\ InOrder'
  BY FwTakes
<1>d. /\ Streaming("in")' <=> Streaming("in")
      /\ Streaming("out")' <=> Streaming("out")
      /\ Paused' <=> Paused
      /\ DrcWaits' <=> DrcWaits
      /\ DrainWaits' <=> DrainWaits
      /\ client' = client /\ signal' = signal /\ sub' = sub /\ decode' = decode
      /\ \A m : Said(m)' <=> Said(m)
  BY FwTakes
<1>c. /\ Sent(ResumeOut)
      /\ Sent(StartIn)' <=> Sent(StartIn)
      /\ Sent(StartOut)' <=> Sent(StartOut)
      /\ Sent(StopIn)' <=> Sent(StopIn)
      /\ Sent(StopOut)' <=> Sent(StopOut)
      /\ Sent(PauseIn)' <=> Sent(PauseIn)
      /\ Sent(ResumeIn)' <=> Sent(ResumeIn)
      /\ Sent(Drain)' <=> Sent(Drain)
      /\ Sent(Etb)' <=> Sent(Etb)
      /\ Sent(<<"close">>)' <=> Sent(<<"close">>)
  BY FwTakes, CommandsDiffer
<1>r. Ordered(cmds, LateResume) => Ordered(cmds', LateResume)
  BY <1>o, Followers
<1>f. /\ fw'.in = fw.in
      /\ fw'.out = IF fw.out = "pause" THEN "run" ELSE fw.out
      /\ fw'.data = fw.data
      /\ fw'.psc = fw.psc
      /\ fw'.drain = fw.drain
  BY FwTyped
<1>1. Call("in", StartIn, StopIn, StopDoneIn)'
  BY <1>g, <1>d, <1>c, <1>r, <1>f, FwTyped DEF Call
<1>2. Call("out", StartOut, StopOut, StopDoneOut)'
  BY <1>g, <1>d, <1>c, <1>r, <1>f, FwTyped DEF Call
<1>3. Calls'
  BY <1>g, <1>d, <1>c, <1>1, <1>2 DEF Calls
<1>4. Heard'
  BY <1>g, <1>d, <1>c, <1>r, <1>f, FwTyped DEF Heard
<1>5. Sequences'
  BY <1>g, <1>d, <1>c, <1>r, <1>f, FwTyped DEF Sequences
<1>6. DrainComes'
  BY <1>g, <1>d, <1>c, <1>r, <1>f, FwTyped DEF DrainComes
<1>7. DrcComes'
  BY <1>g, <1>d, <1>c, <1>r, <1>f, FwTyped, LastComes DEF DrcComes
<1>8. Pauses'
  BY <1>g, <1>d, <1>c, <1>r, <1>f, FwTyped DEF Pauses
<1> QED BY <1>g, <1>3, <1>4, <1>5, <1>6, <1>7, <1>8 DEF Good

\* The firmware is asked for a drain.
LEMMA GoodDrain ==
  ASSUME TypeOK, Good, UNCHANGED <<session, client, signal, msgs>>,
         cmds # << >>, cmds' = Tail(cmds), Head(cmds) = Drain,
         fw' = [fw EXCEPT !.drain = "asked"]
  PROVE  Good'
<1>o. InOrder BY DEF Good
<1>g. /\ Calls /\ Heard /\ Sequences /\ DrainComes /\ DrcComes /\ Pauses
      /\ Call("in", StartIn, StopIn, StopDoneIn)
      /\ Call("out", StartOut, StopOut, StopDoneOut)
      /\ InOrder'
  BY FwTakes
<1>d. /\ Streaming("in")' <=> Streaming("in")
      /\ Streaming("out")' <=> Streaming("out")
      /\ Paused' <=> Paused
      /\ DrcWaits' <=> DrcWaits
      /\ DrainWaits' <=> DrainWaits
      /\ client' = client /\ signal' = signal /\ sub' = sub /\ decode' = decode
      /\ \A m : Said(m)' <=> Said(m)
  BY FwTakes
<1>c. /\ Sent(Drain)
      /\ Sent(StartIn)' <=> Sent(StartIn)
      /\ Sent(StartOut)' <=> Sent(StartOut)
      /\ Sent(StopIn)' <=> Sent(StopIn)
      /\ Sent(StopOut)' <=> Sent(StopOut)
      /\ Sent(PauseIn)' <=> Sent(PauseIn)
      /\ Sent(ResumeIn)' <=> Sent(ResumeIn)
      /\ Sent(ResumeOut)' <=> Sent(ResumeOut)
      /\ Sent(Etb)' <=> Sent(Etb)
      /\ Sent(<<"close">>)' <=> Sent(<<"close">>)
  BY FwTakes, CommandsDiffer
<1>r. /\ ~Sent(StartIn)' /\ ~Sent(PauseIn)' /\ ~Sent(Drain)'
      /\ Ordered(cmds, LateResume) => Ordered(cmds', LateResume)
  BY <1>o, Followers
<1>f. /\ fw'.in = fw.in
      /\ fw'.out = fw.out
      /\ fw'.data = fw.data
      /\ fw'.psc = fw.psc
      /\ fw'.drain = "asked"
  BY FwTyped
<1>1. Call("in", StartIn, StopIn, StopDoneIn)'
  BY <1>g, <1>d, <1>c, <1>r, <1>f, FwTyped DEF Call
<1>2. Call("out", StartOut, StopOut, StopDoneOut)'
  BY <1>g, <1>d, <1>c, <1>r, <1>f, FwTyped DEF Call
<1>3. Calls'
  BY <1>g, <1>d, <1>c, <1>1, <1>2 DEF Calls
<1>4. Heard'
  BY <1>g, <1>d, <1>c, <1>r, <1>f, FwTyped DEF Heard
<1>5. Sequences'
  BY <1>g, <1>d, <1>c, <1>r, <1>f, FwTyped DEF Sequences, Pauses
<1>6. DrainComes'
  BY <1>g, <1>d, <1>c, <1>r, <1>f, FwTyped DEF DrainComes
<1>7. DrcComes'
  BY <1>g, <1>d, <1>c, <1>r, <1>f, FwTyped, LastComes DEF DrcComes
<1>8. Pauses'
  BY <1>g, <1>d, <1>c, <1>r, <1>f, FwTyped DEF Pauses
<1> QED BY <1>g, <1>3, <1>4, <1>5, <1>6, <1>7, <1>8 DEF Good

\* The firmware takes an input buffer.
LEMMA GoodEtb ==
  ASSUME TypeOK, Good, UNCHANGED <<session, client, signal, msgs>>,
         cmds # << >>, cmds' = Tail(cmds), Head(cmds) = Etb,
         fw' = [fw EXCEPT !.data = IF fw.drain = "asked" THEN "after" ELSE "now"]
  PROVE  Good'
<1>o. InOrder BY DEF Good
<1>g. /\ Calls /\ Heard /\ Sequences /\ DrainComes /\ DrcComes /\ Pauses
      /\ Call("in", StartIn, StopIn, StopDoneIn)
      /\ Call("out", StartOut, StopOut, StopDoneOut)
      /\ InOrder'
  BY FwTakes
<1>d. /\ Streaming("in")' <=> Streaming("in")
      /\ Streaming("out")' <=> Streaming("out")
      /\ Paused' <=> Paused
      /\ DrcWaits' <=> DrcWaits
      /\ DrainWaits' <=> DrainWaits
      /\ client' = client /\ signal' = signal /\ sub' = sub /\ decode' = decode
      /\ \A m : Said(m)' <=> Said(m)
  BY FwTakes
<1>c. /\ Sent(Etb)
      /\ Sent(StartIn)' <=> Sent(StartIn)
      /\ Sent(StartOut)' <=> Sent(StartOut)
      /\ Sent(StopIn)' <=> Sent(StopIn)
      /\ Sent(StopOut)' <=> Sent(StopOut)
      /\ Sent(PauseIn)' <=> Sent(PauseIn)
      /\ Sent(ResumeIn)' <=> Sent(ResumeIn)
      /\ Sent(ResumeOut)' <=> Sent(ResumeOut)
      /\ Sent(Drain)' <=> Sent(Drain)
      /\ Sent(<<"close">>)' <=> Sent(<<"close">>)
  BY FwTakes, CommandsDiffer
<1>r. /\ ~Sent(StartIn)' /\ ~Sent(PauseIn)'
      /\ Ordered(cmds, LateResume) => Ordered(cmds', LateResume)
  BY <1>o, Followers
<1>f. /\ fw'.in = fw.in
      /\ fw'.out = fw.out
      /\ fw'.data \in {"now", "after"}
      /\ fw'.psc = fw.psc
      /\ fw'.drain = fw.drain
  BY FwTyped
<1>1. Call("in", StartIn, StopIn, StopDoneIn)'
  BY <1>g, <1>d, <1>c, <1>r, <1>f, FwTyped DEF Call
<1>2. Call("out", StartOut, StopOut, StopDoneOut)'
  BY <1>g, <1>d, <1>c, <1>r, <1>f, FwTyped DEF Call
<1>3. Calls'
  BY <1>g, <1>d, <1>c, <1>1, <1>2 DEF Calls
<1>4. Heard'
  BY <1>g, <1>d, <1>c, <1>r, <1>f, FwTyped DEF Heard
<1>5. Sequences'
  BY <1>g, <1>d, <1>c, <1>r, <1>f, FwTyped DEF Sequences
<1>6. DrainComes'
  BY <1>g, <1>d, <1>c, <1>r, <1>f, FwTyped DEF DrainComes
<1>7. DrcComes'
  BY <1>g, <1>d, <1>c, <1>r, <1>f, FwTyped, LastComes DEF DrcComes
<1>8. Pauses'
  BY <1>g, <1>d, <1>c, <1>r, <1>f, FwTyped DEF Pauses
<1> QED BY <1>g, <1>3, <1>4, <1>5, <1>6, <1>7, <1>8 DEF Good

\* The firmware stops its output.
LEMMA GoodStopOut ==
  ASSUME TypeOK, Good, UNCHANGED <<session, client, signal>>,
         cmds # << >>, cmds' = Tail(cmds), Head(cmds) = StopOut, FwStop("out")
  PROVE  Good'
<1>d. /\ Streaming("in")' <=> Streaming("in")
      /\ Streaming("out")' <=> Streaming("out")
      /\ Paused' <=> Paused
      /\ DrcWaits' <=> DrcWaits
      /\ DrainWaits' <=> DrainWaits
      /\ client' = client /\ signal' = signal /\ sub' = sub /\ decode' = decode
  BY SameDriver
<1>o. InOrder BY DEF Good
<1>g. /\ Calls /\ Heard /\ Sequences /\ DrainComes /\ DrcComes /\ Pauses
      /\ Call("in", StartIn, StopIn, StopDoneIn)
      /\ Call("out", StartOut, StopOut, StopDoneOut)
  BY DEF Good, Calls
<1>1. cmds' = << >> /\ \A m : ~Sent(m)'
  BY <1>o, StopIsLast
<1>2. /\ Sent(StopOut) /\ ~Sent(StartIn) /\ ~Sent(StartOut) /\ ~Sent(Drain)
      /\ ~Sent(ResumeIn) /\ ~Sent(PauseIn)
  BY <1>o, <1>1, CommandTaken, CommandsDiffer
<1>3. /\ client = "out" /\ fw.out # "stop" /\ Streaming("out") /\ "out" \notin signal
      /\ ~Said(StopDoneIn) /\ ~Said(StopDoneOut) /\ "in" \notin signal
  BY <1>2, <1>g DEF Call
<1>5. /\ fw'.out = "stop" /\ fw'.in = fw.in /\ fw'.data = fw.data
      /\ fw'.psc = IF fw.psc = "last" THEN "seen" ELSE fw.psc
      /\ fw'.drain = IF fw.drain = "last" THEN "none" ELSE fw.drain
  BY FwTyped DEF FwStop
<1>6. /\ \A a : Said(a)' <=> Said(a) \/ InFlight(a, Flush("out")) \/ a = StopDoneOut
      /\ Ordered(msgs', MsgBars')
      /\ \A a : InFlight(a, Flush("out")) <=>
              \/ fw.psc = "last" /\ a = PscLast
              \/ fw.drain = "last" /\ a = DrainLast
  <2>1. msgs' = msgs \o Flush("out") \o << StopDoneOut >>
    BY <1>3 DEF FwStop, StopDoneOut
  <2>2. \A a : InFlight(a, Flush("out")) <=>
              \/ fw.psc = "last" /\ a = PscLast
              \/ fw.drain = "last" /\ a = DrainLast
    BY FlushSays DEF Port
  <2>3. \A a, b : Said(a) /\ InFlight(b, Flush("out")) => <<a, b>> \notin MsgBars
    BY <1>g, <1>3, <2>2, AnswersDiffer DEF MsgBars, Sequences, DrainComes, DrcComes
  <2>4. \A a : Said(a) \/ InFlight(a, Flush("out")) => <<a, StopDoneOut>> \notin MsgBars
    BY <1>3, <2>2, AnswersDiffer DEF MsgBars
  <2> QED BY <1>d, <1>o, <2>1, <2>2, <2>3, <2>4, StopSays, NamesAre DEF Port
<1>s. /\ Said(StopDoneOut)' /\ ~Said(StopDoneIn)'
      /\ Said(Ipsc)' <=> Said(Ipsc)
      /\ Said(PscLast)' <=> Said(PscLast) \/ fw.psc = "last"
      /\ Said(DrainDone)' <=> Said(DrainDone)
      /\ Said(DrainLast)' <=> Said(DrainLast) \/ fw.drain = "last"
      /\ \A a \in {<<"close_done">>, <<"error">>, <<"stop_error", "in">>, <<"stop_error", "out">>} :
           Said(a)' <=> Said(a)
  BY <1>3, <1>6, AnswersDiffer
<1>7. InOrder'
  BY <1>1, <1>6, OrderedOne DEF InOrder
<1>8. Calls'
  <2>1. Call("in", StartIn, StopIn, StopDoneIn)'
    BY <1>g, <1>d, <1>1, <1>3, <1>5, <1>s DEF Call
  <2>2. Call("out", StartOut, StopOut, StopDoneOut)'
    BY <1>g, <1>d, <1>1, <1>3, <1>5, <1>s DEF Call
  <2> QED BY <1>g, <1>1, <1>s, <2>1, <2>2 DEF Calls
<1>9. Heard'
  BY <1>g, <1>d, <1>1, <1>2, <1>3, <1>5, <1>s, FwTyped DEF Heard, Call, Sequences
<1>10. Sequences'
  BY <1>g, <1>d, <1>1, <1>3, <1>5, <1>s, FwTyped DEF Sequences
<1>11. DrainComes'
  BY <1>g, <1>d, <1>1, <1>2, <1>3, <1>5, <1>s, FwTyped DEF DrainComes, Sequences
<1>12. DrcComes'
  BY <1>g, <1>d, <1>1, <1>2, <1>3, <1>5, <1>s, FwTyped, LastComes
     DEF DrcComes, Sequences, Heard
<1>13. Pauses'
  BY <1>g, <1>d, <1>1, <1>2, <1>3, <1>5, <1>s, FwTyped, NoStartNoLate
     DEF Pauses, Sequences
<1> QED BY <1>7, <1>8, <1>9, <1>10, <1>11, <1>12, <1>13 DEF Good

\* What is known when the firmware speaks of itself.
LEMMA FwSays ==
  ASSUME TypeOK, Good, NEW m \in Msgs, Says(m), alive,
         \A a : Said(a) => <<a, m>> \notin MsgBars
  PROVE  /\ Streaming("in")' <=> Streaming("in")
         /\ Streaming("out")' <=> Streaming("out")
         /\ Paused' <=> Paused
         /\ DrcWaits' <=> DrcWaits
         /\ DrainWaits' <=> DrainWaits
         /\ client' = client /\ signal' = signal /\ sub' = sub /\ decode' = decode
         /\ cmds' = cmds
         /\ \A a : Said(a)' <=> Said(a) \/ a = m
         /\ \A a : Sent(a)' <=> Sent(a)
         /\ InOrder'
         /\ Calls /\ Heard /\ Sequences /\ DrainComes /\ DrcComes /\ Pauses
         /\ Call("in", StartIn, StopIn, StopDoneIn)
         /\ Call("out", StartOut, StopOut, StopDoneOut)
<1>1. InOrder BY DEF Good
<1>2. UNCHANGED <<session, client, signal>> /\ cmds' = cmds /\ msgs' = Append(msgs, m)
  BY DEF Says
<1>3. /\ Streaming("in")' <=> Streaming("in")
      /\ Streaming("out")' <=> Streaming("out")
      /\ Paused' <=> Paused
      /\ DrcWaits' <=> DrcWaits
      /\ DrainWaits' <=> DrainWaits
      /\ client' = client /\ signal' = signal /\ sub' = sub /\ decode' = decode
  BY <1>2, SameDriver
<1>4. /\ \A a : Said(a)' <=> Said(a) \/ a = m
      /\ Ordered(msgs', MsgBars')
  BY <1>1, <1>2, <1>3, AnswerGiven
<1>5. \A a : Sent(a)' <=> Sent(a) BY <1>2 DEF Sent
<1>6. InOrder' BY <1>1, <1>2, <1>4 DEF InOrder
<1>7. /\ Calls /\ Heard /\ Sequences /\ DrainComes /\ DrcComes /\ Pauses
      /\ Call("in", StartIn, StopIn, StopDoneIn)
      /\ Call("out", StartOut, StopOut, StopDoneOut)
  BY DEF Good, Calls
<1> QED BY <1>2, <1>3, <1>4, <1>5, <1>6, <1>7

\* The firmware reports a settings change.
LEMMA GoodFwIpsc ==
  ASSUME TypeOK, Good, FwIpsc
  PROVE  Good'
<1>g. /\ Calls /\ Heard /\ Sequences /\ DrainComes /\ DrcComes /\ Pauses
      /\ Call("in", StartIn, StopIn, StopDoneIn)
      /\ Call("out", StartOut, StopOut, StopDoneOut)
  BY DEF Good, Calls
<1>p. /\ decode /\ fw.in = "run" /\ fw.data = "now" /\ fw.psc = "none"
      /\ Streaming("in") /\ "in" \notin signal /\ fw.drain # "last"
      /\ ~Said(Ipsc) /\ ~Said(PscLast) /\ ~Said(DrainDone) /\ ~Said(DrainLast)
      /\ ~Said(StopDoneIn) /\ ~Paused /\ ~Sent(PauseIn) /\ ~DrcWaits
      /\ ~Sent(ResumeIn) /\ ~Sent(StartIn)
  BY <1>g, FwTyped
     DEF FwIpsc, Call, Sequences, DrainComes, DrcComes, Heard, Pauses, DrcWaits
<1>m. alive /\ Ipsc \in Msgs /\ Says(Ipsc)
  BY NamesAre DEF FwIpsc, Says, Ipsc
<1>b. \A a : Said(a) => <<a, Ipsc>> \notin MsgBars
  BY <1>p, AnswersDiffer DEF MsgBars
<1>i. InOrder'
  BY <1>m, <1>b, FwSays
<1>d. /\ Streaming("in")' <=> Streaming("in")
      /\ Streaming("out")' <=> Streaming("out")
      /\ Paused' <=> Paused
      /\ DrcWaits' <=> DrcWaits
      /\ DrainWaits' <=> DrainWaits
      /\ client' = client /\ signal' = signal /\ sub' = sub /\ decode' = decode
      /\ cmds' = cmds /\ \A a : Sent(a)' <=> Sent(a)
  BY <1>m, <1>b, FwSays
<1>s. /\ Said(Ipsc)'
      /\ Said(PscLast)' <=> Said(PscLast)
      /\ Said(DrainDone)' <=> Said(DrainDone)
      /\ Said(DrainLast)' <=> Said(DrainLast)
      /\ Said(StopDoneIn)' <=> Said(StopDoneIn)
      /\ Said(StopDoneOut)' <=> Said(StopDoneOut)
      /\ \A a \in {<<"close_done">>, <<"error">>, <<"stop_error", "in">>, <<"stop_error", "out">>} :
           Said(a)' <=> Said(a)
  BY <1>m, <1>b, FwSays, AnswersDiffer
<1>f. /\ fw'.in = "pause"
      /\ fw'.out = fw.out
      /\ fw'.data = "none"
      /\ fw'.psc = IF fw.out = "stop" THEN "seen" ELSE "last"
      /\ fw'.drain = fw.drain
  BY FwTyped DEF FwIpsc
<1>1. Call("in", StartIn, StopIn, StopDoneIn)'
  BY <1>g, <1>p, <1>d, <1>s, <1>f, FwTyped DEF Call
<1>2. Call("out", StartOut, StopOut, StopDoneOut)'
  BY <1>g, <1>p, <1>d, <1>s, <1>f, FwTyped DEF Call
<1>3. Calls'
  BY <1>g, <1>d, <1>s, <1>1, <1>2 DEF Calls
<1>4. Heard'
  BY <1>g, <1>p, <1>d, <1>s, <1>f, FwTyped DEF Heard
<1>5. Sequences'
  BY <1>g, <1>p, <1>d, <1>s, <1>f, FwTyped DEF Sequences
<1>6. DrainComes'
  BY <1>g, <1>p, <1>d, <1>s, <1>f, FwTyped DEF DrainComes
<1>7. DrcComes'
  BY <1>g, <1>p, <1>d, <1>s, <1>f, FwTyped, LastComes DEF DrcComes
<1>8. Pauses'
  BY <1>g, <1>p, <1>d, <1>s, <1>f, FwTyped DEF Pauses
<1> QED BY <1>i, <1>3, <1>4, <1>5, <1>6, <1>7, <1>8 DEF Good

\* The firmware sends the last buffer before a settings change.
LEMMA GoodFwPscLast ==
  ASSUME TypeOK, Good, FwPscLast
  PROVE  Good'
<1>g. /\ Calls /\ Heard /\ Sequences /\ DrainComes /\ DrcComes /\ Pauses
      /\ Call("in", StartIn, StopIn, StopDoneIn)
      /\ Call("out", StartOut, StopOut, StopDoneOut)
  BY DEF Good, Calls
<1>p. /\ fw.psc = "last" /\ fw.out = "run" /\ fw.in = "pause" /\ fw.drain # "last" /\ decode
      /\ Streaming("in") /\ Streaming("out") /\ "in" \notin signal /\ "out" \notin signal
      /\ ~Sent(StartOut) /\ ~Said(PscLast) /\ ~Said(DrainLast) /\ ~Said(DrainDone)
      /\ ~Said(StopDoneIn) /\ ~Said(StopDoneOut) /\ ~Sent(StartIn) /\ ~Sent(ResumeIn)
  BY <1>g, FwTyped
     DEF FwPscLast, Call, Sequences, DrainComes, DrcComes, Heard, Pauses, DrcWaits
<1>m. alive /\ PscLast \in Msgs /\ Says(PscLast)
  BY NamesAre DEF FwPscLast, Says, PscLast
<1>b. \A a : Said(a) => <<a, PscLast>> \notin MsgBars
  BY <1>p, AnswersDiffer DEF MsgBars
<1>i. InOrder'
  BY <1>m, <1>b, FwSays
<1>d. /\ Streaming("in")' <=> Streaming("in")
      /\ Streaming("out")' <=> Streaming("out")
      /\ Paused' <=> Paused
      /\ DrcWaits' <=> DrcWaits
      /\ DrainWaits' <=> DrainWaits
      /\ client' = client /\ signal' = signal /\ sub' = sub /\ decode' = decode
      /\ cmds' = cmds /\ \A a : Sent(a)' <=> Sent(a)
  BY <1>m, <1>b, FwSays
<1>s. /\ Said(PscLast)'
      /\ Said(Ipsc)' <=> Said(Ipsc)
      /\ Said(DrainDone)' <=> Said(DrainDone)
      /\ Said(DrainLast)' <=> Said(DrainLast)
      /\ Said(StopDoneIn)' <=> Said(StopDoneIn)
      /\ Said(StopDoneOut)' <=> Said(StopDoneOut)
      /\ \A a \in {<<"close_done">>, <<"error">>, <<"stop_error", "in">>, <<"stop_error", "out">>} :
           Said(a)' <=> Said(a)
  BY <1>m, <1>b, FwSays, AnswersDiffer
<1>f. /\ fw'.in = fw.in
      /\ fw'.out = "pause"
      /\ fw'.data = fw.data
      /\ fw'.psc = "seen"
      /\ fw'.drain = fw.drain
  BY FwTyped DEF FwPscLast
<1>1. Call("in", StartIn, StopIn, StopDoneIn)'
  BY <1>g, <1>p, <1>d, <1>s, <1>f, FwTyped DEF Call
<1>2. Call("out", StartOut, StopOut, StopDoneOut)'
  BY <1>g, <1>p, <1>d, <1>s, <1>f, FwTyped DEF Call
<1>3. Calls'
  BY <1>g, <1>d, <1>s, <1>1, <1>2 DEF Calls
<1>4. Heard'
  BY <1>g, <1>p, <1>d, <1>s, <1>f, FwTyped DEF Heard
<1>5. Sequences'
  BY <1>g, <1>p, <1>d, <1>s, <1>f, FwTyped DEF Sequences
<1>6. DrainComes'
  BY <1>g, <1>p, <1>d, <1>s, <1>f, FwTyped DEF DrainComes
<1>7. DrcComes'
  BY <1>g, <1>p, <1>d, <1>s, <1>f, FwTyped, LastComes DEF DrcComes
<1>8. Pauses'
  BY <1>g, <1>p, <1>d, <1>s, <1>f, FwTyped DEF Pauses
<1> QED BY <1>i, <1>3, <1>4, <1>5, <1>6, <1>7, <1>8 DEF Good

\* The firmware has read the input up to a drain.
LEMMA GoodFwDrainDone ==
  ASSUME TypeOK, Good, FwDrainDone, SequencesNest
  PROVE  Good'
<1>g. /\ Calls /\ Heard /\ Sequences /\ DrainComes /\ DrcComes /\ Pauses
      /\ Call("in", StartIn, StopIn, StopDoneIn)
      /\ Call("out", StartOut, StopOut, StopDoneOut)
  BY DEF Good, Calls
<1>p. /\ fw.drain = "asked" /\ fw.in = "run" /\ fw.out = "run" /\ fw.psc = "none"
      /\ Streaming("in") /\ "in" \notin signal /\ ~Said(DrainLast)
      /\ ~Said(DrainDone) /\ ~Said(Ipsc) /\ ~Said(PscLast) /\ ~Said(StopDoneIn) /\ ~Paused /\ ~Sent(PauseIn)
      /\ ~Sent(Drain) /\ ~Sent(ResumeIn) /\ ~Sent(StartIn) /\ "DRC_LAST" \notin sub
  BY <1>g, FwTyped
     DEF FwDrainDone, Call, Sequences, DrainComes, DrcComes, Heard, Pauses, DrcWaits,
         SequencesNest
<1>m. alive /\ DrainDone \in Msgs /\ Says(DrainDone)
  BY NamesAre DEF FwDrainDone, Says, DrainDone
<1>b. \A a : Said(a) => <<a, DrainDone>> \notin MsgBars
  BY <1>p, AnswersDiffer DEF MsgBars
<1>i. InOrder'
  BY <1>m, <1>b, FwSays
<1>d. /\ Streaming("in")' <=> Streaming("in")
      /\ Streaming("out")' <=> Streaming("out")
      /\ Paused' <=> Paused
      /\ DrcWaits' <=> DrcWaits
      /\ DrainWaits' <=> DrainWaits
      /\ client' = client /\ signal' = signal /\ sub' = sub /\ decode' = decode
      /\ cmds' = cmds /\ \A a : Sent(a)' <=> Sent(a)
  BY <1>m, <1>b, FwSays
<1>s. /\ Said(DrainDone)'
      /\ Said(Ipsc)' <=> Said(Ipsc)
      /\ Said(PscLast)' <=> Said(PscLast)
      /\ Said(DrainLast)' <=> Said(DrainLast)
      /\ Said(StopDoneIn)' <=> Said(StopDoneIn)
      /\ Said(StopDoneOut)' <=> Said(StopDoneOut)
      /\ \A a \in {<<"close_done">>, <<"error">>, <<"stop_error", "in">>, <<"stop_error", "out">>} :
           Said(a)' <=> Said(a)
  BY <1>m, <1>b, FwSays, AnswersDiffer
<1>f. /\ fw'.in = "pause"
      /\ fw'.out = fw.out
      /\ fw'.data \in {"now", "none"}
      /\ fw'.psc = fw.psc
      /\ fw'.drain = "last"
  BY FwTyped DEF FwDrainDone
<1>1. Call("in", StartIn, StopIn, StopDoneIn)'
  BY <1>g, <1>p, <1>d, <1>s, <1>f, FwTyped DEF Call
<1>2. Call("out", StartOut, StopOut, StopDoneOut)'
  BY <1>g, <1>p, <1>d, <1>s, <1>f, FwTyped DEF Call
<1>3. Calls'
  BY <1>g, <1>d, <1>s, <1>1, <1>2 DEF Calls
<1>4. Heard'
  BY <1>g, <1>p, <1>d, <1>s, <1>f, FwTyped DEF Heard
<1>5. Sequences'
  BY <1>g, <1>p, <1>d, <1>s, <1>f, FwTyped DEF Sequences
<1>6. DrainComes'
  BY <1>g, <1>p, <1>d, <1>s, <1>f, FwTyped DEF DrainComes
<1>7. DrcComes'
  BY <1>g, <1>p, <1>d, <1>s, <1>f, FwTyped, LastComes DEF DrcComes
<1>8. Pauses'
  BY <1>g, <1>p, <1>d, <1>s, <1>f, FwTyped DEF Pauses
<1> QED BY <1>i, <1>3, <1>4, <1>5, <1>6, <1>7, <1>8 DEF Good

\* The firmware sends the last buffer of a drain.
LEMMA GoodFwDrainLast ==
  ASSUME TypeOK, Good, FwDrainLast
  PROVE  Good'
<1>g. /\ Calls /\ Heard /\ Sequences /\ DrainComes /\ DrcComes /\ Pauses
      /\ Call("in", StartIn, StopIn, StopDoneIn)
      /\ Call("out", StartOut, StopOut, StopDoneOut)
  BY DEF Good, Calls
<1>p. /\ fw.drain = "last" /\ fw.out = "run" /\ fw.psc = "none" /\ ~Said(PscLast)
      /\ Streaming("out") /\ "out" \notin signal /\ ~Said(DrainLast) /\ ~Sent(StartOut)
      /\ ~Said(StopDoneOut) /\ ~Sent(Drain)
      /\ decode => /\ Streaming("in") /\ "in" \notin signal /\ ~Said(StopDoneIn)
                   /\ fw.in = "pause" /\ ~Sent(ResumeIn) /\ ~Sent(StartIn)
  BY <1>g, FwTyped
     DEF FwDrainLast, Call, Sequences, DrainComes, DrcComes, Heard, Pauses, DrcWaits
<1>m. alive /\ DrainLast \in Msgs /\ Says(DrainLast)
  BY NamesAre DEF FwDrainLast, Says, DrainLast
<1>b. \A a : Said(a) => <<a, DrainLast>> \notin MsgBars
  BY <1>p, AnswersDiffer DEF MsgBars
<1>i. InOrder'
  BY <1>m, <1>b, FwSays
<1>d. /\ Streaming("in")' <=> Streaming("in")
      /\ Streaming("out")' <=> Streaming("out")
      /\ Paused' <=> Paused
      /\ DrcWaits' <=> DrcWaits
      /\ DrainWaits' <=> DrainWaits
      /\ client' = client /\ signal' = signal /\ sub' = sub /\ decode' = decode
      /\ cmds' = cmds /\ \A a : Sent(a)' <=> Sent(a)
  BY <1>m, <1>b, FwSays
<1>s. /\ Said(DrainLast)'
      /\ Said(Ipsc)' <=> Said(Ipsc)
      /\ Said(PscLast)' <=> Said(PscLast)
      /\ Said(DrainDone)' <=> Said(DrainDone)
      /\ Said(StopDoneIn)' <=> Said(StopDoneIn)
      /\ Said(StopDoneOut)' <=> Said(StopDoneOut)
      /\ \A a \in {<<"close_done">>, <<"error">>, <<"stop_error", "in">>, <<"stop_error", "out">>} :
           Said(a)' <=> Said(a)
  BY <1>m, <1>b, FwSays, AnswersDiffer
<1>f. /\ fw'.in = fw.in
      /\ (fw'.out = "stop") <=> (fw.out = "stop")
      /\ fw'.data = fw.data
      /\ fw'.psc = fw.psc
      /\ fw'.drain = "none"
  BY FwTyped DEF FwDrainLast
<1>1. Call("in", StartIn, StopIn, StopDoneIn)'
  BY <1>g, <1>p, <1>d, <1>s, <1>f, FwTyped DEF Call
<1>2. Call("out", StartOut, StopOut, StopDoneOut)'
  BY <1>g, <1>p, <1>d, <1>s, <1>f, FwTyped DEF Call
<1>3. Calls'
  BY <1>g, <1>d, <1>s, <1>1, <1>2 DEF Calls
<1>4. Heard'
  BY <1>g, <1>p, <1>d, <1>s, <1>f, FwTyped DEF Heard
<1>5. Sequences'
  BY <1>g, <1>p, <1>d, <1>s, <1>f, FwTyped DEF Sequences
<1>6. DrainComes'
  BY <1>g, <1>p, <1>d, <1>s, <1>f, FwTyped DEF DrainComes
<1>7. DrcComes'
  BY <1>g, <1>p, <1>d, <1>s, <1>f, FwTyped, LastComes DEF DrcComes
<1>8. Pauses'
  BY <1>g, <1>p, <1>d, <1>s, <1>f, FwTyped DEF Pauses
<1> QED BY <1>i, <1>3, <1>4, <1>5, <1>6, <1>7, <1>8 DEF Good

\* What does not follow the answer the driver takes.
LEMMA AnswerFollowers ==
  ASSUME TypeOK, InOrder, msgs # << >>, msgs' = Tail(msgs)
  PROVE  /\ Head(msgs) = Ipsc => ~Said(Ipsc)'
         /\ Head(msgs) = PscLast => ~Said(Ipsc)' /\ ~Said(PscLast)'
         /\ Head(msgs) = DrainDone => ~Said(Ipsc)'
         /\ Head(msgs) = DrainLast => ~Said(DrainLast)' /\ ~Said(DrainDone)' /\ ~Said(PscLast)'
         /\ Head(msgs) = StopDoneIn => /\ ~Said(StopDoneIn)' /\ ~Said(Ipsc)'
                                       /\ ~Said(DrainDone)' /\ ~Said(PscLast)'
                                       /\ decode => ~Said(DrainLast)'
         /\ Head(msgs) = StopDoneOut => ~Said(StopDoneOut)' /\ ~Said(PscLast)' /\ ~Said(DrainLast)'
<1>1. \A m : Said(m)' => <<Head(msgs), m>> \notin MsgBars BY AnswerTaken
<1>2. /\ <<Ipsc, Ipsc>> \in MsgBars
      /\ <<PscLast, Ipsc>> \in MsgBars /\ <<PscLast, PscLast>> \in MsgBars
      /\ <<DrainDone, Ipsc>> \in MsgBars
      /\ <<DrainLast, DrainLast>> \in MsgBars /\ <<DrainLast, DrainDone>> \in MsgBars
      /\ <<DrainLast, PscLast>> \in MsgBars
      /\ <<StopDoneIn, StopDoneIn>> \in MsgBars /\ <<StopDoneIn, Ipsc>> \in MsgBars
      /\ <<StopDoneIn, DrainDone>> \in MsgBars /\ <<StopDoneIn, PscLast>> \in MsgBars
      /\ decode => <<StopDoneIn, DrainLast>> \in MsgBars
      /\ <<StopDoneOut, StopDoneOut>> \in MsgBars /\ <<StopDoneOut, PscLast>> \in MsgBars
      /\ <<StopDoneOut, DrainLast>> \in MsgBars
  BY DEF MsgBars
<1> QED BY <1>1, <1>2

\* What is known when the driver has taken an answer.
LEMMA DriverTakes ==
  ASSUME TypeOK, Good, msgs # << >>, msgs' = Tail(msgs),
         UNCHANGED <<vb2, decode, closing, packet, client, cmds, fw, alive>>
  PROVE  /\ \A m : Sent(m)' <=> Sent(m)
         /\ \A m : Said(m) <=> Head(msgs) = m \/ Said(m)'
         /\ InOrder' /\ cmds' = cmds /\ fw' = fw /\ client' = client /\ decode' = decode
         /\ Calls /\ Heard /\ Sequences /\ DrainComes /\ DrcComes /\ Pauses
         /\ Call("in", StartIn, StopIn, StopDoneIn)
         /\ Call("out", StartOut, StopOut, StopDoneOut)
<1>1. InOrder BY DEF Good
<1>2. cmds' = cmds /\ fw' = fw /\ client' = client /\ decode' = decode OBVIOUS
<1>3. \A m : Sent(m)' <=> Sent(m) BY <1>2 DEF Sent
<1>4. /\ \A m : Said(m) <=> Head(msgs) = m \/ Said(m)'
      /\ Ordered(msgs', MsgBars)
  BY <1>1, AnswerTaken
<1>5. MsgBars' = MsgBars BY <1>2 DEF MsgBars
<1>6. InOrder' BY <1>1, <1>2, <1>4, <1>5 DEF InOrder
<1>7. /\ Calls /\ Heard /\ Sequences /\ DrainComes /\ DrcComes /\ Pauses
      /\ Call("in", StartIn, StopIn, StopDoneIn)
      /\ Call("out", StartOut, StopOut, StopDoneOut)
  BY DEF Good, Calls
<1> QED BY <1>2, <1>3, <1>4, <1>6, <1>7

\* While both ports stream, or one, the flags of a pause can be set.
LEMMA StreamingStates ==
  /\ Streaming("in") <=> state \in {"STREAMING", "INPUT_STREAMING"}
  /\ Streaming("out") <=> state \in {"STREAMING", "OUTPUT_STREAMING"}
  /\ state' = state => /\ Streaming("in")' <=> Streaming("in")
                       /\ Streaming("out")' <=> Streaming("out")
BY DEF Streaming

\* The driver reads a settings change.
LEMMA GoodIpsc ==
  ASSUME TypeOK, SequencesNest, Good, state # "ERROR", msgs # << >>, msgs' = Tail(msgs),
         UNCHANGED <<vb2, decode, closing, packet, client, cmds, fw, alive>>,
         HandleIpsc, blame' = {}
  PROVE  Good' /\ state' # "ERROR"
<1>o. InOrder BY DEF Good
<1>g. /\ Calls /\ Heard /\ Sequences /\ DrainComes /\ DrcComes /\ Pauses
      /\ Call("in", StartIn, StopIn, StopDoneIn)
      /\ Call("out", StartOut, StopOut, StopDoneOut)
  BY DEF Good, Calls
<1>t. /\ InOrder' /\ cmds' = cmds /\ fw' = fw /\ client' = client /\ decode' = decode
      /\ \A a : Sent(a)' <=> Sent(a)
  BY DriverTakes
<1>h. Head(msgs) = Ipsc
  BY DEF HandleIpsc, Ipsc
<1>s. /\ Said(Ipsc)
      /\ ~Said(Ipsc)'
      /\ Said(PscLast)' <=> Said(PscLast)
      /\ Said(DrainDone)' <=> Said(DrainDone)
      /\ Said(DrainLast)' <=> Said(DrainLast)
      /\ Said(StopDoneIn)' <=> Said(StopDoneIn)
      /\ Said(StopDoneOut)' <=> Said(StopDoneOut)
      /\ \A a \in {<<"close_done">>, <<"error">>, <<"stop_error", "in">>, <<"stop_error", "out">>} :
           Said(a)' <=> Said(a)
  BY <1>o, <1>h, DriverTakes, AnswerFollowers, AnswersDiffer
<1>p. /\ Streaming("in") /\ "in" \notin signal /\ decode /\ ~Paused /\ ~DrcWaits
      /\ "DRC" \notin sub /\ "DRC_LAST" \notin sub
      /\ "FIRST_IPSC" \notin sub /\ "DRAIN_LAST" \notin sub
      /\ ~Sent(ResumeIn) /\ ~Sent(StartIn) /\ fw.in # "run"
  BY <1>g, <1>s, <1>o, FwTyped, LastComes, StreamingStates, NothingInFlight
     DEF Call, Sequences, DrainComes, DrcComes, Heard, Pauses, DrcWaits, DrainWaits,
         Paused, Sent, SequencesNest
<1>e. /\ state' = state /\ signal' = signal
      /\ state = "INPUT_STREAMING" => sub' = sub \cup {"INPUT_PAUSE", "FIRST_IPSC"}
      /\ state = "STREAMING" => sub' = sub \cup {"DRC", "INPUT_PAUSE"} /\ LastIsComing
  BY <1>p, <1>h, <1>g, StreamingStates
     DEF HandleIpsc, CanSet, SetSub, Refused, LastIsMissing, DrcWaits, DrainWaits,
         Paused, SequencesNest
<1>w. /\ Streaming("in")' <=> Streaming("in")
      /\ Streaming("out")' <=> Streaming("out")
      /\ (DrcWaits' => LastIsComing) /\ (state = "STREAMING" => DrcWaits')
      /\ DrainWaits' <=> DrainWaits
      /\ Paused'
      /\ ("DRC_LAST" \in sub') <=> ("DRC_LAST" \in sub)
      /\ ("DRAIN_LAST" \in sub') <=> ("DRAIN_LAST" \in sub)
  BY <1>p, <1>e, StreamingStates DEF DrcWaits, DrainWaits, Paused
<1>1. Call("in", StartIn, StopIn, StopDoneIn)'
  BY <1>g, <1>t, <1>s, <1>p, <1>e, <1>w DEF Call
<1>2. Call("out", StartOut, StopOut, StopDoneOut)'
  BY <1>g, <1>t, <1>s, <1>p, <1>e, <1>w DEF Call
<1>3. Calls'
  BY <1>g, <1>t, <1>s, <1>1, <1>2 DEF Calls
<1>4. Heard'
  BY <1>g, <1>t, <1>s, <1>p, <1>e, <1>w DEF Heard
<1>5. Sequences'
  BY <1>g, <1>t, <1>s, <1>p, <1>e, <1>w DEF Sequences
<1>6. DrainComes'
  BY <1>g, <1>t, <1>s, <1>p, <1>e, <1>w DEF DrainComes
<1>7. DrcComes'
  BY <1>g, <1>t, <1>s, <1>p, <1>e, <1>w, LastComes, StreamingStates
     DEF DrcComes, Call, Sequences, Heard
<1>8. Pauses'
  BY <1>g, <1>t, <1>s, <1>p, <1>e, <1>w DEF Pauses
<1> QED BY <1>t, <1>e, <1>3, <1>4, <1>5, <1>6, <1>7, <1>8 DEF Good

\* The driver reads the last buffer before a settings change.
LEMMA GoodPscLast ==
  ASSUME TypeOK, SequencesNest, Good, state # "ERROR", msgs # << >>, msgs' = Tail(msgs),
         UNCHANGED <<vb2, decode, closing, packet, client, cmds, fw, alive>>,
         HandleLast("psc_last", "DRC", "DRC_LAST")
  PROVE  Good' /\ state' # "ERROR"
<1>o. InOrder BY DEF Good
<1>g. /\ Calls /\ Heard /\ Sequences /\ DrainComes /\ DrcComes /\ Pauses
      /\ Call("in", StartIn, StopIn, StopDoneIn)
      /\ Call("out", StartOut, StopOut, StopDoneOut)
  BY DEF Good, Calls
<1>t. /\ InOrder' /\ cmds' = cmds /\ fw' = fw /\ client' = client /\ decode' = decode
      /\ \A a : Sent(a)' <=> Sent(a)
  BY DriverTakes
<1>h. Head(msgs) = PscLast
  BY DEF HandleLast, PscLast
<1>s. /\ Said(PscLast)
      /\ ~Said(Ipsc)' /\ ~Said(PscLast)'
      /\ Said(Ipsc)' <=> Said(Ipsc)
      /\ Said(DrainDone)' <=> Said(DrainDone)
      /\ Said(DrainLast)' <=> Said(DrainLast)
      /\ Said(StopDoneIn)' <=> Said(StopDoneIn)
      /\ Said(StopDoneOut)' <=> Said(StopDoneOut)
      /\ \A a \in {<<"close_done">>, <<"error">>, <<"stop_error", "in">>, <<"stop_error", "out">>} :
           Said(a)' <=> Said(a)
  BY <1>o, <1>h, DriverTakes, AnswerFollowers, AnswersDiffer
<1>p. /\ Streaming("in") /\ Streaming("out") /\ "in" \notin signal /\ "out" \notin signal
      /\ DrcWaits /\ Paused /\ "DRC" \in sub /\ "DRC_LAST" \notin sub
      /\ ~Sent(StartOut) /\ "DRAIN_LAST" \notin sub
      /\ state = "STREAMING" /\ fw.psc # "last" /\ fw.drain # "last"
      /\ Said(DrainLast) => client = "in"
  BY <1>g, <1>s, <1>o, FwTyped, LastComes, StreamingStates, NothingInFlight
     DEF Call, Sequences, DrainComes, DrcComes, Heard, Pauses, DrcWaits, DrainWaits,
         Paused, Sent, SequencesNest
<1>e. /\ state' = state /\ signal' = signal
      /\ sub' = sub \cup {"DRC_LAST", "OUTPUT_PAUSE"}
  BY <1>p, <1>h, <1>g, StreamingStates
     DEF HandleLast, CanSet, SetSub, Refused, LastIsMissing, DrcWaits, DrainWaits,
         Paused, SequencesNest, PscLast
<1>w. /\ Streaming("in")' <=> Streaming("in")
      /\ Streaming("out")' <=> Streaming("out")
      /\ ~DrcWaits'
      /\ DrainWaits' <=> DrainWaits
      /\ Paused'
      /\ ("DRC" \in sub') <=> ("DRC" \in sub)
      /\ ("FIRST_IPSC" \in sub') <=> ("FIRST_IPSC" \in sub)
      /\ ("DRAIN_LAST" \in sub') <=> ("DRAIN_LAST" \in sub)
  BY <1>p, <1>e, StreamingStates DEF DrcWaits, DrainWaits, Paused
<1>1. Call("in", StartIn, StopIn, StopDoneIn)'
  BY <1>g, <1>t, <1>s, <1>p, <1>e, <1>w DEF Call
<1>2. Call("out", StartOut, StopOut, StopDoneOut)'
  BY <1>g, <1>t, <1>s, <1>p, <1>e, <1>w DEF Call
<1>3. Calls'
  BY <1>g, <1>t, <1>s, <1>1, <1>2 DEF Calls
<1>4. Heard'
  BY <1>g, <1>t, <1>s, <1>p, <1>e, <1>w DEF Heard
<1>5. Sequences'
  BY <1>g, <1>t, <1>s, <1>p, <1>e, <1>w DEF Sequences
<1>6. DrainComes'
  BY <1>g, <1>t, <1>s, <1>p, <1>e, <1>w DEF DrainComes
<1>7. DrcComes'
  BY <1>g, <1>t, <1>s, <1>p, <1>e, <1>w, LastComes DEF DrcComes
<1>8. Pauses'
  BY <1>g, <1>t, <1>s, <1>p, <1>e, <1>w DEF Pauses
<1> QED BY <1>t, <1>e, <1>3, <1>4, <1>5, <1>6, <1>7, <1>8 DEF Good

\* The driver reads the last buffer of a drain.
LEMMA GoodDrainLast ==
  ASSUME TypeOK, SequencesNest, Good, state # "ERROR", msgs # << >>, msgs' = Tail(msgs),
         UNCHANGED <<vb2, decode, closing, packet, client, cmds, fw, alive>>,
         HandleLast("drain_last", "DRAIN", "DRAIN_LAST")
  PROVE  Good' /\ state' # "ERROR"
<1>o. InOrder BY DEF Good
<1>g. /\ Calls /\ Heard /\ Sequences /\ DrainComes /\ DrcComes /\ Pauses
      /\ Call("in", StartIn, StopIn, StopDoneIn)
      /\ Call("out", StartOut, StopOut, StopDoneOut)
  BY DEF Good, Calls
<1>t. /\ InOrder' /\ cmds' = cmds /\ fw' = fw /\ client' = client /\ decode' = decode
      /\ \A a : Sent(a)' <=> Sent(a)
  BY DriverTakes
<1>h. Head(msgs) = DrainLast
  BY DEF HandleLast, DrainLast
<1>s. /\ Said(DrainLast)
      /\ ~Said(DrainLast)' /\ ~Said(DrainDone)' /\ ~Said(PscLast)'
      /\ Said(Ipsc)' <=> Said(Ipsc)
      /\ Said(PscLast)' <=> Said(PscLast)
      /\ Said(DrainDone)' <=> Said(DrainDone)
      /\ Said(StopDoneIn)' <=> Said(StopDoneIn)
      /\ Said(StopDoneOut)' <=> Said(StopDoneOut)
      /\ \A a \in {<<"close_done">>, <<"error">>, <<"stop_error", "in">>, <<"stop_error", "out">>} :
           Said(a)' <=> Said(a)
  BY <1>o, <1>h, DriverTakes, AnswerFollowers, AnswersDiffer
<1>p. /\ Streaming("out") /\ "out" \notin signal
      /\ DrainWaits /\ Paused /\ "DRAIN" \in sub /\ "DRAIN_LAST" \notin sub
      /\ ~Sent(StartOut) /\ ~Sent(Drain) /\ fw.drain = "none"
      /\ ~DrcWaits /\ "FIRST_IPSC" \notin sub
  BY <1>g, <1>s, <1>o, FwTyped, LastComes, StreamingStates, NothingInFlight
     DEF Call, Sequences, DrainComes, DrcComes, Heard, Pauses, DrcWaits, DrainWaits,
         Paused, Sent, SequencesNest
<1>e. /\ state' = state /\ signal' = signal
      /\ sub' = sub \cup {"DRAIN_LAST", "OUTPUT_PAUSE"}
  BY <1>p, <1>h, <1>g, StreamingStates
     DEF HandleLast, CanSet, SetSub, Refused, LastIsMissing, DrcWaits, DrainWaits,
         Paused, SequencesNest, DrainLast
<1>w. /\ Streaming("in")' <=> Streaming("in")
      /\ Streaming("out")' <=> Streaming("out")
      /\ DrcWaits' <=> DrcWaits
      /\ ~DrainWaits'
      /\ Paused'
      /\ ("DRC" \in sub') <=> ("DRC" \in sub)
      /\ ("FIRST_IPSC" \in sub') <=> ("FIRST_IPSC" \in sub)
      /\ ("DRC_LAST" \in sub') <=> ("DRC_LAST" \in sub)
  BY <1>p, <1>e, StreamingStates DEF DrcWaits, DrainWaits, Paused
<1>1. Call("in", StartIn, StopIn, StopDoneIn)'
  BY <1>g, <1>t, <1>s, <1>p, <1>e, <1>w DEF Call
<1>2. Call("out", StartOut, StopOut, StopDoneOut)'
  BY <1>g, <1>t, <1>s, <1>p, <1>e, <1>w DEF Call
<1>3. Calls'
  BY <1>g, <1>t, <1>s, <1>1, <1>2 DEF Calls
<1>4. Heard'
  BY <1>g, <1>t, <1>s, <1>p, <1>e, <1>w DEF Heard
<1>5. Sequences'
  BY <1>g, <1>t, <1>s, <1>p, <1>e, <1>w DEF Sequences
<1>6. DrainComes'
  BY <1>g, <1>t, <1>s, <1>p, <1>e, <1>w DEF DrainComes
<1>7. DrcComes'
  BY <1>g, <1>t, <1>s, <1>p, <1>e, <1>w, LastComes DEF DrcComes
<1>8. Pauses'
  BY <1>g, <1>t, <1>s, <1>p, <1>e, <1>w DEF Pauses
<1> QED BY <1>t, <1>e, <1>3, <1>4, <1>5, <1>6, <1>7, <1>8 DEF Good

\* The driver reads the answer to a drain.
LEMMA GoodDrainDone ==
  ASSUME TypeOK, SequencesNest, Good, state # "ERROR", msgs # << >>, msgs' = Tail(msgs),
         UNCHANGED <<vb2, decode, closing, packet, client, cmds, fw, alive>>,
         HandleDrainDone
  PROVE  Good' /\ state' # "ERROR"
<1>o. InOrder BY DEF Good
<1>g. /\ Calls /\ Heard /\ Sequences /\ DrainComes /\ DrcComes /\ Pauses
      /\ Call("in", StartIn, StopIn, StopDoneIn)
      /\ Call("out", StartOut, StopOut, StopDoneOut)
  BY DEF Good, Calls
<1>t. /\ InOrder' /\ cmds' = cmds /\ fw' = fw /\ client' = client /\ decode' = decode
      /\ \A a : Sent(a)' <=> Sent(a)
  BY DriverTakes
<1>h. Head(msgs) = DrainDone
  BY DEF HandleDrainDone, DrainDone
<1>s. /\ Said(DrainDone)
      /\ ~Said(Ipsc)'
      /\ Said(Ipsc)' <=> Said(Ipsc)
      /\ Said(PscLast)' <=> Said(PscLast)
      /\ Said(DrainLast)' <=> Said(DrainLast)
      /\ Said(StopDoneIn)' <=> Said(StopDoneIn)
      /\ Said(StopDoneOut)' <=> Said(StopDoneOut)
      /\ \A a \in {<<"close_done">>, <<"error">>, <<"stop_error", "in">>, <<"stop_error", "out">>} :
           Said(a)' <=> Said(a)
  BY <1>o, <1>h, DriverTakes, AnswerFollowers, AnswersDiffer
<1>p. /\ Streaming("in") /\ "in" \notin signal
      /\ DrainWaits /\ "DRAIN" \in sub
      /\ ~Sent(ResumeIn) /\ ~Sent(StartIn) /\ fw.in # "run"
  BY <1>g, <1>s, <1>o, FwTyped, LastComes, StreamingStates, NothingInFlight
     DEF Call, Sequences, DrainComes, DrcComes, Heard, Pauses, DrcWaits, DrainWaits,
         Paused, Sent, SequencesNest
<1>e. /\ state' = state /\ signal' = signal
      /\ sub' = sub \cup {"INPUT_PAUSE"}
  BY <1>p, <1>h, <1>g, StreamingStates
     DEF HandleDrainDone, CanSet, SetSub, Refused, LastIsMissing, DrcWaits,
         DrainWaits, Paused, SequencesNest
<1>w. /\ Streaming("in")' <=> Streaming("in")
      /\ Streaming("out")' <=> Streaming("out")
      /\ DrcWaits' <=> DrcWaits
      /\ DrainWaits' <=> DrainWaits
      /\ Paused'
      /\ ("DRC" \in sub') <=> ("DRC" \in sub)
      /\ ("FIRST_IPSC" \in sub') <=> ("FIRST_IPSC" \in sub)
      /\ ("DRC_LAST" \in sub') <=> ("DRC_LAST" \in sub)
      /\ ("DRAIN_LAST" \in sub') <=> ("DRAIN_LAST" \in sub)
  BY <1>p, <1>e, StreamingStates DEF DrcWaits, DrainWaits, Paused
<1>1. Call("in", StartIn, StopIn, StopDoneIn)'
  BY <1>g, <1>t, <1>s, <1>p, <1>e, <1>w DEF Call
<1>2. Call("out", StartOut, StopOut, StopDoneOut)'
  BY <1>g, <1>t, <1>s, <1>p, <1>e, <1>w DEF Call
<1>3. Calls'
  BY <1>g, <1>t, <1>s, <1>1, <1>2 DEF Calls
<1>4. Heard'
  BY <1>g, <1>t, <1>s, <1>p, <1>e, <1>w DEF Heard
<1>5. Sequences'
  BY <1>g, <1>t, <1>s, <1>p, <1>e, <1>w DEF Sequences
<1>6. DrainComes'
  BY <1>g, <1>t, <1>s, <1>p, <1>e, <1>w DEF DrainComes
<1>7. DrcComes'
  BY <1>g, <1>t, <1>s, <1>p, <1>e, <1>w, LastComes DEF DrcComes
<1>8. Pauses'
  BY <1>g, <1>t, <1>s, <1>p, <1>e, <1>w DEF Pauses
<1> QED BY <1>t, <1>e, <1>3, <1>4, <1>5, <1>6, <1>7, <1>8 DEF Good

\* The driver reads the answer to the stop of the input.
LEMMA GoodStopDoneIn ==
  ASSUME TypeOK, SequencesNest, Good, state # "ERROR", msgs # << >>, msgs' = Tail(msgs),
         UNCHANGED <<vb2, decode, closing, packet, client, cmds, fw, alive>>,
         HandleStopDone("in")
  PROVE  Good' /\ state' # "ERROR"
<1>o. InOrder BY DEF Good
<1>g. /\ Calls /\ Heard /\ Sequences /\ DrainComes /\ DrcComes /\ Pauses
      /\ Call("in", StartIn, StopIn, StopDoneIn)
      /\ Call("out", StartOut, StopOut, StopDoneOut)
  BY DEF Good, Calls
<1>t. /\ InOrder' /\ cmds' = cmds /\ fw' = fw /\ client' = client /\ decode' = decode
      /\ \A a : Sent(a)' <=> Sent(a)
  BY DriverTakes
<1>h. Head(msgs) = StopDoneIn
  BY <1>g, DriverTakes DEF HandleStopDone, StopDoneIn, Calls
<1>s. /\ Said(StopDoneIn)
      /\ ~Said(StopDoneIn)' /\ ~Said(Ipsc)' /\ ~Said(DrainDone)' /\ ~Said(PscLast)'
      /\ decode => ~Said(DrainLast)'
      /\ Said(Ipsc)' <=> Said(Ipsc)
      /\ Said(PscLast)' <=> Said(PscLast)
      /\ Said(DrainDone)' <=> Said(DrainDone)
      /\ Said(DrainLast)' <=> Said(DrainLast)
      /\ Said(StopDoneOut)' <=> Said(StopDoneOut)
      /\ \A a \in {<<"close_done">>, <<"error">>, <<"stop_error", "in">>, <<"stop_error", "out">>} :
           Said(a)' <=> Said(a)
  BY <1>o, <1>h, DriverTakes, AnswerFollowers, AnswersDiffer
<1>p. /\ client = "in" /\ Streaming("in") /\ "in" \notin signal
      /\ cmds = << >> /\ fw.in = "stop" /\ fw.psc = "none" /\ ~DrcWaits
      /\ decode => ~DrainWaits
  BY <1>g, <1>s, <1>o, FwTyped, LastComes, StreamingStates, NothingInFlight
     DEF Call, Sequences, DrainComes, DrcComes, Heard, Pauses, DrcWaits, DrainWaits,
         Paused, Sent, SequencesNest
<1>e. /\ state' = state /\ signal' = signal \cup {"in"}
      /\ sub' = sub \cup {"INPUT_PAUSE"}
  BY <1>p, <1>h, <1>g, StreamingStates, AnswersDiffer
     DEF HandleStopDone, CanSet, SetSub, Refused, LastIsMissing, DrcWaits, DrainWaits,
         Paused, SequencesNest
<1>w. /\ Streaming("in")' <=> Streaming("in")
      /\ Streaming("out")' <=> Streaming("out")
      /\ DrcWaits' <=> DrcWaits
      /\ DrainWaits' <=> DrainWaits
      /\ Paused'
      /\ ("DRC" \in sub') <=> ("DRC" \in sub)
      /\ ("FIRST_IPSC" \in sub') <=> ("FIRST_IPSC" \in sub)
      /\ ("DRC_LAST" \in sub') <=> ("DRC_LAST" \in sub)
      /\ ("DRAIN_LAST" \in sub') <=> ("DRAIN_LAST" \in sub)
  BY <1>p, <1>e, StreamingStates DEF DrcWaits, DrainWaits, Paused
<1>1. Call("in", StartIn, StopIn, StopDoneIn)'
  BY <1>g, <1>t, <1>s, <1>p, <1>e, <1>w DEF Call
<1>2. Call("out", StartOut, StopOut, StopDoneOut)'
  BY <1>g, <1>t, <1>s, <1>p, <1>e, <1>w DEF Call
<1>3. Calls'
  BY <1>g, <1>t, <1>s, <1>1, <1>2 DEF Calls
<1>4. Heard'
  BY <1>g, <1>t, <1>s, <1>p, <1>e, <1>w DEF Heard
<1>5. Sequences'
  BY <1>g, <1>t, <1>s, <1>p, <1>e, <1>w DEF Sequences
<1>6. DrainComes'
  BY <1>g, <1>t, <1>s, <1>p, <1>e, <1>w DEF DrainComes
<1>7. DrcComes'
  BY <1>g, <1>t, <1>s, <1>p, <1>e, <1>w, LastComes DEF DrcComes
<1>8. Pauses'
  BY <1>g, <1>t, <1>s, <1>p, <1>e, <1>w DEF Pauses
<1> QED BY <1>t, <1>e, <1>3, <1>4, <1>5, <1>6, <1>7, <1>8 DEF Good

\* The driver reads the answer to the stop of the output.
LEMMA GoodStopDoneOut ==
  ASSUME TypeOK, SequencesNest, Good, state # "ERROR", msgs # << >>, msgs' = Tail(msgs),
         UNCHANGED <<vb2, decode, closing, packet, client, cmds, fw, alive>>,
         HandleStopDone("out")
  PROVE  Good' /\ state' # "ERROR"
<1>o. InOrder BY DEF Good
<1>g. /\ Calls /\ Heard /\ Sequences /\ DrainComes /\ DrcComes /\ Pauses
      /\ Call("in", StartIn, StopIn, StopDoneIn)
      /\ Call("out", StartOut, StopOut, StopDoneOut)
  BY DEF Good, Calls
<1>t. /\ InOrder' /\ cmds' = cmds /\ fw' = fw /\ client' = client /\ decode' = decode
      /\ \A a : Sent(a)' <=> Sent(a)
  BY DriverTakes
<1>h. Head(msgs) = StopDoneOut
  BY <1>g, DriverTakes DEF HandleStopDone, StopDoneOut, Calls
<1>s. /\ Said(StopDoneOut)
      /\ ~Said(StopDoneOut)' /\ ~Said(PscLast)' /\ ~Said(DrainLast)'
      /\ Said(Ipsc)' <=> Said(Ipsc)
      /\ Said(PscLast)' <=> Said(PscLast)
      /\ Said(DrainDone)' <=> Said(DrainDone)
      /\ Said(DrainLast)' <=> Said(DrainLast)
      /\ Said(StopDoneIn)' <=> Said(StopDoneIn)
      /\ \A a \in {<<"close_done">>, <<"error">>, <<"stop_error", "in">>, <<"stop_error", "out">>} :
           Said(a)' <=> Said(a)
  BY <1>o, <1>h, DriverTakes, AnswerFollowers, AnswersDiffer
<1>p. /\ client = "out" /\ Streaming("out") /\ "out" \notin signal
      /\ cmds = << >> /\ fw.out = "stop"
  BY <1>g, <1>s, <1>o, FwTyped, LastComes, StreamingStates, NothingInFlight
     DEF Call, Sequences, DrainComes, DrcComes, Heard, Pauses, DrcWaits, DrainWaits,
         Paused, Sent, SequencesNest
<1>e. /\ state' = state /\ signal' = signal \cup {"out"}
      /\ sub' = sub \cup {"OUTPUT_PAUSE"}
  BY <1>p, <1>h, <1>g, StreamingStates, AnswersDiffer
     DEF HandleStopDone, CanSet, SetSub, Refused, LastIsMissing, DrcWaits, DrainWaits,
         Paused, SequencesNest
<1>w. /\ Streaming("in")' <=> Streaming("in")
      /\ Streaming("out")' <=> Streaming("out")
      /\ DrcWaits' <=> DrcWaits
      /\ DrainWaits' <=> DrainWaits
      /\ Paused' <=> Paused
      /\ ("DRC" \in sub') <=> ("DRC" \in sub)
      /\ ("FIRST_IPSC" \in sub') <=> ("FIRST_IPSC" \in sub)
      /\ ("DRC_LAST" \in sub') <=> ("DRC_LAST" \in sub)
      /\ ("DRAIN_LAST" \in sub') <=> ("DRAIN_LAST" \in sub)
  BY <1>p, <1>e, StreamingStates DEF DrcWaits, DrainWaits, Paused
<1>1. Call("in", StartIn, StopIn, StopDoneIn)'
  BY <1>g, <1>t, <1>s, <1>p, <1>e, <1>w DEF Call
<1>2. Call("out", StartOut, StopOut, StopDoneOut)'
  BY <1>g, <1>t, <1>s, <1>p, <1>e, <1>w DEF Call
<1>3. Calls'
  BY <1>g, <1>t, <1>s, <1>1, <1>2 DEF Calls
<1>4. Heard'
  BY <1>g, <1>t, <1>s, <1>p, <1>e, <1>w DEF Heard
<1>5. Sequences'
  BY <1>g, <1>t, <1>s, <1>p, <1>e, <1>w DEF Sequences
<1>6. DrainComes'
  BY <1>g, <1>t, <1>s, <1>p, <1>e, <1>w DEF DrainComes
<1>7. DrcComes'
  BY <1>g, <1>t, <1>s, <1>p, <1>e, <1>w, LastComes DEF DrcComes
<1>8. Pauses'
  BY <1>g, <1>t, <1>s, <1>p, <1>e, <1>w DEF Pauses
<1> QED BY <1>t, <1>e, <1>3, <1>4, <1>5, <1>6, <1>7, <1>8 DEF Good

\* What the ports of vb2 and of the firmware say between two calls.
LEMMA PortsSay ==
  ASSUME TypeOK, Ports, Well, client \in Port \cup {"idle"}
  PROVE  /\ Streaming("in") <=> "in" \in vb2
         /\ Streaming("out") <=> "out" \in vb2
         /\ Streaming("in") /\ client # "in" /\ fw.in = "stop" => Sent(StartIn)
         /\ Streaming("out") /\ client # "out" /\ fw.out = "stop" => Sent(StartOut)
<1>p. "in" \in Port /\ "out" \in Port BY DEF Port
<1>1. ASSUME NEW p \in Port
      PROVE  /\ Streaming(p) <=> p \in vb2
             /\ Streaming(p) /\ client # p /\ fw[p] = "stop" => Sent(<<"start", p>>)
  <2>1. Started(cmds, p) => Sent(<<"start", p>>)
    BY DEF Started, Sent, InFlight
  <2> QED BY <2>1 DEF Ports, WillRun
<1> QED BY <1>1, <1>p DEF StartIn, StartOut

\* What is known when the driver has sent something.
LEMMA DriverSends ==
  ASSUME TypeOK, NEW s \in Seq(Cmds), Send(s), NEW R, Ordered(cmds, R), Ordered(s, R),
         \A a, b : Sent(a) /\ InFlight(b, s) => <<a, b>> \notin R
  PROVE  Ordered(cmds', R)
<1>1. cmds \in Seq(Cmds) /\ cmds' = cmds \o s BY DEF TypeOK, Send
<1>2. \A a, b : InFlight(a, cmds) /\ InFlight(b, s) => <<a, b>> \notin R
  BY DEF Sent
<1> QED BY <1>1, <1>2, OrderedBoth

LEMMA SentMore ==
  ASSUME TypeOK, NEW s \in Seq(Cmds), Send(s), NEW m
  PROVE  Sent(m)' <=> Sent(m) \/ InFlight(m, s)
<1>1. cmds \in Seq(Cmds) BY DEF TypeOK
<1> QED BY <1>1, SendKeeps DEF Sent

\* One command, if it is due.
LEMMA OneIf ==
  ASSUME NEW c, NEW m \in Cmds, NEW R
  PROVE  /\ If(c, <<m>>) \in Seq(Cmds)
         /\ Ordered(If(c, <<m>>), R)
         /\ \A a : InFlight(a, If(c, <<m>>)) <=> c /\ a = m
<1>1. \A a : InFlight(a, <<m>>) <=> a = m
  BY InFlightOne
<1>2. /\ Ordered(<<m>>, R) /\ Ordered(<< >>, R)
      /\ <<m>> \in Seq(Cmds) /\ << >> \in Seq(Cmds)
  BY OrderedOne
<1> QED BY <1>1, <1>2, NothingInFlight DEF If

\* Two series of commands in a row.
LEMMA ThenSent ==
  ASSUME NEW s \in Seq(Cmds), NEW t \in Seq(Cmds), NEW R, Ordered(s, R), Ordered(t, R),
         \A a, b : InFlight(a, s) /\ InFlight(b, t) => <<a, b>> \notin R
  PROVE  /\ s \o t \in Seq(Cmds) /\ Ordered(s \o t, R)
         /\ \A a : InFlight(a, s \o t) <=> InFlight(a, s) \/ InFlight(a, t)
BY OrderedBoth, InFlightBoth

LEMMA SamePorts ==
  /\ UNCHANGED state => /\ Streaming("in")' <=> Streaming("in")
                        /\ Streaming("out")' <=> Streaming("out")
  /\ UNCHANGED sub => /\ DrcWaits' <=> DrcWaits
                      /\ DrainWaits' <=> DrainWaits
                      /\ Paused' <=> Paused
  /\ UNCHANGED msgs => \A m : Said(m)' <=> Said(m)
  /\ UNCHANGED cmds => \A m : Sent(m)' <=> Sent(m)
BY DEF Streaming, DrcWaits, DrainWaits, Paused, Said, Sent

\* A client that is idle has nothing stopped, and nothing of it is being stopped.
LEMMA IdleIs ==
  ASSUME Good, client = "idle"
  PROVE  /\ Calls /\ Heard /\ Sequences /\ DrainComes /\ DrcComes /\ Pauses /\ InOrder
         /\ Call("in", StartIn, StopIn, StopDoneIn)
         /\ Call("out", StartOut, StopOut, StopDoneOut)
         /\ "in" \notin signal /\ "out" \notin signal
         /\ ~Sent(StopIn) /\ ~Sent(StopOut) /\ ~Said(StopDoneIn) /\ ~Said(StopDoneOut)
BY DEF Good, Calls, Call

\* The order of the messages depends on nothing the driver does when it sends.
LEMMA MsgsInOrder ==
  ASSUME InOrder, UNCHANGED <<msgs, decode>>
  PROVE  Ordered(msgs', MsgBars')
BY DEF InOrder, MsgBars

\* A buffer is queued on the input.
LEMMA GoodQueueInput ==
  ASSUME TypeOK, SequencesNest, Ports, Good, state # "ERROR", client \in Port \cup {"idle"},
         QueueInput
  PROVE  Good' /\ state' # "ERROR"
<1>i. client = "idle" /\ Well
  BY DEF QueueInput, MayCall, Ports, Well, Port
<1>g. /\ Calls /\ Heard /\ Sequences /\ DrainComes /\ DrcComes /\ Pauses /\ InOrder
      /\ Call("in", StartIn, StopIn, StopDoneIn)
      /\ Call("out", StartOut, StopOut, StopDoneOut)
      /\ "in" \notin signal /\ "out" \notin signal
      /\ ~Sent(StopIn) /\ ~Sent(StopOut) /\ ~Said(StopDoneIn) /\ ~Said(StopDoneOut)
  BY <1>i, IdleIs
<1>p. /\ Streaming("in") /\ (fw.in # "stop" \/ Sent(StartIn))
  BY <1>i, <1>g, PortsSay, StreamingStates, FwTyped, LastComes
     DEF QueueInput, DrcPending, DrainPending, Call, Sequences, DrainComes, DrcComes,
         Heard, Pauses, DrcWaits, DrainWaits, Paused, SequencesNest
<1> DEFINE s == << Etb >>
<1>q. /\ s \in Seq(Cmds) /\ Send(s) /\ Ordered(s, CmdBars) /\ Ordered(s, LateResume)
      /\ \A a : InFlight(a, s) <=> a = Etb
  BY NamesAre, OrderedOne, InFlightOne DEF QueueInput, Etb
<1> HIDE DEF s
<1>s. /\ Sent(StartIn)' <=> Sent(StartIn)
      /\ Sent(StartOut)' <=> Sent(StartOut)
      /\ Sent(StopIn)' <=> Sent(StopIn)
      /\ Sent(StopOut)' <=> Sent(StopOut)
      /\ Sent(PauseIn)' <=> Sent(PauseIn)
      /\ Sent(ResumeIn)' <=> Sent(ResumeIn)
      /\ Sent(ResumeOut)' <=> Sent(ResumeOut)
      /\ Sent(Drain)' <=> Sent(Drain)
      /\ Sent(Etb)'
      /\ Sent(<<"close">>)' <=> Sent(<<"close">>)
  BY <1>q, SentMore, CommandsDiffer
<1>b. InOrder' /\ (Ordered(cmds, LateResume) => Ordered(cmds', LateResume))
  <2>1. \A a, b : Sent(a) /\ InFlight(b, s) => <<a, b>> \notin CmdBars
    BY <1>g, <1>p, <1>q, CommandsDiffer DEF CmdBars
  <2>2. Ordered(cmds', CmdBars)
    BY <1>q, <1>g, <2>1, DriverSends DEF InOrder
  <2>3. Ordered(msgs', MsgBars')
    BY <1>g, MsgsInOrder DEF QueueInput, session
  <2>4. \A a, b : Sent(a) /\ InFlight(b, s) => <<a, b>> \notin LateResume
    BY <1>q, CommandsDiffer DEF LateResume
  <2>5. Ordered(cmds, LateResume) => Ordered(cmds', LateResume)
    BY <1>q, <2>4, DriverSends
  <2> QED BY <2>2, <2>3, <2>5 DEF InOrder
<1>e. /\ state' = state
      /\ Streaming("in")' <=> Streaming("in")
      /\ Streaming("out")' <=> Streaming("out")
      /\ DrcWaits' <=> DrcWaits
      /\ DrainWaits' <=> DrainWaits
      /\ Paused' <=> Paused
      /\ sub' = sub
      /\ client' = client /\ signal' = signal /\ fw' = fw /\ decode' = decode
      /\ \A m : Said(m)' <=> Said(m)
  BY <1>p, <1>i, <1>g, StreamingStates, SamePorts
     DEF QueueInput, session, SetSub, OutputClears, DrcPending, DrainPending,
         DrcWaits, DrainWaits, Paused, SequencesNest
<1>1. Call("in", StartIn, StopIn, StopDoneIn)'
  BY <1>g, <1>i, <1>p, <1>s, <1>e DEF Call
<1>2. Call("out", StartOut, StopOut, StopDoneOut)'
  BY <1>g, <1>i, <1>p, <1>s, <1>e DEF Call
<1>3. Calls'
  BY <1>g, <1>s, <1>e, <1>1, <1>2 DEF Calls
<1>4. Heard'
  BY <1>g, <1>i, <1>p, <1>s, <1>e DEF Heard
<1>5. Sequences'
  BY <1>g, <1>i, <1>p, <1>s, <1>e DEF Sequences
<1>6. DrainComes'
  BY <1>g, <1>i, <1>p, <1>s, <1>e DEF DrainComes
<1>7. DrcComes'
  BY <1>g, <1>i, <1>p, <1>s, <1>e, LastComes DEF DrcComes
<1>8. Pauses'
  BY <1>g, <1>i, <1>p, <1>s, <1>e, <1>b DEF Pauses
<1> QED BY <1>b, <1>e, <1>3, <1>4, <1>5, <1>6, <1>7, <1>8 DEF Good

\* The client asks for a drain.
LEMMA GoodStopCmd ==
  ASSUME TypeOK, SequencesNest, Ports, Good, state # "ERROR", client \in Port \cup {"idle"},
         StopCmd
  PROVE  Good' /\ state' # "ERROR"
<1>i. client = "idle" /\ Well
  BY DEF StopCmd, MayCall, Ports, Well, Port
<1>g. /\ Calls /\ Heard /\ Sequences /\ DrainComes /\ DrcComes /\ Pauses /\ InOrder
      /\ Call("in", StartIn, StopIn, StopDoneIn)
      /\ Call("out", StartOut, StopOut, StopDoneOut)
      /\ "in" \notin signal /\ "out" \notin signal
      /\ ~Sent(StopIn) /\ ~Sent(StopOut) /\ ~Said(StopDoneIn) /\ ~Said(StopDoneOut)
  BY <1>i, IdleIs
<1>p. /\ Streaming("in") /\ (fw.in # "stop" \/ Sent(StartIn))
      /\ "DRAIN" \notin sub /\ "DRAIN_LAST" \notin sub /\ ~DrainWaits
      /\ ~Sent(Drain) /\ fw.drain = "none" /\ ~Said(DrainLast) /\ ~Said(DrainDone)
  BY <1>i, <1>g, PortsSay, StreamingStates, FwTyped, LastComes
     DEF StopCmd, DrcPending, DrainPending, Call, Sequences, DrainComes, DrcComes,
         Heard, Pauses, DrcWaits, DrainWaits, Paused, SequencesNest
<1> DEFINE s == << Drain >>
<1>q. /\ s \in Seq(Cmds) /\ Send(s) /\ Ordered(s, CmdBars) /\ Ordered(s, LateResume)
      /\ \A a : InFlight(a, s) <=> a = Drain
  BY NamesAre, OrderedOne, InFlightOne DEF StopCmd, Drain
<1> HIDE DEF s
<1>s. /\ Sent(StartIn)' <=> Sent(StartIn)
      /\ Sent(StartOut)' <=> Sent(StartOut)
      /\ Sent(StopIn)' <=> Sent(StopIn)
      /\ Sent(StopOut)' <=> Sent(StopOut)
      /\ Sent(PauseIn)' <=> Sent(PauseIn)
      /\ Sent(ResumeIn)' <=> Sent(ResumeIn)
      /\ Sent(ResumeOut)' <=> Sent(ResumeOut)
      /\ Sent(Drain)'
      /\ Sent(Etb)' <=> Sent(Etb)
      /\ Sent(<<"close">>)' <=> Sent(<<"close">>)
  BY <1>q, SentMore, CommandsDiffer
<1>b. InOrder' /\ (Ordered(cmds, LateResume) => Ordered(cmds', LateResume))
  <2>1. \A a, b : Sent(a) /\ InFlight(b, s) => <<a, b>> \notin CmdBars
    BY <1>g, <1>p, <1>q, CommandsDiffer DEF CmdBars
  <2>2. Ordered(cmds', CmdBars)
    BY <1>q, <1>g, <2>1, DriverSends DEF InOrder
  <2>3. Ordered(msgs', MsgBars')
    BY <1>g, MsgsInOrder DEF StopCmd, session
  <2>4. \A a, b : Sent(a) /\ InFlight(b, s) => <<a, b>> \notin LateResume
    BY <1>q, CommandsDiffer DEF LateResume
  <2>5. Ordered(cmds, LateResume) => Ordered(cmds', LateResume)
    BY <1>q, <2>4, DriverSends
  <2> QED BY <2>2, <2>3, <2>5 DEF InOrder
<1>e. /\ state' = state
      /\ Streaming("in")' <=> Streaming("in")
      /\ Streaming("out")' <=> Streaming("out")
      /\ DrcWaits' <=> DrcWaits
      /\ DrainWaits'
      /\ Paused' <=> Paused
      /\ ("DRC" \in sub') <=> ("DRC" \in sub)
      /\ ("DRC_LAST" \in sub') <=> ("DRC_LAST" \in sub)
      /\ ("DRAIN_LAST" \in sub') <=> ("DRAIN_LAST" \in sub)
      /\ ("FIRST_IPSC" \in sub') <=> ("FIRST_IPSC" \in sub)
      /\ client' = client /\ signal' = signal /\ fw' = fw /\ decode' = decode
      /\ \A m : Said(m)' <=> Said(m)
  BY <1>p, <1>i, <1>g, StreamingStates, SamePorts
     DEF StopCmd, session, SetSub, OutputClears, DrcPending, DrainPending, DrcWaits,
         DrainWaits, Paused, SequencesNest
<1>1. Call("in", StartIn, StopIn, StopDoneIn)'
  BY <1>g, <1>i, <1>p, <1>s, <1>e DEF Call
<1>2. Call("out", StartOut, StopOut, StopDoneOut)'
  BY <1>g, <1>i, <1>p, <1>s, <1>e DEF Call
<1>3. Calls'
  BY <1>g, <1>s, <1>e, <1>1, <1>2 DEF Calls
<1>4. Heard'
  BY <1>g, <1>i, <1>p, <1>s, <1>e DEF Heard
<1>5. Sequences'
  BY <1>g, <1>i, <1>p, <1>s, <1>e DEF Sequences
<1>6. DrainComes'
  BY <1>g, <1>i, <1>p, <1>s, <1>e DEF DrainComes
<1>7. DrcComes'
  BY <1>g, <1>i, <1>p, <1>s, <1>e, LastComes DEF DrcComes
<1>8. Pauses'
  BY <1>g, <1>i, <1>p, <1>s, <1>e, <1>b DEF Pauses
<1> QED BY <1>b, <1>e, <1>3, <1>4, <1>5, <1>6, <1>7, <1>8 DEF Good

\* The client starts the input.
LEMMA GoodStreamOnInput ==
  ASSUME TypeOK, SequencesNest, Ports, Good, state # "ERROR", client \in Port \cup {"idle"},
         NEW deferred \in BOOLEAN, StreamOnInput(deferred)
  PROVE  Good' /\ state' # "ERROR"
<1>i. client = "idle" /\ Well
  BY DEF StreamOnInput, MayCall, Ports, Well, Port
<1>g. /\ Calls /\ Heard /\ Sequences /\ DrainComes /\ DrcComes /\ Pauses /\ InOrder
      /\ Call("in", StartIn, StopIn, StopDoneIn)
      /\ Call("out", StartOut, StopOut, StopDoneOut)
      /\ "in" \notin signal /\ "out" \notin signal
      /\ ~Sent(StopIn) /\ ~Sent(StopOut) /\ ~Said(StopDoneIn) /\ ~Said(StopDoneOut)
  BY <1>i, IdleIs
<1>p. /\ ~Streaming("in") /\ fw.in = "stop" /\ ~Sent(StartIn) /\ ~Sent(Etb) /\ ~Sent(Drain)
      /\ ~Sent(PauseIn) /\ ~Said(Ipsc) /\ ~Said(PscLast) /\ ~Said(DrainDone)
      /\ decode => ~Said(DrainLast)
      /\ fw.psc = "none" /\ fw.drain # "asked"
      /\ "DRAIN" \in sub => Paused
      /\ DrainWaits => "DRAIN" \in sub
      /\ "DRC" \in sub => Paused
      /\ "FIRST_IPSC" \in sub => Paused
      /\ "DRAIN_LAST" \in sub => "DRAIN" \in sub
      /\ MustPause <=> "DRC" \in sub \/ "DRAIN" \in sub \/ "FIRST_IPSC" \in sub
      /\ Sent(ResumeIn) => ~Paused
  BY <1>i, <1>g, PortsSay, StreamingStates, FwTyped, LastComes
     DEF StreamOnInput, MustPause, Call, Sequences, DrainComes, DrcComes,
         Heard, Pauses, DrcWaits, DrainWaits, Paused, SequencesNest
<1> DEFINE s1 == << StartIn >>
           s2 == If(MustPause, << PauseIn >>)
           s3 == If(deferred, << Etb >>)
           s == s1 \o s2 \o s3
<1>q. /\ s \in Seq(Cmds) /\ Send(s) /\ Ordered(s, CmdBars) /\ Ordered(s, LateResume)
      /\ \A a : InFlight(a, s) <=> \/ a = StartIn
                                   \/ MustPause /\ a = PauseIn
                                   \/ deferred /\ a = Etb
  <2>1. Send(s) BY DEF StreamOnInput, StartIn, PauseIn, Etb
  <2>2. /\ s1 \in Seq(Cmds) /\ Ordered(s1, CmdBars) /\ Ordered(s1, LateResume)
        /\ \A a : InFlight(a, s1) <=> a = StartIn
    BY NamesAre, OrderedOne, InFlightOne
  <2>3. /\ s2 \in Seq(Cmds) /\ Ordered(s2, CmdBars) /\ Ordered(s2, LateResume)
        /\ \A a : InFlight(a, s2) <=> MustPause /\ a = PauseIn
    BY NamesAre, OneIf
  <2>4. /\ s3 \in Seq(Cmds) /\ Ordered(s3, CmdBars) /\ Ordered(s3, LateResume)
        /\ \A a : InFlight(a, s3) <=> deferred /\ a = Etb
    BY NamesAre, OneIf
  <2> DEFINE r == s1 \o s2
  <2> HIDE DEF s1, s2, s3
  <2>5. \A a, b : InFlight(a, s1) /\ InFlight(b, s2) =>
          <<a, b>> \notin CmdBars /\ <<a, b>> \notin LateResume
    BY <2>2, <2>3, CommandsDiffer DEF CmdBars, LateResume
  <2>6. /\ r \in Seq(Cmds) /\ Ordered(r, CmdBars) /\ Ordered(r, LateResume)
        /\ \A a : InFlight(a, r) <=> InFlight(a, s1) \/ InFlight(a, s2)
    BY <2>2, <2>3, <2>5, ThenSent
  <2>7. s = r \o s3 OBVIOUS
  <2> HIDE DEF r, s
  <2>8. \A a, b : InFlight(a, r) /\ InFlight(b, s3) =>
          <<a, b>> \notin CmdBars /\ <<a, b>> \notin LateResume
    BY <2>2, <2>3, <2>4, <2>6, CommandsDiffer DEF CmdBars, LateResume
  <2>9. /\ s \in Seq(Cmds) /\ Ordered(s, CmdBars) /\ Ordered(s, LateResume)
        /\ \A a : InFlight(a, s) <=> InFlight(a, r) \/ InFlight(a, s3)
    BY <2>4, <2>6, <2>7, <2>8, ThenSent
  <2>10. ASSUME NEW a
         PROVE  InFlight(a, s) <=> a = StartIn \/ (MustPause /\ a = PauseIn) \/ (deferred /\ a = Etb)
    <3>1. InFlight(a, s) <=> InFlight(a, r) \/ InFlight(a, s3) BY <2>9
    <3>2. InFlight(a, r) <=> InFlight(a, s1) \/ InFlight(a, s2) BY <2>6
    <3>3. InFlight(a, s1) <=> a = StartIn BY <2>2
    <3>4. InFlight(a, s2) <=> MustPause /\ a = PauseIn BY <2>3
    <3>5. InFlight(a, s3) <=> deferred /\ a = Etb BY <2>4
    <3> QED BY <3>1, <3>2, <3>3, <3>4, <3>5
  <2> QED BY <2>1, <2>9, <2>10
<1> HIDE DEF s
<1>s. /\ Sent(StartIn)'
      /\ Sent(StartOut)' <=> Sent(StartOut)
      /\ Sent(StopIn)' <=> Sent(StopIn)
      /\ Sent(StopOut)' <=> Sent(StopOut)
      /\ Sent(PauseIn)' <=> Sent(PauseIn) \/ MustPause
      /\ Sent(ResumeIn)' <=> Sent(ResumeIn)
      /\ Sent(ResumeOut)' <=> Sent(ResumeOut)
      /\ Sent(Drain)' <=> Sent(Drain)
      /\ Sent(Etb)' <=> Sent(Etb) \/ deferred
      /\ Sent(<<"close">>)' <=> Sent(<<"close">>)
  BY <1>q, SentMore, CommandsDiffer
<1>b. InOrder' /\ (Ordered(cmds, LateResume) => Ordered(cmds', LateResume))
  <2>1. \A a, b : Sent(a) /\ InFlight(b, s) => <<a, b>> \notin CmdBars
    BY <1>g, <1>p, <1>q, CommandsDiffer DEF CmdBars
  <2>2. Ordered(cmds', CmdBars)
    BY <1>q, <1>g, <2>1, DriverSends DEF InOrder
  <2>3. Ordered(msgs', MsgBars')
    BY <1>g, MsgsInOrder DEF StreamOnInput, session
  <2>4. \A a, b : Sent(a) /\ InFlight(b, s) => <<a, b>> \notin LateResume
    BY <1>q, CommandsDiffer DEF LateResume
  <2>5. Ordered(cmds, LateResume) => Ordered(cmds', LateResume)
    BY <1>q, <2>4, DriverSends
  <2> QED BY <2>2, <2>3, <2>5 DEF InOrder
<1>e. /\ Streaming("in")'
      /\ Streaming("out")' <=> Streaming("out")
      /\ state' # "ERROR"
      /\ DrcWaits' <=> DrcWaits
      /\ DrainWaits' <=> DrainWaits
      /\ Paused' <=> MustPause
      /\ ("DRC" \in sub') <=> ("DRC" \in sub)
      /\ ("DRAIN" \in sub') <=> ("DRAIN" \in sub)
      /\ ("DRC_LAST" \in sub') <=> ("DRC_LAST" \in sub)
      /\ ("DRAIN_LAST" \in sub') <=> ("DRAIN_LAST" \in sub)
      /\ ("FIRST_IPSC" \in sub') <=> ("FIRST_IPSC" \in sub)
      /\ client' = client /\ signal' = signal /\ fw' = fw /\ decode' = decode
      /\ \A m : Said(m)' <=> Said(m)
  <2>1. /\ state' \in States \ {"ERROR", "CLOSE"}
        /\ \A q \in Port : Streaming(q)' <=> q = "in" \/ Streaming(q)
    BY <1>i, <1>p, PlusMinusStreaming
       DEF StreamOnInput, Streaming, Streams, TypeOK, Port
  <2>2. /\ DrcWaits' <=> DrcWaits
        /\ DrainWaits' <=> DrainWaits
        /\ Paused' <=> MustPause
        /\ \A f \in {"DRC", "DRAIN", "DRC_LAST", "DRAIN_LAST", "FIRST_IPSC"} : f \in sub' <=> f \in sub
    BY DEF StreamOnInput, DrcWaits, DrainWaits, Paused
  <2>3. UNCHANGED <<client, signal, fw, decode, msgs>>
    BY DEF StreamOnInput
  <2> QED BY <2>1, <2>2, <2>3, SamePorts DEF Port
<1>1. Call("in", StartIn, StopIn, StopDoneIn)'
  BY <1>g, <1>i, <1>p, <1>s, <1>e DEF Call
<1>2. Call("out", StartOut, StopOut, StopDoneOut)'
  BY <1>g, <1>i, <1>p, <1>s, <1>e DEF Call
<1>3. Calls'
  BY <1>g, <1>s, <1>e, <1>1, <1>2 DEF Calls
<1>4. Heard'
  BY <1>g, <1>i, <1>p, <1>s, <1>e DEF Heard
<1>5. Sequences'
  BY <1>g, <1>i, <1>p, <1>s, <1>e DEF Sequences
<1>6. DrainComes'
  BY <1>g, <1>i, <1>p, <1>s, <1>e DEF DrainComes
<1>7. DrcComes'
  BY <1>g, <1>i, <1>p, <1>s, <1>e, LastComes DEF DrcComes
<1>8. Pauses'
  BY <1>g, <1>i, <1>p, <1>s, <1>e, <1>b DEF Pauses
<1> QED BY <1>b, <1>e, <1>3, <1>4, <1>5, <1>6, <1>7, <1>8 DEF Good

\* The client starts the output.
LEMMA GoodStreamOnOutput ==
  ASSUME TypeOK, SequencesNest, Ports, Good, state # "ERROR", client \in Port \cup {"idle"},
         StreamOnOutput, blame' = {}
  PROVE  Good' /\ state' # "ERROR"
<1>i. client = "idle" /\ Well
  BY DEF StreamOnOutput, MayCall, Ports, Well, Port
<1>g. /\ Calls /\ Heard /\ Sequences /\ DrainComes /\ DrcComes /\ Pauses /\ InOrder
      /\ Call("in", StartIn, StopIn, StopDoneIn)
      /\ Call("out", StartOut, StopOut, StopDoneOut)
      /\ "in" \notin signal /\ "out" \notin signal
      /\ ~Sent(StopIn) /\ ~Sent(StopOut) /\ ~Said(StopDoneIn) /\ ~Said(StopDoneOut)
  BY <1>i, IdleIs
<1>p. /\ ~Streaming("out") /\ fw.out = "stop" /\ ~Sent(StartOut) /\ ~Said(PscLast) /\ ~Said(DrainLast)
      /\ fw.psc # "last" /\ fw.drain # "last" /\ ~DrcWaits
      /\ ~(DrcPending /\ DrainPending)
      /\ Streaming("in") => state = "INPUT_STREAMING"
      /\ ResumeInput <=> Paused /\ state = "INPUT_STREAMING"
      /\ ResumeInput => ~Sent(ResumeIn) /\ ~Said(Ipsc) /\ ~Said(DrainDone)
      /\ Sent(StartIn) /\ Paused => Sent(PauseIn)
      /\ Sent(StartIn) => Streaming("in")
      /\ fw.psc = "seen" /\ ~ResumeInput => Said(Ipsc) \/ Sent(ResumeIn)
  BY <1>i, <1>g, PortsSay, StreamingStates, FwTyped, LastComes
     DEF StreamOnOutput, ResumeInput, DrcPending, DrainPending, Call, Sequences,
         DrainComes, DrcComes,
         Heard, Pauses, DrcWaits, DrainWaits, Paused, SequencesNest
<1> DEFINE s1 == If(ResumeInput, << ResumeIn >>)
           s2 == << StartOut >>
           s == s1 \o s2
<1>q. /\ s \in Seq(Cmds) /\ Send(s) /\ Ordered(s, CmdBars) /\ Ordered(s, LateResume)
      /\ \A a : InFlight(a, s) <=> \/ ResumeInput /\ a = ResumeIn
                                   \/ a = StartOut
  <2>1. Send(s) BY DEF StreamOnOutput, StartOut, ResumeIn
  <2>2. /\ s1 \in Seq(Cmds) /\ Ordered(s1, CmdBars) /\ Ordered(s1, LateResume)
        /\ \A a : InFlight(a, s1) <=> ResumeInput /\ a = ResumeIn
    BY NamesAre, OneIf
  <2>3. /\ s2 \in Seq(Cmds) /\ Ordered(s2, CmdBars) /\ Ordered(s2, LateResume)
        /\ \A a : InFlight(a, s2) <=> a = StartOut
    BY NamesAre, OrderedOne, InFlightOne
  <2> HIDE DEF s1, s2
  <2>4. \A a, b : InFlight(a, s1) /\ InFlight(b, s2) =>
          <<a, b>> \notin CmdBars /\ <<a, b>> \notin LateResume
    BY <2>2, <2>3, CommandsDiffer DEF CmdBars, LateResume
  <2>5. /\ s \in Seq(Cmds) /\ Ordered(s, CmdBars) /\ Ordered(s, LateResume)
        /\ \A a : InFlight(a, s) <=> InFlight(a, s1) \/ InFlight(a, s2)
    BY <2>2, <2>3, <2>4, ThenSent
  <2> HIDE DEF s
  <2> QED BY <2>1, <2>2, <2>3, <2>5
<1> HIDE DEF s
<1>s. /\ Sent(StartIn)' <=> Sent(StartIn)
      /\ Sent(StartOut)'
      /\ Sent(StopIn)' <=> Sent(StopIn)
      /\ Sent(StopOut)' <=> Sent(StopOut)
      /\ Sent(PauseIn)' <=> Sent(PauseIn)
      /\ (Sent(ResumeIn)' <=> Sent(ResumeIn) \/ ResumeInput)
      /\ Sent(ResumeOut)' <=> Sent(ResumeOut)
      /\ Sent(Drain)' <=> Sent(Drain)
      /\ Sent(Etb)' <=> Sent(Etb)
      /\ Sent(<<"close">>)' <=> Sent(<<"close">>)
  BY <1>q, SentMore, CommandsDiffer
<1>b. InOrder' /\ (Ordered(cmds, LateResume) => Ordered(cmds', LateResume) \/ Sent(PauseIn)')
  <2>1. \A a, b : Sent(a) /\ InFlight(b, s) => <<a, b>> \notin CmdBars
    BY <1>g, <1>p, <1>q, CommandsDiffer DEF CmdBars
  <2>2. Ordered(cmds', CmdBars)
    BY <1>q, <1>g, <2>1, DriverSends DEF InOrder
  <2>3. Ordered(msgs', MsgBars')
    BY <1>g, MsgsInOrder DEF StreamOnOutput, session
  <2>4. CASE Sent(StartIn) /\ ResumeInput
    BY <1>p, <1>s, <2>2, <2>3, <2>4 DEF InOrder
  <2>5. CASE ~(Sent(StartIn) /\ ResumeInput)
    <3>1. \A a, b : Sent(a) /\ InFlight(b, s) => <<a, b>> \notin LateResume
      BY <1>q, <2>5, CommandsDiffer DEF LateResume
    <3>2. Ordered(cmds, LateResume) => Ordered(cmds', LateResume)
      BY <1>q, <3>1, DriverSends
    <3> QED BY <2>2, <2>3, <3>2 DEF InOrder
  <2> QED BY <2>4, <2>5
<1>e. /\ Streaming("in")' <=> Streaming("in")
      /\ Streaming("out")'
      /\ state' # "ERROR"
      /\ ~DrcWaits'
      /\ DrainWaits' <=> DrainWaits
      /\ Paused' <=> Paused /\ ~ResumeInput
      /\ "DRC" \notin sub' /\ "DRC_LAST" \notin sub' /\ "DRAIN_LAST" \notin sub'
      /\ "FIRST_IPSC" \notin sub'
      /\ client' = client /\ signal' = signal /\ fw' = fw /\ decode' = decode
      /\ \A m : Said(m)' <=> Said(m)
  <2>1. /\ state' \in States \ {"ERROR", "CLOSE"}
        /\ \A q \in Port : Streaming(q)' <=> q = "out" \/ Streaming(q)
    BY <1>i, <1>p, PlusMinusStreaming
       DEF StreamOnOutput, Streaming, Streams, TypeOK, Port
  <2>2. /\ ~DrcWaits'
        /\ DrainWaits' <=> DrainWaits
        /\ Paused' <=> Paused /\ ~ResumeInput
        /\ "DRC" \notin sub' /\ "DRC_LAST" \notin sub' /\ "DRAIN_LAST" \notin sub'
        /\ "FIRST_IPSC" \notin sub'
    BY <1>p DEF StreamOnOutput, OutputClears, DrcPending, DrainPending, DrcWaits,
                DrainWaits, Paused, SequencesNest
  <2>3. UNCHANGED <<client, signal, fw, decode, msgs>>
    BY DEF StreamOnOutput
  <2> QED BY <2>1, <2>2, <2>3, SamePorts DEF Port
<1>1. Call("in", StartIn, StopIn, StopDoneIn)'
  BY <1>g, <1>i, <1>p, <1>s, <1>e DEF Call
<1>2. Call("out", StartOut, StopOut, StopDoneOut)'
  BY <1>g, <1>i, <1>p, <1>s, <1>e DEF Call
<1>3. Calls'
  BY <1>g, <1>s, <1>e, <1>1, <1>2 DEF Calls
<1>4. Heard'
  BY <1>g, <1>i, <1>p, <1>s, <1>e DEF Heard
<1>5. Sequences'
  BY <1>g, <1>i, <1>p, <1>s, <1>e DEF Sequences
<1>6. DrainComes'
  BY <1>g, <1>i, <1>p, <1>s, <1>e DEF DrainComes
<1>7. DrcComes'
  BY <1>g, <1>i, <1>p, <1>s, <1>e, LastComes DEF DrcComes
<1>8. Pauses'
  BY <1>g, <1>i, <1>p, <1>s, <1>e, <1>b DEF Pauses
<1> QED BY <1>b, <1>e, <1>3, <1>4, <1>5, <1>6, <1>7, <1>8 DEF Good

\* The client goes on after a last buffer.
LEMMA GoodStartCmd ==
  ASSUME TypeOK, SequencesNest, Ports, Good, state # "ERROR", client \in Port \cup {"idle"},
         StartCmd
  PROVE  Good' /\ state' # "ERROR"
<1>i. client = "idle" /\ Well
  BY DEF StartCmd, MayCall, Ports, Well, Port
<1>g. /\ Calls /\ Heard /\ Sequences /\ DrainComes /\ DrcComes /\ Pauses /\ InOrder
      /\ Call("in", StartIn, StopIn, StopDoneIn)
      /\ Call("out", StartOut, StopOut, StopDoneOut)
      /\ "in" \notin signal /\ "out" \notin signal
      /\ ~Sent(StopIn) /\ ~Sent(StopOut) /\ ~Said(StopDoneIn) /\ ~Said(StopDoneOut)
  BY <1>i, IdleIs
<1>p. /\ Paused /\ (DrcPending \/ DrainPending) /\ ~Sent(ResumeIn)
      /\ ~Said(Ipsc) /\ ~Said(PscLast) /\ ~Said(DrainDone)
      /\ ~Said(DrainLast) /\ fw.drain # "last"
      /\ ~DrcWaits /\ ~Sent(StartOut)
      /\ fw.psc # "last"
      /\ ~(DrcPending /\ DrainPending) /\ DrcPending => "FIRST_IPSC" \notin sub /\ "DRAIN_LAST" \notin sub
      /\ ~DrcPending => "DRC" \notin sub /\ "DRC_LAST" \notin sub /\ "FIRST_IPSC" \notin sub /\ ~DrainWaits
      /\ Sent(StartIn) => Sent(PauseIn)
  BY <1>i, <1>g, PortsSay, StreamingStates, FwTyped, LastComes
     DEF StartCmd, DrcPending, DrainPending, Call, Sequences, DrainComes, DrcComes,
         Heard, Pauses, DrcWaits, DrainWaits, Paused, SequencesNest
<1> DEFINE both == DrcPending /\ DrainPending
           out == ~both /\ "OUTPUT_PAUSE" \in sub /\ decode
           s1 == If(~both, << ResumeIn >>)
           s2 == If(out, << ResumeOut >>)
           s == s1 \o s2
<1>q. /\ s \in Seq(Cmds) /\ Send(s) /\ Ordered(s, CmdBars) /\ Ordered(s, LateResume)
      /\ \A a : InFlight(a, s) <=> (~both /\ a = ResumeIn) \/ (out /\ a = ResumeOut)
  <2>1. Send(s) BY <1>p DEF StartCmd, ResumeIn, ResumeOut, Paused
  <2>2. /\ s1 \in Seq(Cmds) /\ Ordered(s1, CmdBars) /\ Ordered(s1, LateResume)
        /\ \A a : InFlight(a, s1) <=> ~both /\ a = ResumeIn
    <3> HIDE DEF both
    <3> QED BY NamesAre, OneIf
  <2>3. /\ s2 \in Seq(Cmds) /\ Ordered(s2, CmdBars) /\ Ordered(s2, LateResume)
        /\ \A a : InFlight(a, s2) <=> out /\ a = ResumeOut
    <3> HIDE DEF out
    <3> QED BY NamesAre, OneIf
  <2> HIDE DEF s1, s2, both, out
  <2>4. \A a, b : InFlight(a, s1) /\ InFlight(b, s2) =>
          <<a, b>> \notin CmdBars /\ <<a, b>> \notin LateResume
    BY <2>2, <2>3, CommandsDiffer DEF CmdBars, LateResume
  <2>5. /\ s \in Seq(Cmds) /\ Ordered(s, CmdBars) /\ Ordered(s, LateResume)
        /\ \A a : InFlight(a, s) <=> InFlight(a, s1) \/ InFlight(a, s2)
    BY <2>2, <2>3, <2>4, ThenSent
  <2> HIDE DEF s
  <2> QED BY <2>1, <2>2, <2>3, <2>5
<1> HIDE DEF s
<1>s. /\ Sent(StartIn)' <=> Sent(StartIn)
      /\ Sent(StartOut)' <=> Sent(StartOut)
      /\ Sent(StopIn)' <=> Sent(StopIn)
      /\ Sent(StopOut)' <=> Sent(StopOut)
      /\ Sent(PauseIn)' <=> Sent(PauseIn)
      /\ Sent(ResumeIn)' <=> Sent(ResumeIn) \/ ~both
      /\ Sent(ResumeOut)' <=> Sent(ResumeOut) \/ out
      /\ Sent(Drain)' <=> Sent(Drain)
      /\ Sent(Etb)' <=> Sent(Etb)
      /\ Sent(<<"close">>)' <=> Sent(<<"close">>)
  BY <1>q, SentMore, CommandsDiffer
<1>b. InOrder' /\ (Ordered(cmds, LateResume) => Ordered(cmds', LateResume) \/ Sent(PauseIn)')
  <2>1. \A a, b : Sent(a) /\ InFlight(b, s) => <<a, b>> \notin CmdBars
    BY <1>g, <1>p, <1>q, CommandsDiffer DEF CmdBars
  <2>2. Ordered(cmds', CmdBars)
    BY <1>q, <1>g, <2>1, DriverSends DEF InOrder
  <2>3. Ordered(msgs', MsgBars')
    BY <1>g, MsgsInOrder DEF StartCmd, session
  <2>4. CASE Sent(StartIn)
    BY <1>p, <1>s, <2>2, <2>3, <2>4 DEF InOrder
  <2>5. CASE ~Sent(StartIn)
    <3>1. \A a, b : Sent(a) /\ InFlight(b, s) => <<a, b>> \notin LateResume
      BY <1>q, <2>5, CommandsDiffer DEF LateResume
    <3>2. Ordered(cmds, LateResume) => Ordered(cmds', LateResume)
      BY <1>q, <3>1, DriverSends
    <3> QED BY <2>2, <2>3, <3>2 DEF InOrder
  <2> QED BY <2>4, <2>5
<1>e. /\ Streaming("in")' <=> Streaming("in")
      /\ Streaming("out")' <=> Streaming("out")
      /\ state' = state
      /\ ~DrcWaits'
      /\ DrainWaits' <=> DrainWaits
      /\ Paused' <=> both
      /\ "DRC" \notin sub' /\ "DRC_LAST" \notin sub'
      /\ "FIRST_IPSC" \in sub' => "FIRST_IPSC" \in sub /\ "DRAIN_LAST" \notin sub' /\ Paused'
      /\ "DRAIN_LAST" \in sub' => "DRAIN_LAST" \in sub /\ Paused'
      /\ client' = client /\ signal' = signal /\ fw' = fw /\ decode' = decode
      /\ \A m : Said(m)' <=> Said(m)
  BY <1>p, <1>i, <1>g, StreamingStates, SamePorts
     DEF StartCmd, session, SetSub, OutputClears, DrcPending, DrainPending, DrcWaits,
         DrainWaits, Paused, SequencesNest
<1>1. Call("in", StartIn, StopIn, StopDoneIn)'
  BY <1>g, <1>i, <1>p, <1>s, <1>e DEF Call
<1>2. Call("out", StartOut, StopOut, StopDoneOut)'
  BY <1>g, <1>i, <1>p, <1>s, <1>e DEF Call
<1>3. Calls'
  BY <1>g, <1>s, <1>e, <1>1, <1>2 DEF Calls
<1>4. Heard'
  BY <1>g, <1>i, <1>p, <1>s, <1>e DEF Heard
<1>5. Sequences'
  BY <1>g, <1>i, <1>p, <1>s, <1>e DEF Sequences
<1>6. DrainComes'
  BY <1>g, <1>i, <1>p, <1>s, <1>e DEF DrainComes
<1>7. DrcComes'
  BY <1>g, <1>i, <1>p, <1>s, <1>e, LastComes DEF DrcComes
<1>8. Pauses'
  BY <1>g, <1>i, <1>p, <1>s, <1>e, <1>b DEF Pauses
<1> QED BY <1>b, <1>e, <1>3, <1>4, <1>5, <1>6, <1>7, <1>8 DEF Good

\* The client stops the input.
LEMMA GoodStopInSent ==
  ASSUME TypeOK, SequencesNest, Ports, Good, state # "ERROR", client \in Port \cup {"idle"},
         packet, StreamOff("in")
  PROVE  Good' /\ state' # "ERROR"
<1>i. client = "idle" /\ Well
  BY DEF StreamOff, Ports, Well, Port
<1>g. /\ Calls /\ Heard /\ Sequences /\ DrainComes /\ DrcComes /\ Pauses /\ InOrder
      /\ Call("in", StartIn, StopIn, StopDoneIn)
      /\ Call("out", StartOut, StopOut, StopDoneOut)
      /\ "in" \notin signal /\ "out" \notin signal
      /\ ~Sent(StopIn) /\ ~Sent(StopOut) /\ ~Said(StopDoneIn) /\ ~Said(StopDoneOut)
  BY <1>i, IdleIs
<1>p. /\ Streaming("in") /\ (fw.in # "stop" \/ Sent(StartIn))
  BY <1>i, <1>g, PortsSay DEF StreamOff
<1> DEFINE s == << StopIn >>
<1>q. /\ s \in Seq(Cmds) /\ Send(s) /\ Ordered(s, CmdBars) /\ Ordered(s, LateResume)
      /\ \A a : InFlight(a, s) <=> a = StopIn
  BY NamesAre, OrderedOne, InFlightOne DEF StreamOff, StopIn
<1> HIDE DEF s
<1>s. /\ Sent(StartIn)' <=> Sent(StartIn)
      /\ Sent(StartOut)' <=> Sent(StartOut)
      /\ Sent(StopIn)'
      /\ Sent(StopOut)' <=> Sent(StopOut)
      /\ Sent(PauseIn)' <=> Sent(PauseIn)
      /\ Sent(ResumeIn)' <=> Sent(ResumeIn)
      /\ Sent(ResumeOut)' <=> Sent(ResumeOut)
      /\ Sent(Drain)' <=> Sent(Drain)
      /\ Sent(Etb)' <=> Sent(Etb)
      /\ Sent(<<"close">>)' <=> Sent(<<"close">>)
  BY <1>q, SentMore, CommandsDiffer
<1>b. InOrder' /\ (Ordered(cmds, LateResume) => Ordered(cmds', LateResume))
  <2>1. \A a, b : Sent(a) /\ InFlight(b, s) => <<a, b>> \notin CmdBars
    BY <1>g, <1>p, <1>q, CommandsDiffer DEF CmdBars
  <2>2. Ordered(cmds', CmdBars)
    BY <1>q, <1>g, <2>1, DriverSends DEF InOrder
  <2>3. Ordered(msgs', MsgBars')
    BY <1>g, MsgsInOrder DEF StreamOff
  <2>4. \A a, b : Sent(a) /\ InFlight(b, s) => <<a, b>> \notin LateResume
    BY <1>q, CommandsDiffer DEF LateResume
  <2>5. Ordered(cmds, LateResume) => Ordered(cmds', LateResume)
    BY <1>q, <2>4, DriverSends
  <2> QED BY <2>2, <2>3, <2>5 DEF InOrder
<1>e. /\ client' = "in" /\ state' = state /\ sub' = sub
      /\ signal' = signal /\ fw' = fw /\ decode' = decode
      /\ Streaming("in")' <=> Streaming("in")
      /\ Streaming("out")' <=> Streaming("out")
      /\ DrcWaits' <=> DrcWaits
      /\ DrainWaits' <=> DrainWaits
      /\ Paused' <=> Paused
      /\ \A m : Said(m)' <=> Said(m)
  BY SamePorts DEF StreamOff
<1>1. Call("in", StartIn, StopIn, StopDoneIn)'
  BY <1>g, <1>i, <1>p, <1>s, <1>e DEF Call
<1>2. Call("out", StartOut, StopOut, StopDoneOut)'
  BY <1>g, <1>i, <1>p, <1>s, <1>e DEF Call
<1>3. Calls'
  BY <1>g, <1>s, <1>e, <1>1, <1>2 DEF Calls
<1>4. Heard'
  BY <1>g, <1>i, <1>p, <1>s, <1>e DEF Heard
<1>5. Sequences'
  BY <1>g, <1>i, <1>p, <1>s, <1>e DEF Sequences
<1>6. DrainComes'
  BY <1>g, <1>i, <1>p, <1>s, <1>e DEF DrainComes
<1>7. DrcComes'
  BY <1>g, <1>i, <1>p, <1>s, <1>e, LastComes DEF DrcComes
<1>8. Pauses'
  BY <1>g, <1>i, <1>p, <1>s, <1>e, <1>b DEF Pauses
<1> QED BY <1>b, <1>e, <1>3, <1>4, <1>5, <1>6, <1>7, <1>8 DEF Good

\* The stop of the input is over.
LEMMA GoodInStopped ==
  ASSUME TypeOK, SequencesNest, Ports, Good, state # "ERROR", StreamOffDone("in")
  PROVE  Good' /\ state' # "ERROR"
<1>i. client = "in" /\ "in" \in signal /\ Well
  BY DEF StreamOffDone, Ports, Well, Port
<1>g. /\ Calls /\ Heard /\ Sequences /\ DrainComes /\ DrcComes /\ Pauses /\ InOrder
      /\ Call("in", StartIn, StopIn, StopDoneIn)
      /\ Call("out", StartOut, StopOut, StopDoneOut)
  BY DEF Good, Calls
<1>c. cmds = << >> /\ \A m : ~Sent(m)
  BY <1>g, <1>i, NothingInFlight DEF Call, Sent
<1>p. /\ Streaming("in") /\ fw.in = "stop" /\ ~Said(StopDoneIn)
      /\ ~Said(Ipsc) /\ ~Said(PscLast) /\ ~Said(DrainDone)
      /\ decode => ~Said(DrainLast) /\ fw.drain = "none"
      /\ ~decode => "DRC_LAST" \notin sub
  BY <1>i, <1>g, <1>c, FwTyped DEF Call, Sequences, DrainComes, Heard, SequencesNest
<1>e. /\ ~Streaming("in")'
      /\ Streaming("out")' <=> Streaming("out")
      /\ state' # "ERROR" /\ sub' = sub
      /\ client' = "idle" /\ signal' = signal \ {"in"} /\ fw' = fw /\ decode' = decode
      /\ DrcWaits' <=> DrcWaits
      /\ DrainWaits' <=> DrainWaits
      /\ Paused' <=> Paused
      /\ cmds' = cmds
      /\ \A m : Sent(m)' <=> Sent(m)
      /\ \A m : Said(m)' <=> Said(m)
  <2>1. "in" \in vb2
    BY <1>i, <1>p, PortsSay DEF Port
  <2>2. /\ state' \in States \ {"ERROR", "CLOSE"}
        /\ \A q \in Port : Streaming(q)' <=> q # "in" /\ Streaming(q)
    BY <1>i, <1>p, <2>1, PlusMinusStreaming
       DEF StreamOffDone, Streaming, Streams, TypeOK, Port
  <2>3. UNCHANGED <<sub, cmds, msgs, fw, decode>> /\ client' = "idle" /\ signal' = signal \ {"in"}
    BY DEF StreamOffDone
  <2> QED BY <2>2, <2>3, SamePorts DEF Port
<1>b. InOrder' /\ (Ordered(cmds, LateResume) => Ordered(cmds', LateResume))
  BY <1>g DEF InOrder, MsgBars, StreamOffDone
<1>1. Call("in", StartIn, StopIn, StopDoneIn)'
  BY <1>g, <1>i, <1>c, <1>p, <1>e DEF Call
<1>2. Call("out", StartOut, StopOut, StopDoneOut)'
  BY <1>g, <1>i, <1>c, <1>p, <1>e DEF Call
<1>3. Calls'
  BY <1>g, <1>c, <1>e, <1>1, <1>2 DEF Calls
<1>4. Heard'
  BY <1>g, <1>i, <1>c, <1>p, <1>e DEF Heard
<1>5. Sequences'
  BY <1>g, <1>i, <1>c, <1>p, <1>e DEF Sequences
<1>6. DrainComes'
  BY <1>g, <1>i, <1>c, <1>p, <1>e DEF DrainComes
<1>7. DrcComes'
  BY <1>g, <1>i, <1>c, <1>p, <1>e, LastComes DEF DrcComes
<1>8. Pauses'
  BY <1>g, <1>i, <1>c, <1>p, <1>e, <1>b DEF Pauses
<1> QED BY <1>b, <1>e, <1>3, <1>4, <1>5, <1>6, <1>7, <1>8 DEF Good

\* The client stops the output.
LEMMA GoodStopOutSent ==
  ASSUME TypeOK, SequencesNest, Ports, Good, state # "ERROR", client \in Port \cup {"idle"},
         packet, StreamOff("out")
  PROVE  Good' /\ state' # "ERROR"
<1>i. client = "idle" /\ Well
  BY DEF StreamOff, Ports, Well, Port
<1>g. /\ Calls /\ Heard /\ Sequences /\ DrainComes /\ DrcComes /\ Pauses /\ InOrder
      /\ Call("in", StartIn, StopIn, StopDoneIn)
      /\ Call("out", StartOut, StopOut, StopDoneOut)
      /\ "in" \notin signal /\ "out" \notin signal
      /\ ~Sent(StopIn) /\ ~Sent(StopOut) /\ ~Said(StopDoneIn) /\ ~Said(StopDoneOut)
  BY <1>i, IdleIs
<1>p. /\ Streaming("out") /\ (fw.out # "stop" \/ Sent(StartOut))
  BY <1>i, <1>g, PortsSay DEF StreamOff
<1> DEFINE s == << StopOut >>
<1>q. /\ s \in Seq(Cmds) /\ Send(s) /\ Ordered(s, CmdBars) /\ Ordered(s, LateResume)
      /\ \A a : InFlight(a, s) <=> a = StopOut
  BY NamesAre, OrderedOne, InFlightOne DEF StreamOff, StopOut
<1> HIDE DEF s
<1>s. /\ Sent(StartIn)' <=> Sent(StartIn)
      /\ Sent(StartOut)' <=> Sent(StartOut)
      /\ Sent(StopIn)' <=> Sent(StopIn)
      /\ Sent(StopOut)'
      /\ Sent(PauseIn)' <=> Sent(PauseIn)
      /\ Sent(ResumeIn)' <=> Sent(ResumeIn)
      /\ Sent(ResumeOut)' <=> Sent(ResumeOut)
      /\ Sent(Drain)' <=> Sent(Drain)
      /\ Sent(Etb)' <=> Sent(Etb)
      /\ Sent(<<"close">>)' <=> Sent(<<"close">>)
  BY <1>q, SentMore, CommandsDiffer
<1>b. InOrder' /\ (Ordered(cmds, LateResume) => Ordered(cmds', LateResume))
  <2>1. \A a, b : Sent(a) /\ InFlight(b, s) => <<a, b>> \notin CmdBars
    BY <1>g, <1>p, <1>q, CommandsDiffer DEF CmdBars
  <2>2. Ordered(cmds', CmdBars)
    BY <1>q, <1>g, <2>1, DriverSends DEF InOrder
  <2>3. Ordered(msgs', MsgBars')
    BY <1>g, MsgsInOrder DEF StreamOff
  <2>4. \A a, b : Sent(a) /\ InFlight(b, s) => <<a, b>> \notin LateResume
    BY <1>q, CommandsDiffer DEF LateResume
  <2>5. Ordered(cmds, LateResume) => Ordered(cmds', LateResume)
    BY <1>q, <2>4, DriverSends
  <2> QED BY <2>2, <2>3, <2>5 DEF InOrder
<1>e. /\ client' = "out" /\ state' = state /\ sub' = sub
      /\ signal' = signal /\ fw' = fw /\ decode' = decode
      /\ Streaming("in")' <=> Streaming("in")
      /\ Streaming("out")' <=> Streaming("out")
      /\ DrcWaits' <=> DrcWaits
      /\ DrainWaits' <=> DrainWaits
      /\ Paused' <=> Paused
      /\ \A m : Said(m)' <=> Said(m)
  BY SamePorts DEF StreamOff
<1>1. Call("in", StartIn, StopIn, StopDoneIn)'
  BY <1>g, <1>i, <1>p, <1>s, <1>e DEF Call
<1>2. Call("out", StartOut, StopOut, StopDoneOut)'
  BY <1>g, <1>i, <1>p, <1>s, <1>e DEF Call
<1>3. Calls'
  BY <1>g, <1>s, <1>e, <1>1, <1>2 DEF Calls
<1>4. Heard'
  BY <1>g, <1>i, <1>p, <1>s, <1>e DEF Heard
<1>5. Sequences'
  BY <1>g, <1>i, <1>p, <1>s, <1>e DEF Sequences
<1>6. DrainComes'
  BY <1>g, <1>i, <1>p, <1>s, <1>e DEF DrainComes
<1>7. DrcComes'
  BY <1>g, <1>i, <1>p, <1>s, <1>e, LastComes DEF DrcComes
<1>8. Pauses'
  BY <1>g, <1>i, <1>p, <1>s, <1>e, <1>b DEF Pauses
<1> QED BY <1>b, <1>e, <1>3, <1>4, <1>5, <1>6, <1>7, <1>8 DEF Good

\* The stop of the output is over.
LEMMA GoodOutStopped ==
  ASSUME TypeOK, SequencesNest, Ports, Good, state # "ERROR", StreamOffDone("out")
  PROVE  Good' /\ state' # "ERROR"
<1>i. client = "out" /\ "out" \in signal /\ Well
  BY DEF StreamOffDone, Ports, Well, Port
<1>g. /\ Calls /\ Heard /\ Sequences /\ DrainComes /\ DrcComes /\ Pauses /\ InOrder
      /\ Call("in", StartIn, StopIn, StopDoneIn)
      /\ Call("out", StartOut, StopOut, StopDoneOut)
  BY DEF Good, Calls
<1>c. cmds = << >> /\ \A m : ~Sent(m)
  BY <1>g, <1>i, NothingInFlight DEF Call, Sent
<1>p. /\ Streaming("out") /\ fw.out = "stop" /\ ~Said(StopDoneOut)
      /\ ~Said(PscLast) /\ ~Said(DrainLast) /\ fw.psc # "last" /\ fw.drain # "last"
  BY <1>i, <1>g, <1>c, FwTyped DEF Call, Sequences, DrainComes, Heard, SequencesNest
<1>e. /\ ~Streaming("out")'
      /\ Streaming("in")' <=> Streaming("in")
      /\ state' # "ERROR" /\ sub' = sub
      /\ client' = "idle" /\ signal' = signal \ {"out"} /\ fw' = fw /\ decode' = decode
      /\ DrcWaits' <=> DrcWaits
      /\ DrainWaits' <=> DrainWaits
      /\ Paused' <=> Paused
      /\ cmds' = cmds
      /\ \A m : Sent(m)' <=> Sent(m)
      /\ \A m : Said(m)' <=> Said(m)
  <2>1. "out" \in vb2
    BY <1>i, <1>p, PortsSay DEF Port
  <2>2. /\ state' \in States \ {"ERROR", "CLOSE"}
        /\ \A q \in Port : Streaming(q)' <=> q # "out" /\ Streaming(q)
    BY <1>i, <1>p, <2>1, PlusMinusStreaming
       DEF StreamOffDone, Streaming, Streams, TypeOK, Port
  <2>3. UNCHANGED <<sub, cmds, msgs, fw, decode>> /\ client' = "idle" /\ signal' = signal \ {"out"}
    BY DEF StreamOffDone
  <2> QED BY <2>2, <2>3, SamePorts DEF Port
<1>b. InOrder' /\ (Ordered(cmds, LateResume) => Ordered(cmds', LateResume))
  BY <1>g DEF InOrder, MsgBars, StreamOffDone
<1>1. Call("in", StartIn, StopIn, StopDoneIn)'
  BY <1>g, <1>i, <1>c, <1>p, <1>e DEF Call
<1>2. Call("out", StartOut, StopOut, StopDoneOut)'
  BY <1>g, <1>i, <1>c, <1>p, <1>e DEF Call
<1>3. Calls'
  BY <1>g, <1>c, <1>e, <1>1, <1>2 DEF Calls
<1>4. Heard'
  BY <1>g, <1>i, <1>c, <1>p, <1>e DEF Heard
<1>5. Sequences'
  BY <1>g, <1>i, <1>c, <1>p, <1>e DEF Sequences
<1>6. DrainComes'
  BY <1>g, <1>i, <1>c, <1>p, <1>e DEF DrainComes
<1>7. DrcComes'
  BY <1>g, <1>i, <1>c, <1>p, <1>e, LastComes DEF DrcComes
<1>8. Pauses'
  BY <1>g, <1>i, <1>c, <1>p, <1>e, <1>b DEF Pauses
<1> QED BY <1>b, <1>e, <1>3, <1>4, <1>5, <1>6, <1>7, <1>8 DEF Good

\* What the invariant says of a step that changes nothing it speaks of.
LEMMA SameGood ==
  ASSUME UNCHANGED <<decode, state, sub, client, signal, cmds, msgs, fw>>
  PROVE  Good' <=> Good
<1>1. UNCHANGED <<decode, state, sub, client, signal, cmds, msgs, fw>>
  OBVIOUS
<1>2. InOrder' <=> InOrder
  BY <1>1 DEF InOrder, MsgBars
<1>3. /\ Call("in", StartIn, StopIn, StopDoneIn)' <=> Call("in", StartIn, StopIn, StopDoneIn)
      /\ Call("out", StartOut, StopOut, StopDoneOut)' <=> Call("out", StartOut, StopOut, StopDoneOut)
  BY <1>1, SamePorts DEF Call
<1>4. Calls' <=> Calls
  BY <1>1, <1>3, SamePorts DEF Calls
<1>5. Heard' <=> Heard
  BY <1>1, SamePorts DEF Heard
<1>6. Sequences' <=> Sequences
  BY <1>1, SamePorts DEF Sequences
<1>7. DrainComes' <=> DrainComes
  BY <1>1, SamePorts DEF DrainComes
<1>8. DrcComes' <=> DrcComes
  BY <1>1, SamePorts, LastComes DEF DrcComes
<1>9. Pauses' <=> Pauses
  BY <1>1, SamePorts DEF Pauses
<1> QED BY <1>2, <1>4, <1>5, <1>6, <1>7, <1>8, <1>9 DEF Good

\* The session starts to close.
LEMMA GoodBeginClose ==
  ASSUME Good, BeginClose
  PROVE  Good' /\ state' = state
BY SameGood DEF BeginClose

\* What is in flight when the client closes: nothing that starts or stops a
\* port, and no answer.
LEMMA MsgsAre ==
  ASSUME NEW m \in Msgs
  PROVE  m \in {StopDoneIn, StopDoneOut, <<"stop_error", "in">>, <<"stop_error", "out">>,
                Ipsc, PscLast, DrainDone, DrainLast, <<"close_done">>, <<"error">>}
BY DEF Msgs, Port, StopDoneIn, StopDoneOut, Ipsc, PscLast, DrainDone, DrainLast

LEMMA CloseIsSent ==
  ASSUME TypeOK, Ports, Good, state # "ERROR", packet, client \in Port \cup {"idle"}, SessionClose
  PROVE  Closing' /\ client' = "closed"
<1>i. client = "idle" /\ Well /\ vb2 = {}
  BY DEF SessionClose, Ports, Well, Port
<1>g. /\ Calls /\ Heard /\ Pauses
      /\ Call("in", StartIn, StopIn, StopDoneIn)
      /\ Call("out", StartOut, StopOut, StopDoneOut)
      /\ ~Sent(StopIn) /\ ~Sent(StopOut) /\ ~Said(StopDoneIn) /\ ~Said(StopDoneOut)
  BY <1>i, IdleIs
<1>1. /\ ~Streaming("in") /\ ~Streaming("out")
  BY <1>i, PortsSay
<1>2. state = "OPEN"
  BY <1>1, <1>i, StreamingStates DEF TypeOK, States, Well
<1>3. /\ fw.in = "stop" /\ fw.out = "stop" /\ ~Sent(StartIn) /\ ~Sent(StartOut)
      /\ ~Said(Ipsc) /\ ~Said(PscLast) /\ ~Said(DrainDone) /\ ~Said(DrainLast)
  BY <1>g, <1>1 DEF Call, Heard
<1>4. \A m \in Msgs \ {<<"close_done">>} : ~Said(m)
  BY <1>g, <1>3, MsgsAre DEF Calls
<1>5. Send(<< <<"close">> >>) /\ client' = "closed" /\ UNCHANGED <<state, msgs, fw>>
  BY DEF SessionClose
<1>6. << <<"close">> >> \in Seq(Cmds)
  <2>1. <<"close">> \in Cmds BY CmdsHas
  <2> QED BY <2>1
<1>7. \A m : Sent(m)' => Sent(m) \/ m = <<"close">>
  BY <1>5, <1>6, SentMore, InFlightOne
<1>8. ~Sent(StartIn)' /\ ~Sent(StartOut)' /\ ~Sent(StopIn)' /\ ~Sent(StopOut)'
  BY <1>3, <1>g, <1>7, CommandsDiffer
<1>9. \A m \in Msgs \ {<<"close_done">>} : ~Said(m)'
  BY <1>4, <1>5 DEF Said
<1> QED BY <1>2, <1>3, <1>5, <1>8, <1>9 DEF Closing

\* Until the answer is there the firmware only closes.
LEMMA FirmwareCloses ==
  ASSUME TypeOK, Closing, FwCommand
  PROVE  Closing' /\ blame' = blame
<1>1. cmds \in Seq(Cmds) /\ msgs \in Seq(Msgs) BY DEF TypeOK
<1>2. cmds # << >> /\ cmds' = Tail(cmds) BY DEF FwCommand
<1>3. \A m : Sent(m) <=> Head(cmds) = m \/ Sent(m)'
  BY <1>1, <1>2, InFlightHead DEF Sent
<1>4. /\ Head(cmds) # StartIn /\ Head(cmds) # StartOut
      /\ Head(cmds) # StopIn /\ Head(cmds) # StopOut
      /\ ~Sent(StartIn)' /\ ~Sent(StartOut)' /\ ~Sent(StopIn)' /\ ~Sent(StopOut)'
  BY <1>3 DEF Closing
<1>5. /\ fw'.in = "stop" /\ fw'.out = "stop"
      /\ msgs' = msgs \/ msgs' = Append(msgs, <<"close_done">>)
      /\ state' = state /\ blame' = blame
  <2>1. \A p \in Port : Head(cmds) # <<"start", p>> /\ Head(cmds) # <<"stop", p>>
    BY <1>4 DEF Port, StartIn, StartOut, StopIn, StopOut
  <2>2. fw.in = "stop" /\ fw.out = "stop" BY DEF Closing
  <2> QED BY <2>1, <2>2, FwTyped DEF FwCommand, session
<1>6. ASSUME NEW m \in Msgs \ {<<"close_done">>} PROVE ~Said(m)'
  <2>1. ~Said(m) BY DEF Closing
  <2>2. <<"close_done">> \in Msgs BY MsgsHas
  <2>3. InFlight(m, Append(msgs, <<"close_done">>)) <=> InFlight(m, msgs) \/ <<"close_done">> = m
    BY <1>1, <2>2, InFlightAppend
  <2> QED BY <1>5, <1>6, <2>1, <2>3 DEF Said
<1> QED BY <1>4, <1>5, <1>6 DEF Closing

LEMMA DriverCloses ==
  ASSUME TypeOK, Closing, HandleResponse
  PROVE  Closing' /\ blame' = blame
<1>1. msgs \in Seq(Msgs) /\ msgs # << >> /\ msgs' = Tail(msgs)
  BY DEF TypeOK, HandleResponse
<1>2. \A m : Said(m) <=> Head(msgs) = m \/ Said(m)'
  BY <1>1, InFlightHead DEF Said
<1>3. PICK h : h = Head(msgs) OBVIOUS
<1>4. h \in Msgs /\ Said(h)
  BY <1>1, <1>2, <1>3
<1>5. h = <<"close_done">> BY <1>4 DEF Closing
<1>6. /\ h \notin {Ipsc, PscLast, DrainDone, DrainLast, <<"error">>}
      /\ \A p \in Port : h # <<"stop_done", p>> /\ h # <<"stop_error", p>>
  <2>1. h \notin {Ipsc, PscLast, DrainDone, DrainLast, <<"error">>}
    BY <1>5, AnswersDiffer, PacketsDiffer
  <2> QED BY <2>1, <1>5, PacketsDiffer
<1>7. HandleCloseDone
  BY <1>3, <1>6
     DEF HandleResponse, HandleIpsc, HandleLast, HandleDrainDone, HandleStopDone,
                    HandleError, Ipsc, PscLast, DrainDone, DrainLast
<1>8. UNCHANGED <<state, sub, cmds, fw, blame>>
  BY <1>7 DEF HandleCloseDone, HandleResponse
<1>9. \A m : Said(m)' => Said(m) BY <1>2
<1> QED BY <1>8, <1>9, SamePorts DEF Closing

-----------------------------------------------------------------------------
(* Each part of the system, as long as nothing is to blame.                *)

LEMMA BlameGrows ==
  ASSUME [Next]_vars PROVE blame \subseteq blame'
<1>1. CASE Client
  BY <1>1
     DEF Client, StreamOnInput, StreamOnOutput, StreamOnFails, QueueInput, StopCmd,
     StartCmd, StreamOff, StreamOffDone, StreamOffBuffersLeft, BeginClose, SessionClose,
     SessionCloseDone, Timeout
<1>2. CASE HandleResponse
  BY <1>2 DEF HandleResponse, HandleIpsc, HandleLast, HandleDrainDone, HandleStopDone,
     HandleCloseDone, HandleError
<1>3. CASE FwCommand
  BY <1>3 DEF FwCommand, FwStart, FwStop
<1>4. CASE Firmware /\ ~FwCommand
  BY <1>4
     DEF Firmware, FwIpsc, FwPscLast, FwDrainDone, FwDrainLast, FwError, FwHang, Says
<1>5. CASE Gone \/ UNCHANGED vars
  BY <1>5 DEF Gone, vars
<1> QED BY <1>1, <1>2, <1>3, <1>4, <1>5 DEF Next

\* A wait that nothing answers is one on a firmware that hangs.
LEMMA AnswersCome ==
  ASSUME Answered, blame = {}, alive PROVE ~NoAnswer
BY NothingInFlight DEF Answered, StopComing, CloseComing, NoAnswer

LEMMA GoodFirmware ==
  ASSUME TypeOK, SequencesNest, Good, Firmware, blame' = {}
  PROVE  Good' /\ UNCHANGED <<state, client, packet, alive>>
<1>1. CASE FwCommand
  <2>1. /\ UNCHANGED <<session, client, signal, alive>>
        /\ cmds # << >> /\ cmds' = Tail(cmds)
    BY <1>1 DEF FwCommand
  <2>0. UNCHANGED <<session, client, signal>> BY <2>1
  <2>u. ASSUME msgs' = msgs PROVE UNCHANGED <<session, client, signal, msgs>>
    BY <2>1, <2>u
  <2>2. InOrder /\ Calls BY DEF Good
  <2>3. Sent(Head(cmds)) BY <2>1, InFlightHead DEF Sent, TypeOK
  <2>4. ASSUME Head(cmds) = StartIn /\ FwStart("in")
        PROVE  Good'
    BY <2>1, <2>u, <2>4, GoodStartIn DEF FwStart
  <2>5. ASSUME Head(cmds) = StartOut /\ FwStart("out")
        PROVE  Good'
    BY <2>1, <2>u, <2>5, GoodStartOut DEF FwStart
  <2>6. ASSUME Head(cmds) = StopIn /\ FwStop("in")
        PROVE  Good'
    BY <2>0, <2>1, <2>6, GoodStopIn
  <2>7. ASSUME Head(cmds) = StopOut /\ FwStop("out")
        PROVE  Good'
    BY <2>0, <2>1, <2>7, GoodStopOut
  <2>8. ASSUME Head(cmds) = PauseIn /\ msgs' = msgs
             /\ fw' = [fw EXCEPT !.in = IF @ = "run" THEN "pause" ELSE @]
        PROVE  Good'
    BY <2>1, <2>u, <2>8, GoodPauseIn
  <2>9. ASSUME Head(cmds) = ResumeIn /\ msgs' = msgs
             /\ fw' = [fw EXCEPT !.in = IF @ = "pause" THEN "run" ELSE @, !.psc = "none"]
        PROVE  Good'
    BY <2>1, <2>u, <2>9, GoodResumeIn
  <2>10. ASSUME Head(cmds) = ResumeOut /\ msgs' = msgs
             /\ fw' = [fw EXCEPT !.out = IF @ = "pause" THEN "run" ELSE @]
        PROVE  Good'
    BY <2>1, <2>u, <2>10, GoodResumeOut
  <2>11. ASSUME Head(cmds) = Drain /\ msgs' = msgs /\ fw' = [fw EXCEPT !.drain = "asked"]
        PROVE  Good'
    BY <2>1, <2>u, <2>11, GoodDrain
  <2>12. ASSUME Head(cmds) = Etb /\ msgs' = msgs
             /\ fw' = [fw EXCEPT !.data = IF fw.drain = "asked" THEN "after" ELSE "now"]
        PROVE  Good'
    BY <2>1, <2>u, <2>12, GoodEtb
  <2>13. Head(cmds) # <<"close">> BY <2>2, <2>3 DEF Calls
  <2>14. Good'
    BY <1>1, <2>4, <2>5, <2>6, <2>7, <2>8, <2>9, <2>10, <2>11, <2>12, <2>13
       DEF FwCommand, Port, StartIn, StartOut, StopIn, StopOut, PauseIn, ResumeIn,
           ResumeOut,
           Drain, Etb
  <2> QED BY <2>1, <2>14 DEF session
<1>2. CASE FwIpsc
  BY <1>2, GoodFwIpsc DEF FwIpsc, Says, session
<1>3. CASE FwPscLast
  BY <1>3, GoodFwPscLast DEF FwPscLast, Says, session
<1>4. CASE FwDrainDone
  BY <1>4, GoodFwDrainDone DEF FwDrainDone, Says, session
<1>5. CASE FwDrainLast
  BY <1>5, GoodFwDrainLast DEF FwDrainLast, Says, session
<1>6. CASE FwError \/ FwHang
  BY <1>6 DEF FwError, FwHang
<1> QED BY <1>1, <1>2, <1>3, <1>4, <1>5, <1>6 DEF Firmware

LEMMA GoodResponse ==
  ASSUME TypeOK, SequencesNest, Good, state # "ERROR", HandleResponse, blame' = {}
  PROVE  Good' /\ state' # "ERROR" /\ UNCHANGED <<client, packet, alive>>
<1>1. /\ msgs # << >> /\ msgs' = Tail(msgs)
      /\ UNCHANGED <<vb2, decode, closing, packet, client, cmds, fw, alive>>
  BY DEF HandleResponse
<1>2. PICK h : h = Head(msgs) OBVIOUS
<1>3. Said(h) BY <1>1, <1>2, InFlightHead DEF Said, TypeOK
<1>4. h # <<"close_done">> /\ h # <<"error">>
  BY <1>3 DEF Good, Calls
<1>5. CASE HandleIpsc
  BY <1>1, <1>5, GoodIpsc
<1>6. CASE HandleLast("psc_last", "DRC", "DRC_LAST")
  BY <1>1, <1>6, GoodPscLast
<1>7. CASE HandleLast("drain_last", "DRAIN", "DRAIN_LAST")
  BY <1>1, <1>7, GoodDrainLast
<1>8. CASE HandleDrainDone
  BY <1>1, <1>8, GoodDrainDone
<1>9. CASE HandleStopDone("in")
  BY <1>1, <1>9, GoodStopDoneIn
<1>10. CASE HandleStopDone("out")
  BY <1>1, <1>10, GoodStopDoneOut
<1>11. ~HandleCloseDone /\ ~HandleError
  BY <1>2, <1>4 DEF HandleCloseDone, HandleError
<1> QED
  BY <1>1, <1>5, <1>6, <1>7, <1>8, <1>9, <1>10, <1>11 DEF HandleResponse, Port

\* A call that does not wait, or one that starts to wait for a port.
LEMMA GoodClient ==
  ASSUME TypeOK, SequencesNest, Ports, Answered, Good, state # "ERROR", packet, alive,
         client \in Port \cup {"idle"}, Client, blame' = {}
  PROVE  /\ alive' /\ state' # "ERROR" /\ client' # "killed"
         /\ client' \in Port \cup {"idle"} => packet' /\ Good'
         /\ client' = "closed" => Closing'
         /\ client' # "gone"
<1>p. Port = {"in", "out"} /\ "idle" \notin Port /\ "closed" \notin Port /\ "killed" \notin Port
      /\ "gone" \notin Port
  BY DEF Port
<1>b. blame = {} BY BlameGrows DEF Next
<1>1. ASSUME NEW deferred \in BOOLEAN, StreamOnInput(deferred)
      PROVE  Good' /\ state' # "ERROR" /\ UNCHANGED <<client, packet, alive>>
  <2>1. Good' /\ state' # "ERROR" BY <1>1, GoodStreamOnInput
  <2> QED BY <1>1, <2>1 DEF StreamOnInput
<1>2. CASE StreamOnOutput
  <2>1. Good' /\ state' # "ERROR" BY <1>2, GoodStreamOnOutput
  <2> QED BY <1>2, <2>1, <1>p DEF StreamOnOutput
<1>3. ASSUME NEW p \in Port, StreamOnFails(p) \/ StreamOffBuffersLeft(p) PROVE FALSE
  BY <1>3 DEF StreamOnFails, StreamOffBuffersLeft
<1>4. CASE QueueInput
  <2>1. Good' /\ state' # "ERROR" BY <1>4, GoodQueueInput
  <2> QED BY <1>4, <2>1, <1>p DEF QueueInput, session
<1>5. CASE StopCmd
  <2>1. Good' /\ state' # "ERROR" BY <1>5, GoodStopCmd
  <2> QED BY <1>5, <2>1, <1>p DEF StopCmd
<1>6. CASE StartCmd
  <2>1. Good' /\ state' # "ERROR" BY <1>6, GoodStartCmd
  <2> QED BY <1>6, <2>1, <1>p DEF StartCmd
<1>7. ASSUME NEW p \in Port, StreamOff(p)
      PROVE  Good' /\ state' # "ERROR" /\ client' = p /\ UNCHANGED <<packet, alive>>
  <2>1. client' = p /\ UNCHANGED <<packet, alive>> BY <1>7 DEF StreamOff
  <2>2. CASE p = "in" BY <1>7, <2>1, <2>2, GoodStopInSent
  <2>3. CASE p = "out" BY <1>7, <2>1, <2>3, GoodStopOutSent
  <2> QED BY <2>2, <2>3, <1>p
<1>8. ASSUME NEW p \in Port, StreamOffDone(p)
      PROVE  Good' /\ state' # "ERROR" /\ client' = "idle" /\ UNCHANGED <<packet, alive>>
  <2>1. client' = "idle" /\ UNCHANGED <<packet, alive>> BY <1>8 DEF StreamOffDone
  <2>2. CASE p = "in" BY <1>8, <2>1, <2>2, GoodInStopped
  <2>3. CASE p = "out" BY <1>8, <2>1, <2>3, GoodOutStopped
  <2> QED BY <2>2, <2>3, <1>p
<1>9. CASE BeginClose
  <2>1. Good' /\ state' # "ERROR" BY <1>9, GoodBeginClose
  <2> QED BY <1>9, <2>1, <1>p DEF BeginClose
<1>10. CASE SessionClose
  <2>1. Closing' /\ client' = "closed" BY <1>10, CloseIsSent
  <2>2. UNCHANGED alive BY <1>10 DEF SessionClose
  <2> QED BY <2>1, <2>2, <1>p DEF Closing
<1>11. ~SessionCloseDone BY <1>p DEF SessionCloseDone
<1>12. ~Timeout BY <1>b, AnswersCome DEF Timeout
<1> QED
  BY <1>1, <1>2, <1>3, <1>4, <1>5, <1>6, <1>7, <1>8, <1>9, <1>10, <1>11, <1>12, <1>p
     DEF Client

\* While the session is being closed, and after.
LEMMA CloseGoesOn ==
  ASSUME TypeOK, Answered, blame = {}, blame' = {}, alive, client \in {"closed", "gone"}, Next,
         client = "closed" => Closing, client = "gone" => state = "CLOSE"
  PROVE  /\ alive' /\ state' # "ERROR" /\ client' \in {"closed", "gone"}
         /\ client' = "closed" => Closing'
         /\ client' = "gone" => state' = "CLOSE"
<1>n. client \notin Port \cup {"idle"} BY DEF Port
<1>1. CASE client = "closed"
  <2>1. Closing /\ state = "OPEN" /\ state # "ERROR" BY <1>1 DEF Closing
  <2>2. CASE FwCommand
    <3>1. Closing' BY <2>1, <2>2, FirmwareCloses
    <3>2. UNCHANGED <<client, alive>> BY <2>2 DEF FwCommand
    <3> QED BY <1>1, <3>1, <3>2 DEF Closing
  <2>3. CASE HandleResponse
    <3>1. Closing' BY <2>1, <2>3, DriverCloses
    <3>2. UNCHANGED <<client, alive>> BY <2>3 DEF HandleResponse
    <3> QED BY <1>1, <3>1, <3>2 DEF Closing
  <2>4. ~FwIpsc /\ ~FwPscLast /\ ~FwDrainDone /\ ~FwDrainLast
    BY <2>1 DEF Closing, FwIpsc, FwPscLast, FwDrainDone, FwDrainLast
  <2>5. ~FwError /\ ~FwHang BY DEF FwError, FwHang
  <2>6. CASE SessionCloseDone
    <3>1. state' = Changed("CLOSE") /\ client' = "gone" /\ alive' = alive
      BY <1>1, <2>6 DEF SessionCloseDone
    <3>2. state' = "CLOSE" BY <2>1, <3>1, FailsToError DEF TypeOK
    <3> QED BY <3>1, <3>2
  <2>7. CASE Client /\ ~SessionCloseDone
    <3>1. ~Timeout BY AnswersCome DEF Timeout
    <3> QED
      BY <1>n, <1>1, <2>7, <3>1
         DEF Client, StreamOnInput, StreamOnOutput, StreamOnFails, QueueInput,
         StopCmd, StartCmd, StreamOff, StreamOffDone, StreamOffBuffersLeft, BeginClose,
         SessionClose, MayCall
  <2>8. ~Gone BY <1>1 DEF Gone
  <2> QED BY <2>2, <2>3, <2>4, <2>5, <2>6, <2>7, <2>8 DEF Next, Firmware
<1>2. CASE client = "gone"
  <2>1. state = "CLOSE" BY <1>2
  <2>2. Changed("ERROR") = "CLOSE" BY <2>1, FailsToError DEF TypeOK
  <2>3. CASE Firmware
    <3>1. UNCHANGED <<state, client>>
      BY <2>3 DEF Firmware, FwCommand, FwIpsc, FwPscLast, FwDrainDone, FwDrainLast,
                  FwError, FwHang, Says, session
    <3>2. alive'
      BY <2>3 DEF Firmware, FwCommand, FwIpsc, FwPscLast, FwDrainDone, FwDrainLast,
                  FwError, FwHang, Says
    <3> QED BY <1>2, <2>1, <3>1, <3>2
  <2>4. CASE HandleResponse
    <3>1. state' = state \/ state' = Changed("ERROR")
      BY <2>4
         DEF HandleResponse, HandleIpsc, HandleLast, HandleDrainDone, HandleStopDone,
                  HandleCloseDone, HandleError
    <3>2. UNCHANGED <<client, alive>> BY <2>4 DEF HandleResponse
    <3> QED BY <1>2, <2>1, <2>2, <3>1, <3>2
  <2>5. ~Client
    BY <1>n, <1>2
       DEF Client, StreamOnInput, StreamOnOutput, StreamOnFails, QueueInput,
       StopCmd, StartCmd, StreamOff, StreamOffDone, StreamOffBuffersLeft, BeginClose,
       SessionClose, SessionCloseDone, Timeout, NoAnswer, MayCall
  <2>6. CASE Gone
    BY <1>2, <2>1, <2>6 DEF Gone, vars, session
  <2> QED BY <2>3, <2>4, <2>5, <2>6 DEF Next
<1> QED BY <1>1, <1>2

LEMMA NoFaultKept ==
  TypeOK /\ SequencesNest /\ Ports /\ Answered /\ NoFault /\ [Next]_vars => NoFault'
<1> SUFFICES ASSUME TypeOK, SequencesNest, Ports, Answered, NoFault, [Next]_vars, blame' = {}
             PROVE  /\ alive' /\ state' # "ERROR" /\ client' # "killed"
                    /\ client' \in Port \cup {"idle"} => packet' /\ Good'
                    /\ client' = "closed" => Closing'
                    /\ client' = "gone" => state' = "CLOSE"
  BY DEF NoFault
<1>n. {"closed", "gone", "killed"} \cap (Port \cup {"idle"}) = {} BY DEF Port
<1>0. blame = {} BY BlameGrows
<1>1. /\ alive /\ state # "ERROR" /\ client # "killed"
      /\ client \in Port \cup {"idle"} => packet /\ Good
      /\ client = "closed" => Closing
      /\ client = "gone" => state = "CLOSE"
  BY <1>0 DEF NoFault
<1>2. CASE UNCHANGED vars
  <2>1. UNCHANGED <<decode, state, sub, packet, client, signal, cmds, msgs, fw, alive>>
    BY <1>2 DEF vars, session
  <2>2. Closing' <=> Closing
    BY <2>1, SamePorts DEF Closing
  <2>3. Good' <=> Good
    BY <2>1, SameGood
  <2> QED BY <1>1, <2>1, <2>2, <2>3
<1>3. CASE client \in {"closed", "gone"} /\ Next
  BY <1>0, <1>1, <1>3, <1>n, CloseGoesOn
<1>4. CASE client \in Port \cup {"idle"} /\ Firmware
  <2>1. Good /\ packet BY <1>1, <1>4
  <2>2. Good' /\ UNCHANGED <<state, client, packet, alive>>
    BY <1>4, <2>1, GoodFirmware
  <2> QED BY <1>1, <1>4, <1>n, <2>1, <2>2
<1>5. CASE client \in Port \cup {"idle"} /\ HandleResponse
  <2>1. Good /\ packet BY <1>1, <1>5
  <2>2. Good' /\ state' # "ERROR" /\ UNCHANGED <<client, packet, alive>>
    BY <1>1, <1>5, <2>1, GoodResponse
  <2> QED BY <1>1, <1>5, <1>n, <2>1, <2>2
<1>6. CASE client \in Port \cup {"idle"} /\ Client
  BY <1>1, <1>6, GoodClient
<1>7. ~Gone \/ client \in {"closed", "gone"} BY DEF Gone
<1>8. client \in Port \cup {"idle", "closed", "gone"} BY <1>1 DEF TypeOK
<1> QED BY <1>2, <1>3, <1>4, <1>5, <1>6, <1>7, <1>8 DEF Next

LEMMA InitNoFault == Init => NoFault
<1> SUFFICES ASSUME Init PROVE NoFault OBVIOUS
<1>1. \A m : ~Sent(m) /\ ~Said(m) BY NothingInFlight DEF Init, Sent, Said
<1>2. InOrder BY OrderedOne DEF Init, InOrder
<1>3. Ordered(cmds, LateResume) BY OrderedOne DEF Init
<1>4. ~Streaming("in") /\ ~Streaming("out") /\ ~Paused /\ ~DrcWaits /\ ~DrainWaits
  BY DEF Init, Streaming, Paused, DrcWaits, DrainWaits
<1>5. /\ Call("in", StartIn, StopIn, StopDoneIn)
      /\ Call("out", StartOut, StopOut, StopDoneOut)
  BY <1>1 DEF Init, Call
<1>6. Calls BY <1>1, <1>5 DEF Calls
<1>7. Heard BY <1>1 DEF Init, Heard
<1>8. Sequences BY <1>1 DEF Init, Sequences
<1>9. DrainComes BY <1>1, <1>4 DEF Init, DrainComes
<1>10. DrcComes BY <1>1, <1>4 DEF Init, DrcComes
<1>11. Pauses BY <1>1, <1>3, <1>4 DEF Init, Pauses
<1>12. Good BY <1>2, <1>6, <1>7, <1>8, <1>9, <1>10, <1>11 DEF Good
<1> QED BY <1>12 DEF Init, NoFault

(***************************************************************************)
(* A session goes to ERROR only for a reason: as long as the firmware did  *)
(* not fail or hang, no streamon failed, no buffer was left, and none of   *)
(* the three orders of events happened that the code does not stand, no    *)
(* interleaving of ioctls, commands and responses makes a handler take an  *)
(* answer for an unexpected one (handle_session_stop, handle_session_info, *)
(* handle_drain_last_flag_buffer, msm_vidc_state_machine).                 *)
(***************************************************************************)
THEOREM ErrorsHaveAReason == Spec => []NoSpuriousError
<1>1. TypeOK /\ Nest /\ Ports /\ Answered /\ NoFault /\ [Next]_vars
        => TypeOK' /\ Nest' /\ Ports' /\ Answered' /\ NoFault'
  <2> SUFFICES ASSUME TypeOK, Nest, Ports, Answered, NoFault, [Next]_vars
               PROVE  TypeOK' /\ Nest' /\ Ports' /\ Answered' /\ NoFault'
    OBVIOUS
  <2>1. SequencesNest BY DEF Nest
  <2>2. NoFault' BY <2>1, NoFaultKept
  <2>3. CASE Client
    BY <2>2, <2>3, ClientTypes, ClientNest, ClientPorts, ClientAnswers
  <2>4. CASE HandleResponse
    BY <2>2, <2>4, ResponseTypes, ResponseNest, ResponsePorts, ResponseAnswers
  <2>5. CASE Firmware \/ UNCHANGED vars
    BY <2>2, <2>5, FirmwareTypes, FirmwareNest, FirmwarePorts, FirmwareAnswers
  <2> QED BY <2>3, <2>4, <2>5 DEF Next, Gone
<1>2. NoFault => NoSpuriousError BY DEF NoFault, NoSpuriousError
<1>3. Init => Answered BY DEF Init, Answered, Port
<1> QED
  BY <1>1, <1>2, <1>3, InitTypes, InitNest, InitPorts, InitNoFault, PTL DEF Spec

-----------------------------------------------------------------------------
(***************************************************************************)
(* Why a pause is sound.  What follows holds in any session that has not   *)
(* failed, whatever has gone wrong on the way: the three orders of events  *)
(* that the code does not stand leave some of Good behind, but not all.    *)
(***************************************************************************)

ResumeOuts == { <<StartOut, ResumeOut>>, <<ResumeOut, ResumeOut>> }

\* CmdBars, but that the input may be resumed behind a start of the output.
SteadyCmdBars == (CmdBars \ { <<StartOut, ResumeIn>> }) \cup ResumeOuts

\* MsgBars, but that a last buffer may be followed by the next settings change.
SteadyMsgBars == MsgBars \ { <<PscLast, Ipsc>>, <<PscLast, PscLast>> }

OutThenIn == { <<StartOut, ResumeIn>> }
TwoLasts  == { <<PscLast, PscLast>> }

SteadyOrder == Ordered(cmds, SteadyCmdBars) /\ Ordered(msgs, SteadyMsgBars)

OutPaused == "OUTPUT_PAUSE" \in sub

\* The firmware is known to say no more of the input.
InputOver == ~Streaming("in") \/ "in" \in signal

SteadyHeard ==
  /\ Said(Ipsc) \/ Said(DrainDone) \/ Said(PscLast) \/ (decode /\ Said(DrainLast)) =>
       Streaming("in") /\ "in" \notin signal
  /\ Said(PscLast) => Streaming("out")
  /\ Said(DrainLast) => Streaming("out") \/ (decode /\ client = "in")
  /\ Said(PscLast) \/ Said(DrainLast) => "out" \notin signal /\ ~Sent(StartOut)
  /\ ~decode => /\ ~Said(Ipsc) /\ ~Said(PscLast) /\ fw.psc = "none"
                /\ "DRC" \notin sub /\ "FIRST_IPSC" \notin sub /\ ~Sent(ResumeOut)

\* The output of an encoder may be stopped while it owes the end of a drain.
SteadySequences ==
  /\ fw.psc # "none" => /\ fw.in = "pause" /\ fw.drain # "last"
                        /\ ~Said(DrainLast) /\ ~Said(DrainDone)
  /\ fw.psc = "last" => fw.out # "stop"
  /\ fw.drain = "last" /\ decode =>
       fw.out # "stop" /\ fw.in = "pause" /\ ~Sent(ResumeIn)
  /\ fw.drain = "last" /\ Said(DrainDone) /\ fw.out = "stop" => client = "in"
  /\ fw.drain = "asked" => fw.in # "stop"
  /\ decode /\ fw.in = "stop" => fw.drain = "none"

SteadyDrain ==
  /\ DrainWaits <=> Sent(Drain) \/ fw.drain # "none" \/ Said(DrainLast)
  /\ Sent(Drain) => fw.drain = "none" /\ ~Said(DrainLast)
  /\ Said(DrainLast) => fw.drain = "none"
  /\ Said(DrainDone) => DrainWaits /\ fw.drain # "asked" /\ ~Sent(Drain)
  /\ fw.drain = "last" /\ decode => Paused \/ Said(DrainDone)
  /\ (fw.drain = "last" \/ Said(DrainLast)) /\ "DRC_LAST" \in sub => client = "in"
  /\ decode /\ InputOver => ~DrainWaits

\* A settings change handled too late waits for nothing.  The next one then
\* fails, whatever the firmware says in between.
SteadyDrc ==
  /\ \/ fw.psc = "last" \/ Said(PscLast)
     \/ fw.psc = "seen" /\ Sent(StartOut) /\ ~Sent(ResumeIn)
     => DrcWaits \/ Said(Ipsc)
  /\ Ordered(cmds, OutThenIn) \/ fw.psc = "none" \/ DrcWaits
  /\ Said(PscLast) => /\ fw.drain # "last"
                      /\ Said(DrainLast) => client = "in"
  /\ (Said(PscLast) /\ fw.psc = "last") \/ ~Ordered(msgs, TwoLasts) =>
       DrcWaits /\ Said(Ipsc)
  /\ Sent(StartOut) => "DRC_LAST" \notin sub
  /\ InputOver => ~DrcWaits
  /\ Said(Ipsc) /\ client # "in" =>
       \/ fw.psc = "last"
       \/ fw.psc = "seen" /\ (Said(PscLast) \/ fw.out = "stop")

SteadyInput ==
  /\ "DRC_LAST" \in sub => Paused
  /\ Paused /\ (fw.in = "run" \/ Sent(StartIn)) => Sent(PauseIn)
  /\ Sent(PauseIn) => /\ Paused \/ Sent(ResumeIn)
                      /\ fw.in # "pause" /\ fw.drain # "asked"
                      /\ fw.in = "stop" \/ fw.data = "none"
  /\ Sent(ResumeIn) => /\ ~Paused
                       /\ fw.in = "run" => Sent(PauseIn)
                       /\ Streaming("in") \/ sub \cap {"DRC", "DRAIN", "FIRST_IPSC"} = {}
  /\ Ordered(cmds, LateResume) \/ Sent(PauseIn)
  /\ fw.in = "pause" /\ ~Paused => Said(Ipsc) \/ Said(DrainDone) \/ Sent(ResumeIn)
  /\ Said(Ipsc) => ~Paused
  /\ \/ Said(Ipsc) \/ Said(DrainDone) \/ Said(StopDoneIn)
     \/ decode /\ Said(DrainLast)
     => fw.in # "run" /\ ~Sent(ResumeIn) /\ ~Sent(StartIn)
  /\ Sent(Etb) \/ Sent(Drain) \/ Sent(PauseIn) =>
       Streaming("in") /\ (fw.in # "stop" \/ Sent(StartIn))

\* The output of a decoder is paused for the driver when it is for the
\* firmware, or what makes it so is in flight.
SteadyOutput ==
  /\ decode /\ Streaming("out") /\ OutPaused /\ client # "out" => fw.out = "pause"
  /\ decode /\ fw.out = "pause" /\ ~OutPaused =>
       Said(PscLast) \/ Said(DrainLast) \/ Sent(ResumeOut)
  /\ decode /\ Sent(StartOut) => ~OutPaused
  /\ Sent(ResumeOut) => ~OutPaused /\ fw.out # "run"
  /\ Said(PscLast) /\ fw.out # "stop" => ~OutPaused
  /\ decode /\ fw.out = "run" /\ Streaming("out") => ~OutPaused
  /\ fw.psc = "last" /\ fw.out = "pause" => ~OutPaused
  /\ Said(PscLast) \/ (decode /\ Said(DrainLast)) => fw.out # "run" /\ ~Sent(ResumeOut)
  /\ decode /\ OutPaused /\ fw.out = "pause" =>
       Paused /\ ("DRC_LAST" \in sub \/ "DRAIN_LAST" \in sub)

\* A pause of the input ends with a last buffer that has come, or comes.
PauseEnds ==
  state = "STREAMING" /\ Paused /\ client = "idle" =>
    \/ "DRC_LAST" \in sub \/ "DRAIN_LAST" \in sub
    \/ LastIsComing \/ fw.drain = "last" \/ Said(DrainLast)

Steady == /\ SteadyOrder /\ Calls /\ SteadyHeard /\ SteadySequences
          /\ SteadyDrain /\ SteadyDrc /\ SteadyInput /\ SteadyOutput /\ PauseEnds

\* The session has not failed and no failure of it is under way.
Fine == /\ Well /\ alive /\ packet
        /\ client \in vb2 \cup {"idle"} /\ ~Said(<<"error">>)

PausesKnown == Fine => Steady

\* A series in order is in order for less.
LEMMA OrderedLess ==
  ASSUME NEW s, NEW R, NEW Q, Q \subseteq R, Ordered(s, R)
  PROVE  Ordered(s, Q)
BY DEF Ordered

LEMMA FewerBars ==
  /\ SteadyMsgBars \subseteq MsgBars
  /\ SteadyCmdBars \subseteq CmdBars \cup ResumeOuts
BY DEF SteadyMsgBars, SteadyCmdBars

\* A command taken.
LEMMA SteadyTaken ==
  ASSUME TypeOK, SteadyOrder, cmds # << >>, cmds' = Tail(cmds)
  PROVE  /\ \A m : Sent(m) <=> Head(cmds) = m \/ Sent(m)'
         /\ \A m : Sent(m)' => <<Head(cmds), m>> \notin SteadyCmdBars
         /\ Ordered(cmds', SteadyCmdBars)
         /\ \A R : Ordered(cmds, R) =>
              /\ Ordered(cmds', R)
              /\ \A m : Sent(m)' => <<Head(cmds), m>> \notin R
<1>1. cmds \in Seq(Cmds) /\ Ordered(cmds, SteadyCmdBars) BY DEF TypeOK, SteadyOrder
<1>2. \A m : Sent(m) <=> Head(cmds) = m \/ Sent(m)'
  BY <1>1, InFlightHead DEF Sent
<1>3. ASSUME NEW R, Ordered(cmds, R)
      PROVE  /\ Ordered(cmds', R)
             /\ \A m : Sent(m)' => <<Head(cmds), m>> \notin R
  BY <1>1, <1>3, OrderedRest DEF Sent
<1> QED BY <1>1, <1>2, <1>3

\* What does not follow the command the firmware takes.
LEMMA SteadyFollowers ==
  ASSUME TypeOK, SteadyOrder, cmds # << >>, cmds' = Tail(cmds)
  PROVE  /\ Head(cmds) = StartIn => ~Sent(StartIn)'
         /\ Head(cmds) = StartOut => ~Sent(StartOut)' /\ ~Sent(ResumeOut)'
         /\ Head(cmds) = PauseIn => ~Sent(StartIn)' /\ ~Sent(PauseIn)'
         /\ Head(cmds) = ResumeIn => ~Sent(ResumeIn)' /\ ~Sent(PauseIn)'
         /\ Head(cmds) = ResumeOut => ~Sent(ResumeOut)'
         /\ Head(cmds) = Drain => ~Sent(StartIn)' /\ ~Sent(PauseIn)' /\ ~Sent(Drain)'
         /\ Head(cmds) = Etb => ~Sent(StartIn)' /\ ~Sent(PauseIn)'
         /\ Head(cmds) = StartIn /\ Ordered(cmds, LateResume) => ~Sent(ResumeIn)'
         /\ Head(cmds) = StartOut /\ Ordered(cmds, OutThenIn) => ~Sent(ResumeIn)'
         /\ Ordered(cmds, LateResume) => Ordered(cmds', LateResume)
         /\ Ordered(cmds, OutThenIn) => Ordered(cmds', OutThenIn)
<1>1. \A m : Sent(m)' => <<Head(cmds), m>> \notin SteadyCmdBars BY SteadyTaken
<1>2. Ordered(cmds, LateResume) =>
        /\ Ordered(cmds', LateResume)
        /\ \A m : Sent(m)' => <<Head(cmds), m>> \notin LateResume
  BY SteadyTaken
<1>3. Ordered(cmds, OutThenIn) =>
        /\ Ordered(cmds', OutThenIn)
        /\ \A m : Sent(m)' => <<Head(cmds), m>> \notin OutThenIn
  BY SteadyTaken
<1>4. /\ <<StartIn, StartIn>> \in CmdBars
      /\ <<StartOut, StartOut>> \in CmdBars
      /\ <<PauseIn, StartIn>> \in CmdBars /\ <<PauseIn, PauseIn>> \in CmdBars
      /\ <<ResumeIn, ResumeIn>> \in CmdBars /\ <<ResumeIn, PauseIn>> \in CmdBars
      /\ <<Drain, StartIn>> \in CmdBars /\ <<Drain, PauseIn>> \in CmdBars
      /\ <<Drain, Drain>> \in CmdBars
      /\ <<Etb, StartIn>> \in CmdBars /\ <<Etb, PauseIn>> \in CmdBars
      /\ <<StartIn, ResumeIn>> \in LateResume /\ <<StartOut, ResumeIn>> \in OutThenIn
      /\ <<StartOut, ResumeOut>> \in ResumeOuts /\ <<ResumeOut, ResumeOut>> \in ResumeOuts
  BY DEF CmdBars, LateResume, OutThenIn, ResumeOuts
<1>5. /\ \A a, b : <<a, b>> \in CmdBars /\ (a # StartOut \/ b # ResumeIn) =>
                     <<a, b>> \in SteadyCmdBars
      /\ \A a, b : <<a, b>> \in ResumeOuts => <<a, b>> \in SteadyCmdBars
  BY DEF SteadyCmdBars
<1>6. /\ <<StartIn, StartIn>> \in SteadyCmdBars
      /\ <<StartOut, StartOut>> \in SteadyCmdBars /\ <<StartOut, ResumeOut>> \in SteadyCmdBars
      /\ <<PauseIn, StartIn>> \in SteadyCmdBars /\ <<PauseIn, PauseIn>> \in SteadyCmdBars
      /\ <<ResumeIn, ResumeIn>> \in SteadyCmdBars /\ <<ResumeIn, PauseIn>> \in SteadyCmdBars
      /\ <<ResumeOut, ResumeOut>> \in SteadyCmdBars
      /\ <<Drain, StartIn>> \in SteadyCmdBars /\ <<Drain, PauseIn>> \in SteadyCmdBars
      /\ <<Drain, Drain>> \in SteadyCmdBars
      /\ <<Etb, StartIn>> \in SteadyCmdBars /\ <<Etb, PauseIn>> \in SteadyCmdBars
  BY <1>4, <1>5, CommandsDiffer
<1> QED BY <1>1, <1>2, <1>3, <1>4, <1>6

\* Nothing follows a stop.
LEMMA SteadyStopIsLast ==
  ASSUME TypeOK, SteadyOrder, cmds # << >>, cmds' = Tail(cmds),
         Head(cmds) \in {StopIn, StopOut}
  PROVE  cmds' = << >> /\ \A m : ~Sent(m)'
<1>1. cmds \in Seq(Cmds) BY DEF TypeOK
<1>2. Tail(cmds) \in Seq(Cmds) BY <1>1
<1>3. ASSUME Tail(cmds) # << >> PROVE FALSE
  <2>1. PICK b : b = Head(Tail(cmds)) OBVIOUS
  <2>2. b \in Cmds BY <1>2, <1>3, <2>1
  <2>3. InFlight(b, Tail(cmds))
    BY <1>2, <1>3, <2>1, InFlightHead
  <2>4. Sent(b)' BY <2>3 DEF Sent
  <2>5. <<Head(cmds), b>> \in CmdBars BY <2>2 DEF CmdBars
  <2>6. <<Head(cmds), b>> \in SteadyCmdBars
    BY <2>5, CommandsDiffer DEF SteadyCmdBars
  <2> QED BY <2>4, <2>6, SteadyTaken
<1>4. cmds' = << >> BY <1>2, <1>3
<1> QED BY <1>4, NothingInFlight DEF Sent

\* An order of two packets one of which is not there.
LEMMA NotThere ==
  ASSUME NEW s, NEW a, NEW b, ~InFlight(a, s) \/ ~InFlight(b, s)
  PROVE  Ordered(s, { <<a, b>> })
<1>1. \A i \in 1..Len(s) : InFlight(s[i], s) BY DEF InFlight
<1>2. SUFFICES ASSUME NEW i \in 1..Len(s), NEW j \in 1..Len(s)
               PROVE  <<s[i], s[j]>> \notin { <<a, b>> }
  BY DEF Ordered
<1> QED BY <1>1, <1>2

LEMMA NoLateResume ==
  /\ ~Sent(StartIn) \/ ~Sent(ResumeIn) => Ordered(cmds, LateResume)
  /\ ~Sent(StartIn)' \/ ~Sent(ResumeIn)' => Ordered(cmds', LateResume)
  /\ ~Sent(StartOut) \/ ~Sent(ResumeIn) => Ordered(cmds, OutThenIn)
  /\ ~Sent(StartOut)' \/ ~Sent(ResumeIn)' => Ordered(cmds', OutThenIn)
  /\ ~Said(PscLast) => Ordered(msgs, TwoLasts)
  /\ ~Said(PscLast)' => Ordered(msgs', TwoLasts)
BY NotThere DEF Sent, Said, LateResume, OutThenIn, TwoLasts

\* What the driver knows when the firmware moves.
LEMMA SteadyDriver ==
  ASSUME UNCHANGED <<session, client, signal>>
  PROVE  /\ Streaming("in")' <=> Streaming("in")
         /\ Streaming("out")' <=> Streaming("out")
         /\ Paused' <=> Paused
         /\ OutPaused' <=> OutPaused
         /\ DrcWaits' <=> DrcWaits
         /\ DrainWaits' <=> DrainWaits
         /\ InputOver' <=> InputOver
         /\ client' = client /\ signal' = signal /\ sub' = sub /\ state' = state
         /\ decode' = decode /\ SteadyMsgBars' = SteadyMsgBars
BY DEF session, Streaming, Paused, OutPaused, DrcWaits, DrainWaits, InputOver, MsgBars,
       SteadyMsgBars

LEMMA SteadyIs ==
  ASSUME Steady
  PROVE  /\ SteadyOrder /\ Calls /\ SteadyHeard /\ SteadySequences /\ SteadyDrain
         /\ SteadyDrc /\ SteadyInput /\ SteadyOutput /\ PauseEnds
         /\ Call("in", StartIn, StopIn, StopDoneIn)
         /\ Call("out", StartOut, StopOut, StopDoneOut)
BY DEF Steady, Calls

\* What is known when the firmware has taken a command and said nothing.
LEMMA SteadyTakes ==
  ASSUME TypeOK, Steady, UNCHANGED <<session, client, signal, msgs>>,
         cmds # << >>, cmds' = Tail(cmds)
  PROVE  /\ \A m : Said(m)' <=> Said(m)
         /\ \A m : Sent(m) <=> Head(cmds) = m \/ Sent(m)'
         /\ Ordered(msgs', TwoLasts) <=> Ordered(msgs, TwoLasts)
         /\ SteadyOrder'
<1>1. SteadyOrder BY SteadyIs
<1>2. UNCHANGED <<session, client, signal>> /\ msgs' = msgs OBVIOUS
<1>3. \A m : Sent(m) <=> Head(cmds) = m \/ Sent(m)' BY <1>1, SteadyTaken
<1>4. Ordered(cmds', SteadyCmdBars) BY <1>1, SteadyTaken
<1>5. Ordered(msgs, SteadyMsgBars) BY <1>1 DEF SteadyOrder
<1>6. SteadyMsgBars' = SteadyMsgBars BY <1>2, SteadyDriver
<1>7. SteadyOrder' BY <1>2, <1>4, <1>5, <1>6 DEF SteadyOrder
<1>8. \A m : Said(m)' <=> Said(m) BY <1>2 DEF Said
<1> QED BY <1>2, <1>3, <1>7, <1>8

\* The firmware starts its input.
LEMMA SteadyStartInTaken ==
  ASSUME TypeOK, Steady, UNCHANGED <<session, client, signal, msgs>>,
         cmds # << >>, cmds' = Tail(cmds), Head(cmds) = StartIn,
         fw' = [fw EXCEPT !.in = "run", !.data = "none"]
  PROVE  Steady'
<1>g. /\ SteadyOrder /\ Calls /\ SteadyHeard /\ SteadySequences /\ SteadyDrain
      /\ SteadyDrc /\ SteadyInput /\ SteadyOutput /\ PauseEnds
      /\ Call("in", StartIn, StopIn, StopDoneIn)
      /\ Call("out", StartOut, StopOut, StopDoneOut)
  BY SteadyIs
<1>d. /\ Streaming("in")' <=> Streaming("in")
      /\ Streaming("out")' <=> Streaming("out")
      /\ Paused' <=> Paused
      /\ OutPaused' <=> OutPaused
      /\ DrcWaits' <=> DrcWaits
      /\ DrainWaits' <=> DrainWaits
      /\ InputOver' <=> InputOver
      /\ client' = client /\ signal' = signal /\ sub' = sub /\ state' = state
      /\ decode' = decode
  BY SteadyDriver
<1>s. /\ \A m : Said(m)' <=> Said(m)
      /\ Ordered(msgs', TwoLasts) <=> Ordered(msgs, TwoLasts)
  BY SteadyTakes
<1>c. /\ Sent(StartIn)
      /\ Sent(StartOut)' <=> Sent(StartOut)
      /\ Sent(StopIn)' <=> Sent(StopIn)
      /\ Sent(StopOut)' <=> Sent(StopOut)
      /\ Sent(PauseIn)' <=> Sent(PauseIn)
      /\ Sent(ResumeIn)' <=> Sent(ResumeIn)
      /\ Sent(ResumeOut)' <=> Sent(ResumeOut)
      /\ Sent(Drain)' <=> Sent(Drain)
      /\ Sent(Etb)' <=> Sent(Etb)
      /\ Sent(<<"close">>)' <=> Sent(<<"close">>)
  BY SteadyTakes, CommandsDiffer
<1>r. /\ ~Sent(StartIn)'
      /\ Ordered(cmds, LateResume) => ~Sent(ResumeIn)'
      /\ Ordered(cmds, LateResume) => Ordered(cmds', LateResume)
      /\ Ordered(cmds, OutThenIn) => Ordered(cmds', OutThenIn)
  BY <1>g, SteadyFollowers
<1>f. /\ fw'.in = "run"
      /\ fw'.out = fw.out
      /\ fw'.data = "none"
      /\ fw'.psc = fw.psc
      /\ fw'.drain = fw.drain
  BY FwTyped
<1>o. SteadyOrder'
  BY SteadyTakes
<1>1. Call("in", StartIn, StopIn, StopDoneIn)'
  BY <1>g, <1>d, <1>s, <1>c, <1>r, <1>f, FwTyped DEF Call
<1>2. Call("out", StartOut, StopOut, StopDoneOut)'
  BY <1>g, <1>d, <1>s, <1>c, <1>r, <1>f, FwTyped DEF Call
<1>3. Calls'
  BY <1>g, <1>d, <1>s, <1>c, <1>r, <1>f, <1>1, <1>2 DEF Calls
<1>4. SteadyHeard'
  BY <1>g, <1>d, <1>s, <1>c, <1>r, <1>f, FwTyped DEF SteadyHeard
<1>5. SteadySequences'
  BY <1>g, <1>d, <1>s, <1>c, <1>r, <1>f, FwTyped DEF SteadySequences, Call
<1>6. SteadyDrain'
  BY <1>g, <1>d, <1>s, <1>c, <1>r, <1>f, FwTyped DEF SteadyDrain
<1>7. SteadyDrc'
  BY <1>g, <1>d, <1>s, <1>c, <1>r, <1>f, FwTyped, NoLateResume DEF SteadyDrc
<1>8. SteadyInput'
  BY <1>g, <1>d, <1>s, <1>c, <1>r, <1>f, FwTyped, NoLateResume DEF SteadyInput
<1>9. SteadyOutput'
  BY <1>g, <1>d, <1>s, <1>c, <1>r, <1>f, FwTyped DEF SteadyOutput
<1>10. PauseEnds'
  BY <1>g, <1>d, <1>s, <1>c, <1>r, <1>f, FwTyped, LastComes DEF PauseEnds
<1> QED BY <1>o, <1>3, <1>4, <1>5, <1>6, <1>7, <1>8, <1>9, <1>10 DEF Steady

\* The firmware starts its output, and owes the last buffer it had not sent.
LEMMA SteadyStartOutTaken ==
  ASSUME TypeOK, Steady, UNCHANGED <<session, client, signal, msgs>>,
         cmds # << >>, cmds' = Tail(cmds), Head(cmds) = StartOut,
         fw' = [fw EXCEPT !.out = "run", !.psc = IF @ = "seen" THEN "last" ELSE @]
  PROVE  Steady'
<1>g. /\ SteadyOrder /\ Calls /\ SteadyHeard /\ SteadySequences /\ SteadyDrain
      /\ SteadyDrc /\ SteadyInput /\ SteadyOutput /\ PauseEnds
      /\ Call("in", StartIn, StopIn, StopDoneIn)
      /\ Call("out", StartOut, StopOut, StopDoneOut)
  BY SteadyIs
<1>d. /\ Streaming("in")' <=> Streaming("in")
      /\ Streaming("out")' <=> Streaming("out")
      /\ Paused' <=> Paused
      /\ OutPaused' <=> OutPaused
      /\ DrcWaits' <=> DrcWaits
      /\ DrainWaits' <=> DrainWaits
      /\ InputOver' <=> InputOver
      /\ client' = client /\ signal' = signal /\ sub' = sub /\ state' = state
      /\ decode' = decode
  BY SteadyDriver
<1>s. /\ \A m : Said(m)' <=> Said(m)
      /\ Ordered(msgs', TwoLasts) <=> Ordered(msgs, TwoLasts)
  BY SteadyTakes
<1>c. /\ Sent(StartOut)
      /\ Sent(StartIn)' <=> Sent(StartIn)
      /\ Sent(StopIn)' <=> Sent(StopIn)
      /\ Sent(StopOut)' <=> Sent(StopOut)
      /\ Sent(PauseIn)' <=> Sent(PauseIn)
      /\ Sent(ResumeIn)' <=> Sent(ResumeIn)
      /\ Sent(ResumeOut)' <=> Sent(ResumeOut)
      /\ Sent(Drain)' <=> Sent(Drain)
      /\ Sent(Etb)' <=> Sent(Etb)
      /\ Sent(<<"close">>)' <=> Sent(<<"close">>)
  BY SteadyTakes, CommandsDiffer
<1>r. /\ ~Sent(StartOut)' /\ ~Sent(ResumeOut)'
      /\ Ordered(cmds, OutThenIn) => ~Sent(ResumeIn)'
      /\ Ordered(cmds, LateResume) => Ordered(cmds', LateResume)
      /\ Ordered(cmds, OutThenIn) => Ordered(cmds', OutThenIn)
  BY <1>g, SteadyFollowers
<1>f. /\ fw'.in = fw.in
      /\ fw'.out = "run"
      /\ fw'.data = fw.data
      /\ fw'.psc = IF fw.psc = "seen" THEN "last" ELSE fw.psc
      /\ fw'.drain = fw.drain
  BY FwTyped
<1>o. SteadyOrder'
  BY SteadyTakes
<1>1. Call("in", StartIn, StopIn, StopDoneIn)'
  BY <1>g, <1>d, <1>s, <1>c, <1>r, <1>f, FwTyped DEF Call
<1>2. Call("out", StartOut, StopOut, StopDoneOut)'
  BY <1>g, <1>d, <1>s, <1>c, <1>r, <1>f, FwTyped DEF Call
<1>3. Calls'
  BY <1>g, <1>d, <1>s, <1>c, <1>r, <1>f, <1>1, <1>2 DEF Calls
<1>4. SteadyHeard'
  BY <1>g, <1>d, <1>s, <1>c, <1>r, <1>f, FwTyped DEF SteadyHeard
<1>5. SteadySequences'
  BY <1>g, <1>d, <1>s, <1>c, <1>r, <1>f, FwTyped DEF SteadySequences, Call
<1>6. SteadyDrain'
  BY <1>g, <1>d, <1>s, <1>c, <1>r, <1>f, FwTyped DEF SteadyDrain
<1>7. SteadyDrc'
  BY <1>g, <1>d, <1>s, <1>c, <1>r, <1>f, FwTyped, NoLateResume
     DEF SteadyDrc, SteadyHeard, Call, SteadySequences
<1>8. SteadyInput'
  BY <1>g, <1>d, <1>s, <1>c, <1>r, <1>f, FwTyped, NoLateResume DEF SteadyInput
<1>9. SteadyOutput'
  BY <1>g, <1>d, <1>s, <1>c, <1>r, <1>f, FwTyped DEF SteadyOutput, SteadyHeard
<1>10. PauseEnds'
  BY <1>g, <1>d, <1>s, <1>c, <1>r, <1>f, FwTyped, LastComes DEF PauseEnds
<1> QED BY <1>o, <1>3, <1>4, <1>5, <1>6, <1>7, <1>8, <1>9, <1>10 DEF Steady

\* The firmware pauses its input.
LEMMA SteadyPauseInTaken ==
  ASSUME TypeOK, Steady, UNCHANGED <<session, client, signal, msgs>>,
         cmds # << >>, cmds' = Tail(cmds), Head(cmds) = PauseIn,
         fw' = [fw EXCEPT !.in = IF @ = "run" THEN "pause" ELSE @]
  PROVE  Steady'
<1>g. /\ SteadyOrder /\ Calls /\ SteadyHeard /\ SteadySequences /\ SteadyDrain
      /\ SteadyDrc /\ SteadyInput /\ SteadyOutput /\ PauseEnds
      /\ Call("in", StartIn, StopIn, StopDoneIn)
      /\ Call("out", StartOut, StopOut, StopDoneOut)
  BY SteadyIs
<1>d. /\ Streaming("in")' <=> Streaming("in")
      /\ Streaming("out")' <=> Streaming("out")
      /\ Paused' <=> Paused
      /\ OutPaused' <=> OutPaused
      /\ DrcWaits' <=> DrcWaits
      /\ DrainWaits' <=> DrainWaits
      /\ InputOver' <=> InputOver
      /\ client' = client /\ signal' = signal /\ sub' = sub /\ state' = state
      /\ decode' = decode
  BY SteadyDriver
<1>s. /\ \A m : Said(m)' <=> Said(m)
      /\ Ordered(msgs', TwoLasts) <=> Ordered(msgs, TwoLasts)
  BY SteadyTakes
<1>c. /\ Sent(PauseIn)
      /\ Sent(StartIn)' <=> Sent(StartIn)
      /\ Sent(StartOut)' <=> Sent(StartOut)
      /\ Sent(StopIn)' <=> Sent(StopIn)
      /\ Sent(StopOut)' <=> Sent(StopOut)
      /\ Sent(ResumeIn)' <=> Sent(ResumeIn)
      /\ Sent(ResumeOut)' <=> Sent(ResumeOut)
      /\ Sent(Drain)' <=> Sent(Drain)
      /\ Sent(Etb)' <=> Sent(Etb)
      /\ Sent(<<"close">>)' <=> Sent(<<"close">>)
  BY SteadyTakes, CommandsDiffer
<1>r. /\ ~Sent(StartIn)' /\ ~Sent(PauseIn)'
      /\ Ordered(cmds, LateResume) => Ordered(cmds', LateResume)
      /\ Ordered(cmds, OutThenIn) => Ordered(cmds', OutThenIn)
  BY <1>g, SteadyFollowers
<1>f. /\ fw'.in = IF fw.in = "run" THEN "pause" ELSE fw.in
      /\ fw'.out = fw.out
      /\ fw'.data = fw.data
      /\ fw'.psc = fw.psc
      /\ fw'.drain = fw.drain
  BY FwTyped
<1>o. SteadyOrder'
  BY SteadyTakes
<1>1. Call("in", StartIn, StopIn, StopDoneIn)'
  BY <1>g, <1>d, <1>s, <1>c, <1>r, <1>f, FwTyped DEF Call
<1>2. Call("out", StartOut, StopOut, StopDoneOut)'
  BY <1>g, <1>d, <1>s, <1>c, <1>r, <1>f, FwTyped DEF Call
<1>3. Calls'
  BY <1>g, <1>d, <1>s, <1>c, <1>r, <1>f, <1>1, <1>2 DEF Calls
<1>4. SteadyHeard'
  BY <1>g, <1>d, <1>s, <1>c, <1>r, <1>f, FwTyped DEF SteadyHeard
<1>5. SteadySequences'
  BY <1>g, <1>d, <1>s, <1>c, <1>r, <1>f, FwTyped DEF SteadySequences
<1>6. SteadyDrain'
  BY <1>g, <1>d, <1>s, <1>c, <1>r, <1>f, FwTyped DEF SteadyDrain
<1>7. SteadyDrc'
  BY <1>g, <1>d, <1>s, <1>c, <1>r, <1>f, FwTyped, NoLateResume DEF SteadyDrc
<1>8. SteadyInput'
  BY <1>g, <1>d, <1>s, <1>c, <1>r, <1>f, FwTyped, NoLateResume DEF SteadyInput
<1>9. SteadyOutput'
  BY <1>g, <1>d, <1>s, <1>c, <1>r, <1>f, FwTyped DEF SteadyOutput
<1>10. PauseEnds'
  BY <1>g, <1>d, <1>s, <1>c, <1>r, <1>f, FwTyped, LastComes DEF PauseEnds
<1> QED BY <1>o, <1>3, <1>4, <1>5, <1>6, <1>7, <1>8, <1>9, <1>10 DEF Steady

\* The firmware resumes its input.
LEMMA SteadyResumeInTaken ==
  ASSUME TypeOK, Steady, UNCHANGED <<session, client, signal, msgs>>,
         cmds # << >>, cmds' = Tail(cmds), Head(cmds) = ResumeIn,
         fw' = [fw EXCEPT !.in = IF @ = "pause" THEN "run" ELSE @, !.psc = "none"]
  PROVE  Steady'
<1>g. /\ SteadyOrder /\ Calls /\ SteadyHeard /\ SteadySequences /\ SteadyDrain
      /\ SteadyDrc /\ SteadyInput /\ SteadyOutput /\ PauseEnds
      /\ Call("in", StartIn, StopIn, StopDoneIn)
      /\ Call("out", StartOut, StopOut, StopDoneOut)
  BY SteadyIs
<1>d. /\ Streaming("in")' <=> Streaming("in")
      /\ Streaming("out")' <=> Streaming("out")
      /\ Paused' <=> Paused
      /\ OutPaused' <=> OutPaused
      /\ DrcWaits' <=> DrcWaits
      /\ DrainWaits' <=> DrainWaits
      /\ InputOver' <=> InputOver
      /\ client' = client /\ signal' = signal /\ sub' = sub /\ state' = state
      /\ decode' = decode
  BY SteadyDriver
<1>s. /\ \A m : Said(m)' <=> Said(m)
      /\ Ordered(msgs', TwoLasts) <=> Ordered(msgs, TwoLasts)
  BY SteadyTakes
<1>c. /\ Sent(ResumeIn)
      /\ Sent(StartIn)' <=> Sent(StartIn)
      /\ Sent(StartOut)' <=> Sent(StartOut)
      /\ Sent(StopIn)' <=> Sent(StopIn)
      /\ Sent(StopOut)' <=> Sent(StopOut)
      /\ Sent(PauseIn)' <=> Sent(PauseIn)
      /\ Sent(ResumeOut)' <=> Sent(ResumeOut)
      /\ Sent(Drain)' <=> Sent(Drain)
      /\ Sent(Etb)' <=> Sent(Etb)
      /\ Sent(<<"close">>)' <=> Sent(<<"close">>)
  BY SteadyTakes, CommandsDiffer
<1>r. /\ ~Sent(ResumeIn)' /\ ~Sent(PauseIn)'
      /\ Ordered(cmds, LateResume) => Ordered(cmds', LateResume)
      /\ Ordered(cmds, OutThenIn) => Ordered(cmds', OutThenIn)
  BY <1>g, SteadyFollowers
<1>f. /\ fw'.in = IF fw.in = "pause" THEN "run" ELSE fw.in
      /\ fw'.out = fw.out
      /\ fw'.data = fw.data
      /\ fw'.psc = "none"
      /\ fw'.drain = fw.drain
  BY FwTyped
<1>o. SteadyOrder'
  BY SteadyTakes
<1>1. Call("in", StartIn, StopIn, StopDoneIn)'
  BY <1>g, <1>d, <1>s, <1>c, <1>r, <1>f, FwTyped DEF Call
<1>2. Call("out", StartOut, StopOut, StopDoneOut)'
  BY <1>g, <1>d, <1>s, <1>c, <1>r, <1>f, FwTyped DEF Call
<1>3. Calls'
  BY <1>g, <1>d, <1>s, <1>c, <1>r, <1>f, <1>1, <1>2 DEF Calls
<1>4. SteadyHeard'
  BY <1>g, <1>d, <1>s, <1>c, <1>r, <1>f, FwTyped DEF SteadyHeard
<1>5. SteadySequences'
  BY <1>g, <1>d, <1>s, <1>c, <1>r, <1>f, FwTyped DEF SteadySequences
<1>6. SteadyDrain'
  BY <1>g, <1>d, <1>s, <1>c, <1>r, <1>f, FwTyped DEF SteadyDrain
<1>7. SteadyDrc'
  BY <1>g, <1>d, <1>s, <1>c, <1>r, <1>f, FwTyped, NoLateResume DEF SteadyDrc, SteadyInput
<1>8. SteadyInput'
  BY <1>g, <1>d, <1>s, <1>c, <1>r, <1>f, FwTyped, NoLateResume DEF SteadyInput
<1>9. SteadyOutput'
  BY <1>g, <1>d, <1>s, <1>c, <1>r, <1>f, FwTyped DEF SteadyOutput
<1>10. PauseEnds'
  BY <1>g, <1>d, <1>s, <1>c, <1>r, <1>f, FwTyped, LastComes DEF PauseEnds, SteadyInput
<1> QED BY <1>o, <1>3, <1>4, <1>5, <1>6, <1>7, <1>8, <1>9, <1>10 DEF Steady

\* The firmware resumes its output.
LEMMA SteadyResumeOutTaken ==
  ASSUME TypeOK, Steady, UNCHANGED <<session, client, signal, msgs>>,
         cmds # << >>, cmds' = Tail(cmds), Head(cmds) = ResumeOut,
         fw' = [fw EXCEPT !.out = IF @ = "pause" THEN "run" ELSE @]
  PROVE  Steady'
<1>g. /\ SteadyOrder /\ Calls /\ SteadyHeard /\ SteadySequences /\ SteadyDrain
      /\ SteadyDrc /\ SteadyInput /\ SteadyOutput /\ PauseEnds
      /\ Call("in", StartIn, StopIn, StopDoneIn)
      /\ Call("out", StartOut, StopOut, StopDoneOut)
  BY SteadyIs
<1>d. /\ Streaming("in")' <=> Streaming("in")
      /\ Streaming("out")' <=> Streaming("out")
      /\ Paused' <=> Paused
      /\ OutPaused' <=> OutPaused
      /\ DrcWaits' <=> DrcWaits
      /\ DrainWaits' <=> DrainWaits
      /\ InputOver' <=> InputOver
      /\ client' = client /\ signal' = signal /\ sub' = sub /\ state' = state
      /\ decode' = decode
  BY SteadyDriver
<1>s. /\ \A m : Said(m)' <=> Said(m)
      /\ Ordered(msgs', TwoLasts) <=> Ordered(msgs, TwoLasts)
  BY SteadyTakes
<1>c. /\ Sent(ResumeOut)
      /\ Sent(StartIn)' <=> Sent(StartIn)
      /\ Sent(StartOut)' <=> Sent(StartOut)
      /\ Sent(StopIn)' <=> Sent(StopIn)
      /\ Sent(StopOut)' <=> Sent(StopOut)
      /\ Sent(PauseIn)' <=> Sent(PauseIn)
      /\ Sent(ResumeIn)' <=> Sent(ResumeIn)
      /\ Sent(Drain)' <=> Sent(Drain)
      /\ Sent(Etb)' <=> Sent(Etb)
      /\ Sent(<<"close">>)' <=> Sent(<<"close">>)
  BY SteadyTakes, CommandsDiffer
<1>r. /\ ~Sent(ResumeOut)'
      /\ Ordered(cmds, LateResume) => Ordered(cmds', LateResume)
      /\ Ordered(cmds, OutThenIn) => Ordered(cmds', OutThenIn)
  BY <1>g, SteadyFollowers
<1>f. /\ fw'.in = fw.in
      /\ fw'.out = IF fw.out = "pause" THEN "run" ELSE fw.out
      /\ fw'.data = fw.data
      /\ fw'.psc = fw.psc
      /\ fw'.drain = fw.drain
  BY FwTyped
<1>o. SteadyOrder'
  BY SteadyTakes
<1>1. Call("in", StartIn, StopIn, StopDoneIn)'
  BY <1>g, <1>d, <1>s, <1>c, <1>r, <1>f, FwTyped DEF Call
<1>2. Call("out", StartOut, StopOut, StopDoneOut)'
  BY <1>g, <1>d, <1>s, <1>c, <1>r, <1>f, FwTyped DEF Call
<1>3. Calls'
  BY <1>g, <1>d, <1>s, <1>c, <1>r, <1>f, <1>1, <1>2 DEF Calls
<1>4. SteadyHeard'
  BY <1>g, <1>d, <1>s, <1>c, <1>r, <1>f, FwTyped DEF SteadyHeard
<1>5. SteadySequences'
  BY <1>g, <1>d, <1>s, <1>c, <1>r, <1>f, FwTyped DEF SteadySequences
<1>6. SteadyDrain'
  BY <1>g, <1>d, <1>s, <1>c, <1>r, <1>f, FwTyped DEF SteadyDrain
<1>7. SteadyDrc'
  BY <1>g, <1>d, <1>s, <1>c, <1>r, <1>f, FwTyped, NoLateResume DEF SteadyDrc
<1>8. SteadyInput'
  BY <1>g, <1>d, <1>s, <1>c, <1>r, <1>f, FwTyped, NoLateResume DEF SteadyInput
<1>9. SteadyOutput'
  BY <1>g, <1>d, <1>s, <1>c, <1>r, <1>f, FwTyped DEF SteadyOutput
<1>10. PauseEnds'
  BY <1>g, <1>d, <1>s, <1>c, <1>r, <1>f, FwTyped, LastComes DEF PauseEnds
<1> QED BY <1>o, <1>3, <1>4, <1>5, <1>6, <1>7, <1>8, <1>9, <1>10 DEF Steady

\* The firmware is asked for a drain.
LEMMA SteadyDrainTaken ==
  ASSUME TypeOK, Steady, UNCHANGED <<session, client, signal, msgs>>,
         cmds # << >>, cmds' = Tail(cmds), Head(cmds) = Drain,
         fw' = [fw EXCEPT !.drain = "asked"]
  PROVE  Steady'
<1>g. /\ SteadyOrder /\ Calls /\ SteadyHeard /\ SteadySequences /\ SteadyDrain
      /\ SteadyDrc /\ SteadyInput /\ SteadyOutput /\ PauseEnds
      /\ Call("in", StartIn, StopIn, StopDoneIn)
      /\ Call("out", StartOut, StopOut, StopDoneOut)
  BY SteadyIs
<1>d. /\ Streaming("in")' <=> Streaming("in")
      /\ Streaming("out")' <=> Streaming("out")
      /\ Paused' <=> Paused
      /\ OutPaused' <=> OutPaused
      /\ DrcWaits' <=> DrcWaits
      /\ DrainWaits' <=> DrainWaits
      /\ InputOver' <=> InputOver
      /\ client' = client /\ signal' = signal /\ sub' = sub /\ state' = state
      /\ decode' = decode
  BY SteadyDriver
<1>s. /\ \A m : Said(m)' <=> Said(m)
      /\ Ordered(msgs', TwoLasts) <=> Ordered(msgs, TwoLasts)
  BY SteadyTakes
<1>c. /\ Sent(Drain)
      /\ Sent(StartIn)' <=> Sent(StartIn)
      /\ Sent(StartOut)' <=> Sent(StartOut)
      /\ Sent(StopIn)' <=> Sent(StopIn)
      /\ Sent(StopOut)' <=> Sent(StopOut)
      /\ Sent(PauseIn)' <=> Sent(PauseIn)
      /\ Sent(ResumeIn)' <=> Sent(ResumeIn)
      /\ Sent(ResumeOut)' <=> Sent(ResumeOut)
      /\ Sent(Etb)' <=> Sent(Etb)
      /\ Sent(<<"close">>)' <=> Sent(<<"close">>)
  BY SteadyTakes, CommandsDiffer
<1>r. /\ ~Sent(StartIn)' /\ ~Sent(PauseIn)' /\ ~Sent(Drain)'
      /\ Ordered(cmds, LateResume) => Ordered(cmds', LateResume)
      /\ Ordered(cmds, OutThenIn) => Ordered(cmds', OutThenIn)
  BY <1>g, SteadyFollowers
<1>f. /\ fw'.in = fw.in
      /\ fw'.out = fw.out
      /\ fw'.data = fw.data
      /\ fw'.psc = fw.psc
      /\ fw'.drain = "asked"
  BY FwTyped
<1>o. SteadyOrder'
  BY SteadyTakes
<1>1. Call("in", StartIn, StopIn, StopDoneIn)'
  BY <1>g, <1>d, <1>s, <1>c, <1>r, <1>f, FwTyped DEF Call
<1>2. Call("out", StartOut, StopOut, StopDoneOut)'
  BY <1>g, <1>d, <1>s, <1>c, <1>r, <1>f, FwTyped DEF Call
<1>3. Calls'
  BY <1>g, <1>d, <1>s, <1>c, <1>r, <1>f, <1>1, <1>2 DEF Calls
<1>4. SteadyHeard'
  BY <1>g, <1>d, <1>s, <1>c, <1>r, <1>f, FwTyped DEF SteadyHeard
<1>5. SteadySequences'
  BY <1>g, <1>d, <1>s, <1>c, <1>r, <1>f, FwTyped DEF SteadySequences, SteadyInput
<1>6. SteadyDrain'
  BY <1>g, <1>d, <1>s, <1>c, <1>r, <1>f, FwTyped DEF SteadyDrain
<1>7. SteadyDrc'
  BY <1>g, <1>d, <1>s, <1>c, <1>r, <1>f, FwTyped, NoLateResume DEF SteadyDrc
<1>8. SteadyInput'
  BY <1>g, <1>d, <1>s, <1>c, <1>r, <1>f, FwTyped, NoLateResume DEF SteadyInput
<1>9. SteadyOutput'
  BY <1>g, <1>d, <1>s, <1>c, <1>r, <1>f, FwTyped DEF SteadyOutput
<1>10. PauseEnds'
  BY <1>g, <1>d, <1>s, <1>c, <1>r, <1>f, FwTyped, LastComes DEF PauseEnds, SteadyDrain
<1> QED BY <1>o, <1>3, <1>4, <1>5, <1>6, <1>7, <1>8, <1>9, <1>10 DEF Steady

\* The firmware takes an input buffer.
LEMMA SteadyEtbTaken ==
  ASSUME TypeOK, Steady, UNCHANGED <<session, client, signal, msgs>>,
         cmds # << >>, cmds' = Tail(cmds), Head(cmds) = Etb,
         fw' = [fw EXCEPT !.data = IF fw.drain = "asked" THEN "after" ELSE "now"]
  PROVE  Steady'
<1>g. /\ SteadyOrder /\ Calls /\ SteadyHeard /\ SteadySequences /\ SteadyDrain
      /\ SteadyDrc /\ SteadyInput /\ SteadyOutput /\ PauseEnds
      /\ Call("in", StartIn, StopIn, StopDoneIn)
      /\ Call("out", StartOut, StopOut, StopDoneOut)
  BY SteadyIs
<1>d. /\ Streaming("in")' <=> Streaming("in")
      /\ Streaming("out")' <=> Streaming("out")
      /\ Paused' <=> Paused
      /\ OutPaused' <=> OutPaused
      /\ DrcWaits' <=> DrcWaits
      /\ DrainWaits' <=> DrainWaits
      /\ InputOver' <=> InputOver
      /\ client' = client /\ signal' = signal /\ sub' = sub /\ state' = state
      /\ decode' = decode
  BY SteadyDriver
<1>s. /\ \A m : Said(m)' <=> Said(m)
      /\ Ordered(msgs', TwoLasts) <=> Ordered(msgs, TwoLasts)
  BY SteadyTakes
<1>c. /\ Sent(Etb)
      /\ Sent(StartIn)' <=> Sent(StartIn)
      /\ Sent(StartOut)' <=> Sent(StartOut)
      /\ Sent(StopIn)' <=> Sent(StopIn)
      /\ Sent(StopOut)' <=> Sent(StopOut)
      /\ Sent(PauseIn)' <=> Sent(PauseIn)
      /\ Sent(ResumeIn)' <=> Sent(ResumeIn)
      /\ Sent(ResumeOut)' <=> Sent(ResumeOut)
      /\ Sent(Drain)' <=> Sent(Drain)
      /\ Sent(<<"close">>)' <=> Sent(<<"close">>)
  BY SteadyTakes, CommandsDiffer
<1>r. /\ ~Sent(StartIn)' /\ ~Sent(PauseIn)'
      /\ Ordered(cmds, LateResume) => Ordered(cmds', LateResume)
      /\ Ordered(cmds, OutThenIn) => Ordered(cmds', OutThenIn)
  BY <1>g, SteadyFollowers
<1>f. /\ fw'.in = fw.in
      /\ fw'.out = fw.out
      /\ fw'.data \in {"after", "now"}
      /\ fw'.psc = fw.psc
      /\ fw'.drain = fw.drain
  BY FwTyped
<1>o. SteadyOrder'
  BY SteadyTakes
<1>1. Call("in", StartIn, StopIn, StopDoneIn)'
  BY <1>g, <1>d, <1>s, <1>c, <1>r, <1>f, FwTyped DEF Call
<1>2. Call("out", StartOut, StopOut, StopDoneOut)'
  BY <1>g, <1>d, <1>s, <1>c, <1>r, <1>f, FwTyped DEF Call
<1>3. Calls'
  BY <1>g, <1>d, <1>s, <1>c, <1>r, <1>f, <1>1, <1>2 DEF Calls
<1>4. SteadyHeard'
  BY <1>g, <1>d, <1>s, <1>c, <1>r, <1>f, FwTyped DEF SteadyHeard
<1>5. SteadySequences'
  BY <1>g, <1>d, <1>s, <1>c, <1>r, <1>f, FwTyped DEF SteadySequences
<1>6. SteadyDrain'
  BY <1>g, <1>d, <1>s, <1>c, <1>r, <1>f, FwTyped DEF SteadyDrain
<1>7. SteadyDrc'
  BY <1>g, <1>d, <1>s, <1>c, <1>r, <1>f, FwTyped, NoLateResume DEF SteadyDrc
<1>8. SteadyInput'
  BY <1>g, <1>d, <1>s, <1>c, <1>r, <1>f, FwTyped, NoLateResume DEF SteadyInput
<1>9. SteadyOutput'
  BY <1>g, <1>d, <1>s, <1>c, <1>r, <1>f, FwTyped DEF SteadyOutput
<1>10. PauseEnds'
  BY <1>g, <1>d, <1>s, <1>c, <1>r, <1>f, FwTyped, LastComes DEF PauseEnds
<1> QED BY <1>o, <1>3, <1>4, <1>5, <1>6, <1>7, <1>8, <1>9, <1>10 DEF Steady

\* The whole answer to a stop, in any order that its parts keep.
LEMMA SteadyStopSays ==
  ASSUME TypeOK, NEW p \in Port, NEW x \in Msgs, NEW R,
         Ordered(msgs, R), Ordered(Flush(p), R),
         msgs' = msgs \o Flush(p) \o << x >>,
         \A a, b : Said(a) /\ InFlight(b, Flush(p)) => <<a, b>> \notin R,
         \A a : Said(a) \/ InFlight(a, Flush(p)) => <<a, x>> \notin R
  PROVE  /\ \A a : Said(a)' <=> Said(a) \/ InFlight(a, Flush(p)) \/ a = x
         /\ Ordered(msgs', R)
<1> DEFINE f == Flush(p)
           g == msgs \o f
           h == << x >>
<1>1. msgs \in Seq(Msgs) BY DEF TypeOK
<1>2. f \in Seq(Msgs) BY FlushSays
<1>3. \A a : InFlight(a, h) <=> a = x BY InFlightOne
<1>4. h \in Seq(Msgs) /\ msgs' = g \o h OBVIOUS
<1>5. \A a, b : InFlight(a, msgs) /\ InFlight(b, f) => <<a, b>> \notin R
  BY DEF Said
<1>6. /\ \A a : Said(a) \/ InFlight(a, f) => <<a, x>> \notin R
      /\ Ordered(f, R)
  OBVIOUS
<1> HIDE DEF f, h
<1>7. /\ g \in Seq(Msgs) /\ Ordered(g, R)
      /\ \A a : InFlight(a, g) <=> Said(a) \/ InFlight(a, f)
  BY <1>1, <1>2, <1>5, <1>6, OrderedBoth, InFlightBoth DEF Said
<1> HIDE DEF g
<1>8. /\ Ordered(g \o <<x>>, R)
      /\ \A a : InFlight(a, g \o h) <=> InFlight(a, g) \/ InFlight(a, h)
  <2>1. Ordered(g \o <<x>>, R)
    BY <1>6, <1>7, OrderedMore
  <2>2. \A a : InFlight(a, g \o h) <=> InFlight(a, g) \/ InFlight(a, h)
    BY <1>4, <1>7, InFlightBoth
  <2> QED BY <2>1, <2>2
<1>10. \A a : Said(a)' <=> Said(a) \/ InFlight(a, f) \/ a = x
  BY <1>3, <1>4, <1>7, <1>8 DEF Said
<1>11. Ordered(msgs', R)
  BY <1>4, <1>8 DEF h
<1> QED BY <1>10, <1>11 DEF f

\* One answer more.
LEMMA SteadySaysMore ==
  ASSUME TypeOK, NEW m \in Msgs, msgs' = Append(msgs, m), NEW R, Ordered(msgs, R),
         \A a : Said(a) => <<a, m>> \notin R
  PROVE  /\ \A a : Said(a)' <=> Said(a) \/ a = m
         /\ Ordered(msgs', R)
<1>1. msgs \in Seq(Msgs) BY DEF TypeOK
<1>2. \A a : Said(a)' <=> Said(a) \/ a = m
  BY <1>1, InFlightAppend DEF Said
<1>3. Ordered(msgs', R)
  BY <1>1, OrderedMore DEF Said
<1> QED BY <1>2, <1>3

\* What bars a packet: the pairs that end in it.
LEMMA BarsOf ==
  ASSUME NEW a
  PROVE  /\ <<a, PscLast>> \in SteadyMsgBars => a \in {DrainLast, StopDoneIn, StopDoneOut}
         /\ <<a, Ipsc>> \in SteadyMsgBars => a \in {DrainDone, Ipsc, StopDoneIn}
         /\ <<a, DrainDone>> \in SteadyMsgBars => a \in {DrainLast, StopDoneIn}
         /\ <<a, DrainLast>> \in SteadyMsgBars =>
              a \in {DrainLast, StopDoneOut} \/ (decode /\ a = StopDoneIn)
         /\ <<a, StopDoneIn>> \in SteadyMsgBars => a = StopDoneIn
         /\ <<a, StopDoneOut>> \in SteadyMsgBars => a = StopDoneOut
         /\ \A b : <<a, b>> \in TwoLasts <=> a = PscLast /\ b = PscLast
BY AnswersDiffer DEF SteadyMsgBars, MsgBars, TwoLasts

\* The firmware stops its input.
LEMMA SteadyStopInTaken ==
  ASSUME TypeOK, Steady, UNCHANGED <<session, client, signal>>,
         cmds # << >>, cmds' = Tail(cmds), Head(cmds) = StopIn, FwStop("in")
  PROVE  Steady'
<1>g. /\ SteadyOrder /\ Calls /\ SteadyHeard /\ SteadySequences /\ SteadyDrain
      /\ SteadyDrc /\ SteadyInput /\ SteadyOutput /\ PauseEnds
      /\ Call("in", StartIn, StopIn, StopDoneIn)
      /\ Call("out", StartOut, StopOut, StopDoneOut)
  BY SteadyIs
<1>d. /\ Streaming("in")' <=> Streaming("in")
      /\ Streaming("out")' <=> Streaming("out")
      /\ Paused' <=> Paused
      /\ OutPaused' <=> OutPaused
      /\ DrcWaits' <=> DrcWaits
      /\ DrainWaits' <=> DrainWaits
      /\ InputOver' <=> InputOver
      /\ client' = client /\ signal' = signal /\ sub' = sub /\ state' = state
      /\ decode' = decode
  BY SteadyDriver
<1>c. cmds' = << >> /\ \A m : ~Sent(m)'
  BY <1>g, SteadyStopIsLast
<1>b. /\ Sent(StopIn) /\ ~Sent(StartIn) /\ ~Sent(StartOut) /\ ~Sent(Drain)
      /\ ~Sent(ResumeIn) /\ ~Sent(PauseIn) /\ ~Sent(ResumeOut)
  BY <1>g, <1>c, SteadyTaken, CommandsDiffer
<1>p. /\ client = "in" /\ fw.in # "stop" /\ Streaming("in")
      /\ "in" \notin signal /\ "out" \notin signal
      /\ ~Said(StopDoneIn) /\ ~Said(StopDoneOut)
  BY <1>g, <1>b DEF Call
<1>l. /\ \A a : InFlight(a, Flush("in")) <=>
              \/ fw.psc = "last" /\ a = PscLast
              \/ fw.drain = "asked" /\ a = DrainDone
              \/ fw.drain = "last" /\ decode /\ a = DrainLast
              \/ fw.drain = "asked" /\ decode /\ a = DrainLast
  BY FlushSays DEF Port
<1>f. /\ fw'.in = "stop" /\ fw'.psc = "none" /\ fw'.data = "none"
      /\ fw'.drain = IF decode \/ fw.drain = "none" THEN "none" ELSE "last"
      /\ fw'.out = IF decode /\ fw.out = "run" /\ (fw.psc = "last" \/ fw.drain # "none")
                  THEN "pause" ELSE fw.out
  <2>1. \A a : ~InFlight(a, << >>)
    BY NothingInFlight
  <2>2. Flush("in") # << >> <=> \E a : InFlight(a, Flush("in"))
    <3>1. Flush("in") \in Seq(Msgs) BY FlushSays DEF Port
    <3>2. ASSUME Flush("in") # << >> PROVE InFlight(Head(Flush("in")), Flush("in"))
      BY <3>1, <3>2, InFlightHead
    <3> QED BY <2>1, <3>2
  <2>3. decode => (Flush("in") # << >> <=> fw.psc = "last" \/ fw.drain # "none")
    BY <1>l, <2>2, FwTyped
  <2> QED BY <2>3, FwTyped DEF FwStop
<1>m. msgs' = msgs \o Flush("in") \o << StopDoneIn >>
  BY <1>p DEF FwStop, StopDoneIn
<1>v. Ordered(Flush("in"), MsgBars) BY FlushSays DEF Port
<1>w. SteadyMsgBars \subseteq MsgBars /\ TwoLasts \subseteq MsgBars
  BY FewerBars DEF MsgBars, TwoLasts
<1>x. /\ \A a : Said(a)' <=> Said(a) \/ InFlight(a, Flush("in")) \/ a = StopDoneIn
      /\ Ordered(msgs', SteadyMsgBars)
  <2>1. \A a, b : Said(a) /\ InFlight(b, Flush("in")) => <<a, b>> \notin SteadyMsgBars
    BY <1>g, <1>p, <1>l, BarsOf DEF SteadySequences, SteadyDrain, SteadyDrc
  <2>2. \A a : Said(a) \/ InFlight(a, Flush("in")) => <<a, StopDoneIn>> \notin SteadyMsgBars
    <3>1. StopDoneIn # PscLast /\ StopDoneIn # DrainDone /\ StopDoneIn # DrainLast
      BY AnswersDiffer
    <3>2. ASSUME NEW a, <<a, StopDoneIn>> \in SteadyMsgBars PROVE a = StopDoneIn
      BY <3>2, BarsOf
    <3>3. ~Said(StopDoneIn) /\ ~InFlight(StopDoneIn, Flush("in"))
      BY <3>1, <1>p, <1>l
    <3> QED BY <3>2, <3>3
  <2>3. Ordered(msgs, SteadyMsgBars) /\ Ordered(Flush("in"), SteadyMsgBars)
    BY <1>g, <1>v, <1>w, OrderedLess DEF SteadyOrder
  <2>4. StopDoneIn \in Msgs BY NamesAre
  <2> QED BY <1>m, <2>1, <2>2, <2>3, <2>4, SteadyStopSays DEF Port
<1>t. Ordered(msgs, TwoLasts) /\ ~(Said(PscLast) /\ fw.psc = "last")
        => Ordered(msgs', TwoLasts)
  <2>0. SUFFICES ASSUME Ordered(msgs, TwoLasts), ~(Said(PscLast) /\ fw.psc = "last")
                 PROVE  Ordered(msgs', TwoLasts)
    OBVIOUS
  <2>1. \A a, b : Said(a) /\ InFlight(b, Flush("in")) => <<a, b>> \notin TwoLasts
    BY <2>0, <1>l, BarsOf, AnswersDiffer
  <2>2. \A a : Said(a) \/ InFlight(a, Flush("in")) => <<a, StopDoneIn>> \notin TwoLasts
    BY BarsOf, AnswersDiffer
  <2>3. Ordered(Flush("in"), TwoLasts)
    BY <1>v, <1>w, OrderedLess
  <2>4. StopDoneIn \in Msgs BY NamesAre
  <2> QED BY <1>m, <2>0, <2>1, <2>2, <2>3, <2>4, SteadyStopSays DEF Port
<1>s. /\ Said(StopDoneIn)' /\ ~Said(StopDoneOut)'
      /\ Said(Ipsc)' <=> Said(Ipsc)
      /\ Said(PscLast)' <=> Said(PscLast) \/ fw.psc = "last"
      /\ Said(DrainDone)' <=> Said(DrainDone) \/ fw.drain = "asked"
      /\ Said(DrainLast)' <=> Said(DrainLast) \/ (decode /\ fw.drain \in {"asked", "last"})
      /\ \A a \in {<<"close_done">>, <<"error">>, <<"stop_error", "in">>, <<"stop_error", "out">>} :
           Said(a)' <=> Said(a)
  BY <1>p, <1>l, <1>x, AnswersDiffer
<1>o. SteadyOrder'
  <2>1. SteadyMsgBars' = SteadyMsgBars BY SteadyDriver
  <2> QED BY <1>c, <2>1, <1>x, OrderedOne DEF SteadyOrder
<1>1. Call("in", StartIn, StopIn, StopDoneIn)'
  BY <1>g, <1>d, <1>c, <1>b, <1>p, <1>f, <1>s, <1>t, FwTyped DEF Call
<1>2. Call("out", StartOut, StopOut, StopDoneOut)'
  BY <1>g, <1>d, <1>c, <1>b, <1>p, <1>f, <1>s, <1>t, FwTyped DEF Call
<1>3. Calls'
  BY <1>g, <1>d, <1>c, <1>b, <1>p, <1>f, <1>s, <1>t, <1>1, <1>2 DEF Calls
<1>4. SteadyHeard'
  BY <1>g, <1>d, <1>c, <1>b, <1>p, <1>f, <1>s, <1>t, FwTyped
     DEF SteadyHeard, Call, SteadySequences
<1>5. SteadySequences'
  BY <1>g, <1>d, <1>c, <1>b, <1>p, <1>f, <1>s, <1>t, FwTyped DEF SteadySequences
<1>6. SteadyDrain'
  BY <1>g, <1>d, <1>c, <1>b, <1>p, <1>f, <1>s, <1>t, FwTyped DEF SteadyDrain, SteadySequences
<1>7. SteadyDrc'
  BY <1>g, <1>d, <1>c, <1>b, <1>p, <1>f, <1>s, <1>t, FwTyped, NoLateResume
     DEF SteadyDrc, SteadySequences, SteadyHeard
<1>8. SteadyInput'
  BY <1>g, <1>d, <1>c, <1>b, <1>p, <1>f, <1>s, <1>t, FwTyped, NoLateResume
     DEF SteadyInput, SteadySequences
<1>9. SteadyOutput'
  BY <1>g, <1>d, <1>c, <1>b, <1>p, <1>f, <1>s, <1>t, FwTyped
     DEF SteadyOutput, SteadySequences, Call, SteadyHeard
<1>10. PauseEnds'
  BY <1>g, <1>d, <1>c, <1>b, <1>p, <1>f, <1>s, <1>t, FwTyped, LastComes DEF PauseEnds
<1> QED BY <1>o, <1>3, <1>4, <1>5, <1>6, <1>7, <1>8, <1>9, <1>10 DEF Steady

\* The firmware stops its output.
LEMMA SteadyStopOutTaken ==
  ASSUME TypeOK, Steady, UNCHANGED <<session, client, signal>>,
         cmds # << >>, cmds' = Tail(cmds), Head(cmds) = StopOut, FwStop("out")
  PROVE  Steady'
<1>g. /\ SteadyOrder /\ Calls /\ SteadyHeard /\ SteadySequences /\ SteadyDrain
      /\ SteadyDrc /\ SteadyInput /\ SteadyOutput /\ PauseEnds
      /\ Call("in", StartIn, StopIn, StopDoneIn)
      /\ Call("out", StartOut, StopOut, StopDoneOut)
  BY SteadyIs
<1>d. /\ Streaming("in")' <=> Streaming("in")
      /\ Streaming("out")' <=> Streaming("out")
      /\ Paused' <=> Paused
      /\ OutPaused' <=> OutPaused
      /\ DrcWaits' <=> DrcWaits
      /\ DrainWaits' <=> DrainWaits
      /\ InputOver' <=> InputOver
      /\ client' = client /\ signal' = signal /\ sub' = sub /\ state' = state
      /\ decode' = decode
  BY SteadyDriver
<1>c. cmds' = << >> /\ \A m : ~Sent(m)'
  BY <1>g, SteadyStopIsLast
<1>b. /\ Sent(StopOut) /\ ~Sent(StartIn) /\ ~Sent(StartOut) /\ ~Sent(Drain)
      /\ ~Sent(ResumeIn) /\ ~Sent(PauseIn) /\ ~Sent(ResumeOut)
  BY <1>g, <1>c, SteadyTaken, CommandsDiffer
<1>p. /\ client = "out" /\ fw.out # "stop" /\ Streaming("out")
      /\ "in" \notin signal /\ "out" \notin signal
      /\ ~Said(StopDoneIn) /\ ~Said(StopDoneOut)
  BY <1>g, <1>b DEF Call
<1>l. /\ \A a : InFlight(a, Flush("out")) <=>
              \/ fw.psc = "last" /\ a = PscLast
              \/ fw.drain = "last" /\ a = DrainLast
  BY FlushSays DEF Port
<1>f. /\ fw'.out = "stop" /\ fw'.in = fw.in /\ fw'.data = fw.data
      /\ fw'.psc = IF fw.psc = "last" THEN "seen" ELSE fw.psc
      /\ fw'.drain = IF fw.drain = "last" THEN "none" ELSE fw.drain
  BY FwTyped DEF FwStop
<1>m. msgs' = msgs \o Flush("out") \o << StopDoneOut >>
  BY <1>p DEF FwStop, StopDoneOut
<1>v. Ordered(Flush("out"), MsgBars) BY FlushSays DEF Port
<1>w. SteadyMsgBars \subseteq MsgBars /\ TwoLasts \subseteq MsgBars
  BY FewerBars DEF MsgBars, TwoLasts
<1>x. /\ \A a : Said(a)' <=> Said(a) \/ InFlight(a, Flush("out")) \/ a = StopDoneOut
      /\ Ordered(msgs', SteadyMsgBars)
  <2>1. \A a, b : Said(a) /\ InFlight(b, Flush("out")) => <<a, b>> \notin SteadyMsgBars
    BY <1>g, <1>p, <1>l, BarsOf DEF SteadySequences, SteadyDrain, SteadyDrc
  <2>2. \A a : Said(a) \/ InFlight(a, Flush("out")) => <<a, StopDoneOut>> \notin SteadyMsgBars
    <3>1. StopDoneOut # PscLast /\ StopDoneOut # DrainDone /\ StopDoneOut # DrainLast
      BY AnswersDiffer
    <3>2. ASSUME NEW a, <<a, StopDoneOut>> \in SteadyMsgBars PROVE a = StopDoneOut
      BY <3>2, BarsOf
    <3>3. ~Said(StopDoneOut) /\ ~InFlight(StopDoneOut, Flush("out"))
      BY <3>1, <1>p, <1>l
    <3> QED BY <3>2, <3>3
  <2>3. Ordered(msgs, SteadyMsgBars) /\ Ordered(Flush("out"), SteadyMsgBars)
    BY <1>g, <1>v, <1>w, OrderedLess DEF SteadyOrder
  <2>4. StopDoneOut \in Msgs BY NamesAre
  <2> QED BY <1>m, <2>1, <2>2, <2>3, <2>4, SteadyStopSays DEF Port
<1>t. Ordered(msgs, TwoLasts) /\ ~(Said(PscLast) /\ fw.psc = "last")
        => Ordered(msgs', TwoLasts)
  <2>0. SUFFICES ASSUME Ordered(msgs, TwoLasts), ~(Said(PscLast) /\ fw.psc = "last")
                 PROVE  Ordered(msgs', TwoLasts)
    OBVIOUS
  <2>1. \A a, b : Said(a) /\ InFlight(b, Flush("out")) => <<a, b>> \notin TwoLasts
    BY <2>0, <1>l, BarsOf, AnswersDiffer
  <2>2. \A a : Said(a) \/ InFlight(a, Flush("out")) => <<a, StopDoneOut>> \notin TwoLasts
    BY BarsOf, AnswersDiffer
  <2>3. Ordered(Flush("out"), TwoLasts)
    BY <1>v, <1>w, OrderedLess
  <2>4. StopDoneOut \in Msgs BY NamesAre
  <2> QED BY <1>m, <2>0, <2>1, <2>2, <2>3, <2>4, SteadyStopSays DEF Port
<1>s. /\ Said(StopDoneOut)' /\ ~Said(StopDoneIn)'
      /\ Said(Ipsc)' <=> Said(Ipsc)
      /\ Said(PscLast)' <=> Said(PscLast) \/ fw.psc = "last"
      /\ Said(DrainDone)' <=> Said(DrainDone)
      /\ Said(DrainLast)' <=> Said(DrainLast) \/ fw.drain = "last"
      /\ \A a \in {<<"close_done">>, <<"error">>, <<"stop_error", "in">>, <<"stop_error", "out">>} :
           Said(a)' <=> Said(a)
  BY <1>p, <1>l, <1>x, AnswersDiffer
<1>o. SteadyOrder'
  <2>1. SteadyMsgBars' = SteadyMsgBars BY SteadyDriver
  <2> QED BY <1>c, <2>1, <1>x, OrderedOne DEF SteadyOrder
<1>1. Call("in", StartIn, StopIn, StopDoneIn)'
  BY <1>g, <1>d, <1>c, <1>b, <1>p, <1>f, <1>s, <1>t, FwTyped DEF Call
<1>2. Call("out", StartOut, StopOut, StopDoneOut)'
  BY <1>g, <1>d, <1>c, <1>b, <1>p, <1>f, <1>s, <1>t, FwTyped DEF Call
<1>3. Calls'
  BY <1>g, <1>d, <1>c, <1>b, <1>p, <1>f, <1>s, <1>t, <1>1, <1>2 DEF Calls
<1>4. SteadyHeard'
  BY <1>g, <1>d, <1>c, <1>b, <1>p, <1>f, <1>s, <1>t, FwTyped
     DEF SteadyHeard, Call, SteadySequences
<1>5. SteadySequences'
  BY <1>g, <1>d, <1>c, <1>b, <1>p, <1>f, <1>s, <1>t, FwTyped DEF SteadySequences
<1>6. SteadyDrain'
  BY <1>g, <1>d, <1>c, <1>b, <1>p, <1>f, <1>s, <1>t, FwTyped DEF SteadyDrain, SteadySequences
<1>7. SteadyDrc'
  BY <1>g, <1>d, <1>c, <1>b, <1>p, <1>f, <1>s, <1>t, FwTyped, NoLateResume
     DEF SteadyDrc, SteadySequences, SteadyHeard
<1>8. SteadyInput'
  BY <1>g, <1>d, <1>c, <1>b, <1>p, <1>f, <1>s, <1>t, FwTyped, NoLateResume
     DEF SteadyInput, SteadySequences
<1>9. SteadyOutput'
  BY <1>g, <1>d, <1>c, <1>b, <1>p, <1>f, <1>s, <1>t, FwTyped
     DEF SteadyOutput, SteadySequences, Call, SteadyHeard
<1>10. PauseEnds'
  BY <1>g, <1>d, <1>c, <1>b, <1>p, <1>f, <1>s, <1>t, FwTyped, LastComes DEF PauseEnds
<1> QED BY <1>o, <1>3, <1>4, <1>5, <1>6, <1>7, <1>8, <1>9, <1>10 DEF Steady

\* The firmware meets a settings change.
LEMMA SteadyFwIpsc ==
  ASSUME TypeOK, Steady, FwIpsc
  PROVE  Steady'
<1>g. /\ SteadyOrder /\ Calls /\ SteadyHeard /\ SteadySequences /\ SteadyDrain
      /\ SteadyDrc /\ SteadyInput /\ SteadyOutput /\ PauseEnds
      /\ Call("in", StartIn, StopIn, StopDoneIn)
      /\ Call("out", StartOut, StopOut, StopDoneOut)
  BY SteadyIs
<1>p. /\ decode /\ fw.in = "run" /\ fw.data = "now" /\ fw.psc = "none"
      /\ Streaming("in") /\ "in" \notin signal /\ fw.drain # "last"
      /\ ~Said(Ipsc) /\ ~Said(DrainDone) /\ ~Said(DrainLast)
      /\ ~Said(StopDoneIn) /\ ~Paused /\ ~Sent(PauseIn) /\ ~Sent(ResumeIn) /\ ~Sent(StartIn)
      /\ fw.out # "stop" => Streaming("out")
  BY <1>g, FwTyped
     DEF FwIpsc, Call, SteadyHeard, SteadySequences, SteadyDrain, SteadyDrc, SteadyInput,
         SteadyOutput, InputOver
<1>m. alive /\ Ipsc \in Msgs /\ msgs' = Append(msgs, Ipsc)
  BY NamesAre DEF FwIpsc, Says, Ipsc
<1>d. /\ Streaming("in")' <=> Streaming("in")
      /\ Streaming("out")' <=> Streaming("out")
      /\ Paused' <=> Paused
      /\ OutPaused' <=> OutPaused
      /\ DrcWaits' <=> DrcWaits
      /\ DrainWaits' <=> DrainWaits
      /\ InputOver' <=> InputOver
      /\ client' = client /\ signal' = signal /\ sub' = sub /\ state' = state
      /\ decode' = decode
      /\ cmds' = cmds
  <2>1. UNCHANGED <<session, client, signal, cmds>> BY DEF FwIpsc, Says
  <2> QED BY <2>1, SteadyDriver
<1>c. \A a : Sent(a)' <=> Sent(a)
  BY <1>d DEF Sent
<1>b. \A a : Said(a) => <<a, Ipsc>> \notin SteadyMsgBars
  <2>1. ASSUME NEW a, Said(a), <<a, Ipsc>> \in SteadyMsgBars PROVE FALSE
    BY <1>p, <2>1, BarsOf
  <2> QED BY <2>1
<1>a. /\ \A a : Said(a)' <=> Said(a) \/ a = Ipsc
      /\ Ordered(msgs', SteadyMsgBars)
  BY <1>g, <1>m, <1>b, SteadySaysMore DEF SteadyOrder
<1>s. /\ Said(Ipsc)'
      /\ Said(PscLast)' <=> Said(PscLast)
      /\ Said(DrainDone)' <=> Said(DrainDone)
      /\ Said(DrainLast)' <=> Said(DrainLast)
      /\ Said(StopDoneIn)' <=> Said(StopDoneIn)
      /\ Said(StopDoneOut)' <=> Said(StopDoneOut)
      /\ \A a \in {<<"close_done">>, <<"error">>, <<"stop_error", "in">>, <<"stop_error", "out">>} :
           Said(a)' <=> Said(a)
  BY <1>a, AnswersDiffer
<1>w. Ordered(msgs, TwoLasts) => Ordered(msgs', TwoLasts)
  <2>1. \A a : <<a, Ipsc>> \notin TwoLasts BY BarsOf, AnswersDiffer
  <2> QED BY <1>m, <2>1, SteadySaysMore
<1>f. /\ fw'.in = "pause" /\ fw'.out = fw.out /\ fw'.data = "none" /\ fw'.drain = fw.drain
      /\ fw'.psc = IF fw.out = "stop" THEN "seen" ELSE "last"
  BY FwTyped DEF FwIpsc
<1>o. SteadyOrder'
  <2>1. UNCHANGED <<session, client, signal>> BY DEF FwIpsc, Says
  <2>2. SteadyMsgBars' = SteadyMsgBars BY <2>1, SteadyDriver
  <2> QED BY <1>g, <1>d, <1>a, <2>2 DEF SteadyOrder
<1>l. (Ordered(cmds', OutThenIn) <=> Ordered(cmds, OutThenIn))
      /\ (Ordered(cmds', LateResume) <=> Ordered(cmds, LateResume))
  BY <1>d
<1>1. Call("in", StartIn, StopIn, StopDoneIn)'
  BY <1>g, <1>p, <1>d, <1>c, <1>s, <1>w, <1>f, <1>l, FwTyped DEF Call
<1>2. Call("out", StartOut, StopOut, StopDoneOut)'
  BY <1>g, <1>p, <1>d, <1>c, <1>s, <1>w, <1>f, <1>l, FwTyped DEF Call
<1>3. Calls'
  BY <1>g, <1>p, <1>d, <1>c, <1>s, <1>w, <1>f, <1>l, <1>1, <1>2 DEF Calls
<1>4. SteadyHeard'
  BY <1>g, <1>p, <1>d, <1>c, <1>s, <1>w, <1>f, <1>l, FwTyped DEF SteadyHeard
<1>5. SteadySequences'
  BY <1>g, <1>p, <1>d, <1>c, <1>s, <1>w, <1>f, <1>l, FwTyped DEF SteadySequences
<1>6. SteadyDrain'
  BY <1>g, <1>p, <1>d, <1>c, <1>s, <1>w, <1>f, <1>l, FwTyped DEF SteadyDrain
<1>7. SteadyDrc'
  BY <1>g, <1>p, <1>d, <1>c, <1>s, <1>w, <1>f, <1>l, FwTyped, NoLateResume DEF SteadyDrc
<1>8. SteadyInput'
  BY <1>g, <1>p, <1>d, <1>c, <1>s, <1>w, <1>f, <1>l, FwTyped, NoLateResume DEF SteadyInput
<1>9. SteadyOutput'
  BY <1>g, <1>p, <1>d, <1>c, <1>s, <1>w, <1>f, <1>l, FwTyped DEF SteadyOutput
<1>10. PauseEnds'
  BY <1>g, <1>p, <1>d, <1>c, <1>s, <1>w, <1>f, <1>l, FwTyped, LastComes DEF PauseEnds
<1> QED BY <1>o, <1>3, <1>4, <1>5, <1>6, <1>7, <1>8, <1>9, <1>10 DEF Steady

\* The firmware sends the last buffer before a settings change.
LEMMA SteadyFwPscLast ==
  ASSUME TypeOK, Steady, FwPscLast
  PROVE  Steady'
<1>g. /\ SteadyOrder /\ Calls /\ SteadyHeard /\ SteadySequences /\ SteadyDrain
      /\ SteadyDrc /\ SteadyInput /\ SteadyOutput /\ PauseEnds
      /\ Call("in", StartIn, StopIn, StopDoneIn)
      /\ Call("out", StartOut, StopOut, StopDoneOut)
  BY SteadyIs
<1>p. /\ fw.psc = "last" /\ fw.out = "run" /\ fw.in = "pause" /\ fw.drain # "last" /\ decode
      /\ Streaming("in") /\ Streaming("out") /\ "in" \notin signal /\ "out" \notin signal
      /\ ~Sent(StartOut) /\ ~Said(DrainLast) /\ ~Said(DrainDone) /\ ~Said(PscLast)
      /\ ~Said(StopDoneIn) /\ ~Said(StopDoneOut)
      /\ ~OutPaused /\ (DrcWaits \/ Said(Ipsc))
  BY <1>g, FwTyped
     DEF FwPscLast, Call, SteadyHeard, SteadySequences, SteadyDrain, SteadyDrc, SteadyInput,
         SteadyOutput, InputOver
<1>m. alive /\ PscLast \in Msgs /\ msgs' = Append(msgs, PscLast)
  BY NamesAre DEF FwPscLast, Says, PscLast
<1>d. /\ Streaming("in")' <=> Streaming("in")
      /\ Streaming("out")' <=> Streaming("out")
      /\ Paused' <=> Paused
      /\ OutPaused' <=> OutPaused
      /\ DrcWaits' <=> DrcWaits
      /\ DrainWaits' <=> DrainWaits
      /\ InputOver' <=> InputOver
      /\ client' = client /\ signal' = signal /\ sub' = sub /\ state' = state
      /\ decode' = decode
      /\ cmds' = cmds
  <2>1. UNCHANGED <<session, client, signal, cmds>> BY DEF FwPscLast, Says
  <2> QED BY <2>1, SteadyDriver
<1>c. \A a : Sent(a)' <=> Sent(a)
  BY <1>d DEF Sent
<1>b. \A a : Said(a) => <<a, PscLast>> \notin SteadyMsgBars
  <2>1. ASSUME NEW a, Said(a), <<a, PscLast>> \in SteadyMsgBars PROVE FALSE
    BY <1>p, <2>1, BarsOf
  <2> QED BY <2>1
<1>a. /\ \A a : Said(a)' <=> Said(a) \/ a = PscLast
      /\ Ordered(msgs', SteadyMsgBars)
  BY <1>g, <1>m, <1>b, SteadySaysMore DEF SteadyOrder
<1>s. /\ Said(PscLast)'
      /\ Said(Ipsc)' <=> Said(Ipsc)
      /\ Said(DrainDone)' <=> Said(DrainDone)
      /\ Said(DrainLast)' <=> Said(DrainLast)
      /\ Said(StopDoneIn)' <=> Said(StopDoneIn)
      /\ Said(StopDoneOut)' <=> Said(StopDoneOut)
      /\ \A a \in {<<"close_done">>, <<"error">>, <<"stop_error", "in">>, <<"stop_error", "out">>} :
           Said(a)' <=> Said(a)
  BY <1>a, AnswersDiffer
<1>w. Ordered(msgs', TwoLasts)
  <2>1. Ordered(msgs, TwoLasts) BY <1>p, NoLateResume
  <2>2. \A a : Said(a) => <<a, PscLast>> \notin TwoLasts BY <1>p, BarsOf
  <2> QED BY <1>m, <2>1, <2>2, SteadySaysMore
<1>f. /\ fw'.in = fw.in /\ fw'.out = "pause" /\ fw'.data = fw.data /\ fw'.psc = "seen"
      /\ fw'.drain = fw.drain
  BY FwTyped DEF FwPscLast
<1>o. SteadyOrder'
  <2>1. UNCHANGED <<session, client, signal>> BY DEF FwPscLast, Says
  <2>2. SteadyMsgBars' = SteadyMsgBars BY <2>1, SteadyDriver
  <2> QED BY <1>g, <1>d, <1>a, <2>2 DEF SteadyOrder
<1>l. (Ordered(cmds', OutThenIn) <=> Ordered(cmds, OutThenIn))
      /\ (Ordered(cmds', LateResume) <=> Ordered(cmds, LateResume))
  BY <1>d
<1>1. Call("in", StartIn, StopIn, StopDoneIn)'
  BY <1>g, <1>p, <1>d, <1>c, <1>s, <1>w, <1>f, <1>l, FwTyped DEF Call
<1>2. Call("out", StartOut, StopOut, StopDoneOut)'
  BY <1>g, <1>p, <1>d, <1>c, <1>s, <1>w, <1>f, <1>l, FwTyped DEF Call
<1>3. Calls'
  BY <1>g, <1>p, <1>d, <1>c, <1>s, <1>w, <1>f, <1>l, <1>1, <1>2 DEF Calls
<1>4. SteadyHeard'
  BY <1>g, <1>p, <1>d, <1>c, <1>s, <1>w, <1>f, <1>l, FwTyped DEF SteadyHeard
<1>5. SteadySequences'
  BY <1>g, <1>p, <1>d, <1>c, <1>s, <1>w, <1>f, <1>l, FwTyped DEF SteadySequences
<1>6. SteadyDrain'
  BY <1>g, <1>p, <1>d, <1>c, <1>s, <1>w, <1>f, <1>l, FwTyped DEF SteadyDrain
<1>7. SteadyDrc'
  BY <1>g, <1>p, <1>d, <1>c, <1>s, <1>w, <1>f, <1>l, FwTyped, NoLateResume DEF SteadyDrc
<1>8. SteadyInput'
  BY <1>g, <1>p, <1>d, <1>c, <1>s, <1>w, <1>f, <1>l, FwTyped, NoLateResume DEF SteadyInput
<1>9. SteadyOutput'
  BY <1>g, <1>p, <1>d, <1>c, <1>s, <1>w, <1>f, <1>l, FwTyped DEF SteadyOutput
<1>10. PauseEnds'
  BY <1>g, <1>p, <1>d, <1>c, <1>s, <1>w, <1>f, <1>l, FwTyped, LastComes DEF PauseEnds
<1> QED BY <1>o, <1>3, <1>4, <1>5, <1>6, <1>7, <1>8, <1>9, <1>10 DEF Steady

\* The firmware has read the input up to a drain.
LEMMA SteadyFwDrainDone ==
  ASSUME TypeOK, Steady, FwDrainDone
  PROVE  Steady'
<1>g. /\ SteadyOrder /\ Calls /\ SteadyHeard /\ SteadySequences /\ SteadyDrain
      /\ SteadyDrc /\ SteadyInput /\ SteadyOutput /\ PauseEnds
      /\ Call("in", StartIn, StopIn, StopDoneIn)
      /\ Call("out", StartOut, StopOut, StopDoneOut)
  BY SteadyIs
<1>p. /\ fw.drain = "asked" /\ fw.in = "run" /\ fw.out = "run" /\ fw.psc = "none"
      /\ Streaming("in") /\ "in" \notin signal /\ ~Said(DrainLast)
      /\ ~Said(DrainDone) /\ ~Said(Ipsc) /\ ~Said(PscLast) /\ ~Said(StopDoneIn)
      /\ ~Paused /\ ~Sent(PauseIn)
      /\ ~Sent(Drain) /\ ~Sent(ResumeIn) /\ ~Sent(StartIn) /\ "DRC_LAST" \notin sub
  BY <1>g, FwTyped
     DEF FwDrainDone, Call, SteadyHeard, SteadySequences, SteadyDrain, SteadyDrc, SteadyInput,
         SteadyOutput, InputOver
<1>m. alive /\ DrainDone \in Msgs /\ msgs' = Append(msgs, DrainDone)
  BY NamesAre DEF FwDrainDone, Says, DrainDone
<1>d. /\ Streaming("in")' <=> Streaming("in")
      /\ Streaming("out")' <=> Streaming("out")
      /\ Paused' <=> Paused
      /\ OutPaused' <=> OutPaused
      /\ DrcWaits' <=> DrcWaits
      /\ DrainWaits' <=> DrainWaits
      /\ InputOver' <=> InputOver
      /\ client' = client /\ signal' = signal /\ sub' = sub /\ state' = state
      /\ decode' = decode
      /\ cmds' = cmds
  <2>1. UNCHANGED <<session, client, signal, cmds>> BY DEF FwDrainDone, Says
  <2> QED BY <2>1, SteadyDriver
<1>c. \A a : Sent(a)' <=> Sent(a)
  BY <1>d DEF Sent
<1>b. \A a : Said(a) => <<a, DrainDone>> \notin SteadyMsgBars
  <2>1. ASSUME NEW a, Said(a), <<a, DrainDone>> \in SteadyMsgBars PROVE FALSE
    BY <1>p, <2>1, BarsOf
  <2> QED BY <2>1
<1>a. /\ \A a : Said(a)' <=> Said(a) \/ a = DrainDone
      /\ Ordered(msgs', SteadyMsgBars)
  BY <1>g, <1>m, <1>b, SteadySaysMore DEF SteadyOrder
<1>s. /\ Said(DrainDone)'
      /\ Said(Ipsc)' <=> Said(Ipsc)
      /\ Said(PscLast)' <=> Said(PscLast)
      /\ Said(DrainLast)' <=> Said(DrainLast)
      /\ Said(StopDoneIn)' <=> Said(StopDoneIn)
      /\ Said(StopDoneOut)' <=> Said(StopDoneOut)
      /\ \A a \in {<<"close_done">>, <<"error">>, <<"stop_error", "in">>, <<"stop_error", "out">>} :
           Said(a)' <=> Said(a)
  BY <1>a, AnswersDiffer
<1>w. Ordered(msgs, TwoLasts) => Ordered(msgs', TwoLasts)
  <2>1. \A a : <<a, DrainDone>> \notin TwoLasts BY BarsOf, AnswersDiffer
  <2> QED BY <1>m, <2>1, SteadySaysMore
<1>f. /\ fw'.in = "pause" /\ fw'.out = fw.out /\ fw'.data \in {"now", "none"}
      /\ fw'.psc = fw.psc /\ fw'.drain = "last"
  BY FwTyped DEF FwDrainDone
<1>o. SteadyOrder'
  <2>1. UNCHANGED <<session, client, signal>> BY DEF FwDrainDone, Says
  <2>2. SteadyMsgBars' = SteadyMsgBars BY <2>1, SteadyDriver
  <2> QED BY <1>g, <1>d, <1>a, <2>2 DEF SteadyOrder
<1>l. (Ordered(cmds', OutThenIn) <=> Ordered(cmds, OutThenIn))
      /\ (Ordered(cmds', LateResume) <=> Ordered(cmds, LateResume))
  BY <1>d
<1>1. Call("in", StartIn, StopIn, StopDoneIn)'
  BY <1>g, <1>p, <1>d, <1>c, <1>s, <1>w, <1>f, <1>l, FwTyped DEF Call
<1>2. Call("out", StartOut, StopOut, StopDoneOut)'
  BY <1>g, <1>p, <1>d, <1>c, <1>s, <1>w, <1>f, <1>l, FwTyped DEF Call
<1>3. Calls'
  BY <1>g, <1>p, <1>d, <1>c, <1>s, <1>w, <1>f, <1>l, <1>1, <1>2 DEF Calls
<1>4. SteadyHeard'
  BY <1>g, <1>p, <1>d, <1>c, <1>s, <1>w, <1>f, <1>l, FwTyped DEF SteadyHeard
<1>5. SteadySequences'
  BY <1>g, <1>p, <1>d, <1>c, <1>s, <1>w, <1>f, <1>l, FwTyped DEF SteadySequences
<1>6. SteadyDrain'
  BY <1>g, <1>p, <1>d, <1>c, <1>s, <1>w, <1>f, <1>l, FwTyped DEF SteadyDrain
<1>7. SteadyDrc'
  BY <1>g, <1>p, <1>d, <1>c, <1>s, <1>w, <1>f, <1>l, FwTyped, NoLateResume DEF SteadyDrc
<1>8. SteadyInput'
  BY <1>g, <1>p, <1>d, <1>c, <1>s, <1>w, <1>f, <1>l, FwTyped, NoLateResume DEF SteadyInput
<1>9. SteadyOutput'
  BY <1>g, <1>p, <1>d, <1>c, <1>s, <1>w, <1>f, <1>l, FwTyped DEF SteadyOutput
<1>10. PauseEnds'
  BY <1>g, <1>p, <1>d, <1>c, <1>s, <1>w, <1>f, <1>l, FwTyped, LastComes DEF PauseEnds
<1> QED BY <1>o, <1>3, <1>4, <1>5, <1>6, <1>7, <1>8, <1>9, <1>10 DEF Steady

\* The firmware sends the last buffer of a drain.
LEMMA SteadyFwDrainLast ==
  ASSUME TypeOK, Steady, FwDrainLast
  PROVE  Steady'
<1>g. /\ SteadyOrder /\ Calls /\ SteadyHeard /\ SteadySequences /\ SteadyDrain
      /\ SteadyDrc /\ SteadyInput /\ SteadyOutput /\ PauseEnds
      /\ Call("in", StartIn, StopIn, StopDoneIn)
      /\ Call("out", StartOut, StopOut, StopDoneOut)
  BY SteadyIs
<1>p. /\ fw.drain = "last" /\ fw.out = "run" /\ fw.psc = "none" /\ ~Said(PscLast)
      /\ Streaming("out") /\ "out" \notin signal /\ ~Said(DrainLast) /\ ~Sent(StartOut)
      /\ ~Said(StopDoneOut) /\ ~Sent(Drain)
      /\ decode => /\ Streaming("in") /\ "in" \notin signal /\ ~Said(StopDoneIn)
                   /\ fw.in = "pause" /\ ~Sent(ResumeIn) /\ ~Sent(StartIn)
                   /\ ~OutPaused
  BY <1>g, FwTyped
     DEF FwDrainLast, Call, SteadyHeard, SteadySequences, SteadyDrain, SteadyDrc, SteadyInput,
         SteadyOutput, InputOver
<1>m. alive /\ DrainLast \in Msgs /\ msgs' = Append(msgs, DrainLast)
  BY NamesAre DEF FwDrainLast, Says, DrainLast
<1>d. /\ Streaming("in")' <=> Streaming("in")
      /\ Streaming("out")' <=> Streaming("out")
      /\ Paused' <=> Paused
      /\ OutPaused' <=> OutPaused
      /\ DrcWaits' <=> DrcWaits
      /\ DrainWaits' <=> DrainWaits
      /\ InputOver' <=> InputOver
      /\ client' = client /\ signal' = signal /\ sub' = sub /\ state' = state
      /\ decode' = decode
      /\ cmds' = cmds
  <2>1. UNCHANGED <<session, client, signal, cmds>> BY DEF FwDrainLast, Says
  <2> QED BY <2>1, SteadyDriver
<1>c. \A a : Sent(a)' <=> Sent(a)
  BY <1>d DEF Sent
<1>b. \A a : Said(a) => <<a, DrainLast>> \notin SteadyMsgBars
  <2>1. ASSUME NEW a, Said(a), <<a, DrainLast>> \in SteadyMsgBars PROVE FALSE
    BY <1>p, <2>1, BarsOf
  <2> QED BY <2>1
<1>a. /\ \A a : Said(a)' <=> Said(a) \/ a = DrainLast
      /\ Ordered(msgs', SteadyMsgBars)
  BY <1>g, <1>m, <1>b, SteadySaysMore DEF SteadyOrder
<1>s. /\ Said(DrainLast)'
      /\ Said(Ipsc)' <=> Said(Ipsc)
      /\ Said(PscLast)' <=> Said(PscLast)
      /\ Said(DrainDone)' <=> Said(DrainDone)
      /\ Said(StopDoneIn)' <=> Said(StopDoneIn)
      /\ Said(StopDoneOut)' <=> Said(StopDoneOut)
      /\ \A a \in {<<"close_done">>, <<"error">>, <<"stop_error", "in">>, <<"stop_error", "out">>} :
           Said(a)' <=> Said(a)
  BY <1>a, AnswersDiffer
<1>w. Ordered(msgs, TwoLasts) => Ordered(msgs', TwoLasts)
  <2>1. \A a : <<a, DrainLast>> \notin TwoLasts BY BarsOf, AnswersDiffer
  <2> QED BY <1>m, <2>1, SteadySaysMore
<1>f. /\ fw'.in = fw.in /\ fw'.out = (IF decode THEN "pause" ELSE fw.out)
      /\ fw'.data = fw.data /\ fw'.psc = fw.psc /\ fw'.drain = "none"
  BY FwTyped DEF FwDrainLast
<1>o. SteadyOrder'
  <2>1. UNCHANGED <<session, client, signal>> BY DEF FwDrainLast, Says
  <2>2. SteadyMsgBars' = SteadyMsgBars BY <2>1, SteadyDriver
  <2> QED BY <1>g, <1>d, <1>a, <2>2 DEF SteadyOrder
<1>l. (Ordered(cmds', OutThenIn) <=> Ordered(cmds, OutThenIn))
      /\ (Ordered(cmds', LateResume) <=> Ordered(cmds, LateResume))
  BY <1>d
<1>1. Call("in", StartIn, StopIn, StopDoneIn)'
  BY <1>g, <1>p, <1>d, <1>c, <1>s, <1>w, <1>f, <1>l, FwTyped DEF Call
<1>2. Call("out", StartOut, StopOut, StopDoneOut)'
  BY <1>g, <1>p, <1>d, <1>c, <1>s, <1>w, <1>f, <1>l, FwTyped DEF Call
<1>3. Calls'
  BY <1>g, <1>p, <1>d, <1>c, <1>s, <1>w, <1>f, <1>l, <1>1, <1>2 DEF Calls
<1>4. SteadyHeard'
  BY <1>g, <1>p, <1>d, <1>c, <1>s, <1>w, <1>f, <1>l, FwTyped DEF SteadyHeard
<1>5. SteadySequences'
  BY <1>g, <1>p, <1>d, <1>c, <1>s, <1>w, <1>f, <1>l, FwTyped DEF SteadySequences
<1>6. SteadyDrain'
  BY <1>g, <1>p, <1>d, <1>c, <1>s, <1>w, <1>f, <1>l, FwTyped DEF SteadyDrain
<1>7. SteadyDrc'
  BY <1>g, <1>p, <1>d, <1>c, <1>s, <1>w, <1>f, <1>l, FwTyped, NoLateResume DEF SteadyDrc
<1>8. SteadyInput'
  BY <1>g, <1>p, <1>d, <1>c, <1>s, <1>w, <1>f, <1>l, FwTyped, NoLateResume DEF SteadyInput
<1>9. SteadyOutput'
  BY <1>g, <1>p, <1>d, <1>c, <1>s, <1>w, <1>f, <1>l, FwTyped DEF SteadyOutput
<1>10. PauseEnds'
  BY <1>g, <1>p, <1>d, <1>c, <1>s, <1>w, <1>f, <1>l, FwTyped, LastComes DEF PauseEnds
<1> QED BY <1>o, <1>3, <1>4, <1>5, <1>6, <1>7, <1>8, <1>9, <1>10 DEF Steady

\* What does not follow the answer the driver takes.
LEMMA SteadyAnswer ==
  ASSUME TypeOK, SteadyOrder, msgs # << >>, msgs' = Tail(msgs)
  PROVE  /\ \A m : Said(m) <=> Head(msgs) = m \/ Said(m)'
         /\ Ordered(msgs', SteadyMsgBars)
         /\ Ordered(msgs, TwoLasts) => Ordered(msgs', TwoLasts)
         /\ Head(msgs) = Ipsc => ~Said(Ipsc)'
         /\ Head(msgs) = PscLast /\ Ordered(msgs, TwoLasts) => ~Said(PscLast)'
         /\ Head(msgs) = DrainDone => ~Said(Ipsc)'
         /\ Head(msgs) = DrainLast => ~Said(DrainLast)' /\ ~Said(DrainDone)' /\ ~Said(PscLast)'
         /\ Head(msgs) = StopDoneIn => /\ ~Said(StopDoneIn)' /\ ~Said(Ipsc)'
                                       /\ ~Said(DrainDone)' /\ ~Said(PscLast)'
                                       /\ decode => ~Said(DrainLast)'
         /\ Head(msgs) = StopDoneOut => ~Said(StopDoneOut)' /\ ~Said(PscLast)' /\ ~Said(DrainLast)'
<1>1. msgs \in Seq(Msgs) /\ Ordered(msgs, SteadyMsgBars) BY DEF TypeOK, SteadyOrder
<1>2. \A m : Said(m) <=> Head(msgs) = m \/ Said(m)'
  BY <1>1, InFlightHead DEF Said
<1>3. /\ Ordered(msgs', SteadyMsgBars)
      /\ \A m : Said(m)' => <<Head(msgs), m>> \notin SteadyMsgBars
  BY <1>1, OrderedRest DEF Said
<1>4. Ordered(msgs, TwoLasts) =>
        /\ Ordered(msgs', TwoLasts)
        /\ \A m : Said(m)' => <<Head(msgs), m>> \notin TwoLasts
  BY <1>1, OrderedRest DEF Said
<1>5. /\ <<Ipsc, Ipsc>> \in MsgBars
      /\ <<DrainDone, Ipsc>> \in MsgBars
      /\ <<DrainLast, DrainLast>> \in MsgBars /\ <<DrainLast, DrainDone>> \in MsgBars
      /\ <<DrainLast, PscLast>> \in MsgBars
      /\ <<StopDoneIn, StopDoneIn>> \in MsgBars /\ <<StopDoneIn, Ipsc>> \in MsgBars
      /\ <<StopDoneIn, DrainDone>> \in MsgBars /\ <<StopDoneIn, PscLast>> \in MsgBars
      /\ decode => <<StopDoneIn, DrainLast>> \in MsgBars
      /\ <<StopDoneOut, StopDoneOut>> \in MsgBars /\ <<StopDoneOut, PscLast>> \in MsgBars
      /\ <<StopDoneOut, DrainLast>> \in MsgBars
      /\ <<PscLast, PscLast>> \in TwoLasts
  BY DEF MsgBars, TwoLasts
<1>6. \A a, b : <<a, b>> \in MsgBars /\ a # PscLast => <<a, b>> \in SteadyMsgBars
  BY DEF SteadyMsgBars
<1>7. /\ <<Ipsc, Ipsc>> \in SteadyMsgBars
      /\ <<DrainDone, Ipsc>> \in SteadyMsgBars
      /\ <<DrainLast, DrainLast>> \in SteadyMsgBars
      /\ <<DrainLast, DrainDone>> \in SteadyMsgBars /\ <<DrainLast, PscLast>> \in SteadyMsgBars
      /\ <<StopDoneIn, StopDoneIn>> \in SteadyMsgBars /\ <<StopDoneIn, Ipsc>> \in SteadyMsgBars
      /\ <<StopDoneIn, DrainDone>> \in SteadyMsgBars
      /\ <<StopDoneIn, PscLast>> \in SteadyMsgBars
      /\ decode => <<StopDoneIn, DrainLast>> \in SteadyMsgBars
      /\ <<StopDoneOut, StopDoneOut>> \in SteadyMsgBars
      /\ <<StopDoneOut, PscLast>> \in SteadyMsgBars /\ <<StopDoneOut, DrainLast>> \in SteadyMsgBars
  <2>1. Ipsc # PscLast /\ DrainDone # PscLast /\ DrainLast # PscLast
        /\ StopDoneIn # PscLast /\ StopDoneOut # PscLast
    BY AnswersDiffer
  <2> QED BY <1>5, <1>6, <2>1
<1> QED BY <1>2, <1>3, <1>4, <1>5, <1>7

\* What is known when the driver has taken an answer.
LEMMA SteadyAnswered ==
  ASSUME TypeOK, Steady, msgs # << >>, msgs' = Tail(msgs),
         UNCHANGED <<vb2, decode, closing, packet, client, cmds, fw, alive>>
  PROVE  /\ \A m : Sent(m)' <=> Sent(m)
         /\ cmds' = cmds /\ fw' = fw /\ client' = client /\ decode' = decode
         /\ Ordered(cmds', LateResume) <=> Ordered(cmds, LateResume)
         /\ Ordered(cmds', OutThenIn) <=> Ordered(cmds, OutThenIn)
         /\ SteadyOrder'
<1>1. SteadyOrder BY SteadyIs
<1>2. cmds' = cmds /\ fw' = fw /\ client' = client /\ decode' = decode OBVIOUS
<1>3. \A m : Sent(m)' <=> Sent(m) BY <1>2 DEF Sent
<1>4. Ordered(msgs', SteadyMsgBars) BY <1>1, SteadyAnswer
<1>5. SteadyMsgBars' = SteadyMsgBars BY <1>2 DEF MsgBars, SteadyMsgBars
<1>6. SteadyOrder' BY <1>1, <1>2, <1>4, <1>5 DEF SteadyOrder
<1> QED BY <1>2, <1>3, <1>6

\* The driver reads a settings change.
LEMMA SteadyIpscRead ==
  ASSUME TypeOK, SequencesNest, Ports, Fine, Steady, msgs # << >>, msgs' = Tail(msgs),
         UNCHANGED <<vb2, decode, closing, packet, client, cmds, fw, alive>>,
         HandleIpsc, state' # "ERROR"
  PROVE  Steady'
<1>g. /\ SteadyOrder /\ Calls /\ SteadyHeard /\ SteadySequences /\ SteadyDrain
      /\ SteadyDrc /\ SteadyInput /\ SteadyOutput /\ PauseEnds
      /\ Call("in", StartIn, StopIn, StopDoneIn)
      /\ Call("out", StartOut, StopOut, StopDoneOut)
  BY SteadyIs
<1>t. /\ \A a : Sent(a)' <=> Sent(a)
      /\ cmds' = cmds /\ fw' = fw /\ client' = client /\ decode' = decode
      /\ Ordered(cmds', LateResume) <=> Ordered(cmds, LateResume)
      /\ Ordered(cmds', OutThenIn) <=> Ordered(cmds, OutThenIn)
      /\ SteadyOrder'
  BY SteadyAnswered
<1>r. state \notin {"ERROR", "CLOSE"} /\ client \in Port \cup {"idle"}
      /\ (Streaming("in") /\ client # "in" /\ fw.in = "stop" => Sent(StartIn))
      /\ (Streaming("out") /\ client # "out" /\ fw.out = "stop" => Sent(StartOut))
  BY PortsSay DEF Fine, Well, TypeOK
<1>k. /\ \A a : Said(a) <=> Head(msgs) = a \/ Said(a)'
      /\ Ordered(msgs, TwoLasts) => Ordered(msgs', TwoLasts)
  BY <1>g, SteadyAnswer
<1>h. Head(msgs) = Ipsc
  BY <1>g, <1>k DEF HandleIpsc, Ipsc, Calls
<1>s. /\ Said(Ipsc)
      /\ Said(PscLast)' <=> Said(PscLast)
      /\ Said(DrainDone)' <=> Said(DrainDone)
      /\ Said(DrainLast)' <=> Said(DrainLast)
      /\ Said(StopDoneIn)' <=> Said(StopDoneIn)
      /\ Said(StopDoneOut)' <=> Said(StopDoneOut)
      /\ \A a \in {<<"close_done">>, <<"error">>, <<"stop_error", "in">>, <<"stop_error", "out">>} :
           Said(a)' <=> Said(a)
  BY <1>k, <1>h, AnswersDiffer
<1>n. ~Said(Ipsc)'
  BY <1>g, <1>h, SteadyAnswer
<1>p. /\ Streaming("in") /\ "in" \notin signal /\ decode /\ ~Paused
      /\ "DRC_LAST" \notin sub
      /\ ~Sent(ResumeIn) /\ ~Sent(StartIn) /\ fw.in # "run"
      /\ state \in {"STREAMING", "INPUT_STREAMING"}
  BY <1>g, <1>s, <1>n, <1>r, FwTyped, StreamingStates, NothingInFlight
     DEF Call, SteadyHeard, SteadySequences, SteadyDrain, SteadyDrc, SteadyInput, SteadyOutput,
         InputOver, DrcWaits, DrainWaits, Paused, Sent, SequencesNest
<1>e. /\ state' = state /\ signal' = signal /\ "DRC" \notin sub /\ ~DrcWaits
      /\ state = "INPUT_STREAMING" => sub' = sub \cup {"INPUT_PAUSE", "FIRST_IPSC"}
      /\ state = "STREAMING" => sub' = sub \cup {"DRC", "INPUT_PAUSE"}
  BY <1>r, <1>p, <1>h, StreamingStates, AnswersDiffer, FailsToError
     DEF TypeOK, HandleIpsc, CanSet, SetSub, Refused, LastIsMissing, DrcWaits, DrainWaits,
         Paused, Ipsc
<1>w. /\ Streaming("in")' <=> Streaming("in")
      /\ Streaming("out")' <=> Streaming("out")
      /\ state = "STREAMING" => DrcWaits'
      /\ state = "INPUT_STREAMING" => ~DrcWaits'
      /\ DrainWaits' <=> DrainWaits
      /\ Paused' /\ (OutPaused' <=> OutPaused)
      /\ (InputOver' <=> InputOver) /\ ~InputOver'
      /\ "DRC_LAST" \notin sub'
      /\ ("DRAIN_LAST" \in sub') <=> ("DRAIN_LAST" \in sub)
  BY <1>r, <1>p, <1>e, StreamingStates
     DEF DrcWaits, DrainWaits, Paused, OutPaused, InputOver, SequencesNest
<1>1. Call("in", StartIn, StopIn, StopDoneIn)'
  BY <1>g, <1>t, <1>r, <1>k, <1>s, <1>n, <1>p, <1>e, <1>w, StreamingStates, FwTyped DEF Call
<1>2. Call("out", StartOut, StopOut, StopDoneOut)'
  BY <1>g, <1>t, <1>r, <1>k, <1>s, <1>n, <1>p, <1>e, <1>w, StreamingStates, FwTyped DEF Call
<1>3. Calls'
  BY <1>g, <1>t, <1>r, <1>k, <1>s, <1>n, <1>p, <1>e, <1>w, StreamingStates, <1>1, <1>2 DEF Calls
<1>4. SteadyHeard'
  BY <1>g, <1>t, <1>r, <1>k, <1>s, <1>n, <1>p, <1>e, <1>w, StreamingStates, FwTyped
     DEF SteadyHeard
<1>5. SteadySequences'
  BY <1>g, <1>t, <1>r, <1>k, <1>s, <1>n, <1>p, <1>e, <1>w, StreamingStates, FwTyped
     DEF SteadySequences
<1>6. SteadyDrain'
  BY <1>g, <1>t, <1>r, <1>k, <1>s, <1>n, <1>p, <1>e, <1>w, StreamingStates, FwTyped
     DEF SteadyDrain
<1>7. SteadyDrc'
  BY <1>g, <1>t, <1>r, <1>k, <1>s, <1>n, <1>p, <1>e, <1>w, StreamingStates, FwTyped,
     NoLateResume
     DEF SteadyDrc, Call, SteadyHeard, SteadySequences
<1>8. SteadyInput'
  BY <1>g, <1>t, <1>r, <1>k, <1>s, <1>n, <1>p, <1>e, <1>w, StreamingStates, FwTyped,
     NoLateResume
     DEF SteadyInput
<1>9. SteadyOutput'
  BY <1>g, <1>t, <1>r, <1>k, <1>s, <1>n, <1>p, <1>e, <1>w, StreamingStates, FwTyped
     DEF SteadyOutput
<1>10. PauseEnds'
  BY <1>g, <1>t, <1>r, <1>k, <1>s, <1>n, <1>p, <1>e, <1>w, StreamingStates, FwTyped, LastComes
     DEF PauseEnds, SteadyDrc
<1> QED BY <1>t, <1>3, <1>4, <1>5, <1>6, <1>7, <1>8, <1>9, <1>10 DEF Steady

\* The driver reads the last buffer before a settings change.
LEMMA SteadyPscLastRead ==
  ASSUME TypeOK, SequencesNest, Ports, Fine, Steady, msgs # << >>, msgs' = Tail(msgs),
         UNCHANGED <<vb2, decode, closing, packet, client, cmds, fw, alive>>,
         HandleLast("psc_last", "DRC", "DRC_LAST"), state' # "ERROR"
  PROVE  Steady'
<1>g. /\ SteadyOrder /\ Calls /\ SteadyHeard /\ SteadySequences /\ SteadyDrain
      /\ SteadyDrc /\ SteadyInput /\ SteadyOutput /\ PauseEnds
      /\ Call("in", StartIn, StopIn, StopDoneIn)
      /\ Call("out", StartOut, StopOut, StopDoneOut)
  BY SteadyIs
<1>t. /\ \A a : Sent(a)' <=> Sent(a)
      /\ cmds' = cmds /\ fw' = fw /\ client' = client /\ decode' = decode
      /\ Ordered(cmds', LateResume) <=> Ordered(cmds, LateResume)
      /\ Ordered(cmds', OutThenIn) <=> Ordered(cmds, OutThenIn)
      /\ SteadyOrder'
  BY SteadyAnswered
<1>r. state \notin {"ERROR", "CLOSE"} /\ client \in Port \cup {"idle"}
      /\ (Streaming("in") /\ client # "in" /\ fw.in = "stop" => Sent(StartIn))
      /\ (Streaming("out") /\ client # "out" /\ fw.out = "stop" => Sent(StartOut))
  BY PortsSay DEF Fine, Well, TypeOK
<1>k. /\ \A a : Said(a) <=> Head(msgs) = a \/ Said(a)'
      /\ Ordered(msgs, TwoLasts) => Ordered(msgs', TwoLasts)
  BY <1>g, SteadyAnswer
<1>h. Head(msgs) = PscLast
  BY <1>g, <1>k DEF HandleLast, PscLast, Calls
<1>s. /\ Said(PscLast)
      /\ Said(Ipsc)' <=> Said(Ipsc)
      /\ Said(DrainDone)' <=> Said(DrainDone)
      /\ Said(DrainLast)' <=> Said(DrainLast)
      /\ Said(StopDoneIn)' <=> Said(StopDoneIn)
      /\ Said(StopDoneOut)' <=> Said(StopDoneOut)
      /\ \A a \in {<<"close_done">>, <<"error">>, <<"stop_error", "in">>, <<"stop_error", "out">>} :
           Said(a)' <=> Said(a)
  BY <1>k, <1>h, AnswersDiffer
<1>n. Ordered(msgs, TwoLasts) => ~Said(PscLast)'
  BY <1>g, <1>h, SteadyAnswer
<1>p. /\ Streaming("in") /\ Streaming("out") /\ "in" \notin signal /\ "out" \notin signal
      /\ state = "STREAMING" /\ ~Sent(StartOut) /\ fw.drain # "last"
      /\ fw.out # "run" /\ ~Sent(ResumeOut)
      /\ fw.out = "stop" => client = "out"
      /\ Said(DrainLast) => client = "in"
  BY <1>g, <1>s, <1>n, <1>r, FwTyped, StreamingStates, NothingInFlight
     DEF Call, SteadyHeard, SteadySequences, SteadyDrain, SteadyDrc, SteadyInput, SteadyOutput,
         InputOver, DrcWaits, DrainWaits, Paused, Sent, SequencesNest
<1>e. /\ state' = state /\ signal' = signal
      /\ DrcWaits /\ Paused /\ "DRC" \in sub /\ "DRC_LAST" \notin sub
      /\ sub' = sub \cup {"DRC_LAST", "OUTPUT_PAUSE"}
  BY <1>r, <1>p, <1>h, StreamingStates, AnswersDiffer, FailsToError
     DEF TypeOK, HandleLast, CanSet, SetSub, Refused, LastIsMissing, DrcWaits, DrainWaits,
         Paused, PscLast
<1>w. /\ Streaming("in")' <=> Streaming("in")
      /\ Streaming("out")' <=> Streaming("out")
      /\ ~DrcWaits'
      /\ DrainWaits' <=> DrainWaits
      /\ Paused' /\ OutPaused'
      /\ InputOver' <=> InputOver
      /\ "DRC_LAST" \in sub'
      /\ ("DRC" \in sub') <=> ("DRC" \in sub)
      /\ ("FIRST_IPSC" \in sub') <=> ("FIRST_IPSC" \in sub)
      /\ ("DRAIN_LAST" \in sub') <=> ("DRAIN_LAST" \in sub)
  BY <1>r, <1>p, <1>e, StreamingStates
     DEF DrcWaits, DrainWaits, Paused, OutPaused, InputOver, SequencesNest
<1>1. Call("in", StartIn, StopIn, StopDoneIn)'
  BY <1>g, <1>t, <1>r, <1>k, <1>s, <1>n, <1>p, <1>e, <1>w, StreamingStates, FwTyped DEF Call
<1>2. Call("out", StartOut, StopOut, StopDoneOut)'
  BY <1>g, <1>t, <1>r, <1>k, <1>s, <1>n, <1>p, <1>e, <1>w, StreamingStates, FwTyped DEF Call
<1>3. Calls'
  BY <1>g, <1>t, <1>r, <1>k, <1>s, <1>n, <1>p, <1>e, <1>w, StreamingStates, <1>1, <1>2 DEF Calls
<1>4. SteadyHeard'
  BY <1>g, <1>t, <1>r, <1>k, <1>s, <1>n, <1>p, <1>e, <1>w, StreamingStates, FwTyped
     DEF SteadyHeard
<1>5. SteadySequences'
  BY <1>g, <1>t, <1>r, <1>k, <1>s, <1>n, <1>p, <1>e, <1>w, StreamingStates, FwTyped
     DEF SteadySequences
<1>6. SteadyDrain'
  BY <1>g, <1>t, <1>r, <1>k, <1>s, <1>n, <1>p, <1>e, <1>w, StreamingStates, FwTyped
     DEF SteadyDrain
<1>7. SteadyDrc'
  BY <1>g, <1>t, <1>r, <1>k, <1>s, <1>n, <1>p, <1>e, <1>w, StreamingStates, FwTyped,
     NoLateResume
     DEF SteadyDrc, SteadyInput
<1>8. SteadyInput'
  BY <1>g, <1>t, <1>r, <1>k, <1>s, <1>n, <1>p, <1>e, <1>w, StreamingStates, FwTyped,
     NoLateResume
     DEF SteadyInput
<1>9. SteadyOutput'
  BY <1>g, <1>t, <1>r, <1>k, <1>s, <1>n, <1>p, <1>e, <1>w, StreamingStates, FwTyped
     DEF SteadyOutput, SteadyDrc, SteadyInput
<1>10. PauseEnds'
  BY <1>g, <1>t, <1>r, <1>k, <1>s, <1>n, <1>p, <1>e, <1>w, StreamingStates, FwTyped, LastComes
     DEF PauseEnds
<1> QED BY <1>t, <1>3, <1>4, <1>5, <1>6, <1>7, <1>8, <1>9, <1>10 DEF Steady

\* The driver reads the last buffer of a drain.
LEMMA SteadyDrainLastRead ==
  ASSUME TypeOK, SequencesNest, Ports, Fine, Steady, msgs # << >>, msgs' = Tail(msgs),
         UNCHANGED <<vb2, decode, closing, packet, client, cmds, fw, alive>>,
         HandleLast("drain_last", "DRAIN", "DRAIN_LAST"), state' # "ERROR"
  PROVE  Steady'
<1>g. /\ SteadyOrder /\ Calls /\ SteadyHeard /\ SteadySequences /\ SteadyDrain
      /\ SteadyDrc /\ SteadyInput /\ SteadyOutput /\ PauseEnds
      /\ Call("in", StartIn, StopIn, StopDoneIn)
      /\ Call("out", StartOut, StopOut, StopDoneOut)
  BY SteadyIs
<1>t. /\ \A a : Sent(a)' <=> Sent(a)
      /\ cmds' = cmds /\ fw' = fw /\ client' = client /\ decode' = decode
      /\ Ordered(cmds', LateResume) <=> Ordered(cmds, LateResume)
      /\ Ordered(cmds', OutThenIn) <=> Ordered(cmds, OutThenIn)
      /\ SteadyOrder'
  BY SteadyAnswered
<1>r. state \notin {"ERROR", "CLOSE"} /\ client \in Port \cup {"idle"}
      /\ (Streaming("in") /\ client # "in" /\ fw.in = "stop" => Sent(StartIn))
      /\ (Streaming("out") /\ client # "out" /\ fw.out = "stop" => Sent(StartOut))
  BY PortsSay DEF Fine, Well, TypeOK
<1>k. /\ \A a : Said(a) <=> Head(msgs) = a \/ Said(a)'
      /\ Ordered(msgs, TwoLasts) => Ordered(msgs', TwoLasts)
  BY <1>g, SteadyAnswer
<1>h. Head(msgs) = DrainLast
  BY <1>g, <1>k DEF HandleLast, DrainLast, Calls
<1>s. /\ Said(DrainLast)
      /\ Said(Ipsc)' <=> Said(Ipsc)
      /\ Said(PscLast)' <=> Said(PscLast)
      /\ Said(DrainDone)' <=> Said(DrainDone)
      /\ Said(StopDoneIn)' <=> Said(StopDoneIn)
      /\ Said(StopDoneOut)' <=> Said(StopDoneOut)
      /\ \A a \in {<<"close_done">>, <<"error">>, <<"stop_error", "in">>, <<"stop_error", "out">>} :
           Said(a)' <=> Said(a)
  BY <1>k, <1>h, AnswersDiffer
<1>n. ~Said(DrainLast)' /\ ~Said(DrainDone)' /\ ~Said(PscLast)'
  BY <1>g, <1>h, SteadyAnswer
<1>p. /\ "out" \notin signal /\ ~Sent(StartOut) /\ ~Sent(Drain) /\ fw.drain = "none"
      /\ Streaming("out") \/ (decode /\ client = "in")
      /\ decode => fw.out # "run" /\ ~Sent(ResumeOut) /\ Streaming("in") /\ fw.in # "run"
  BY <1>g, <1>s, <1>n, <1>r, FwTyped, StreamingStates, NothingInFlight
     DEF Call, SteadyHeard, SteadySequences, SteadyDrain, SteadyDrc, SteadyInput, SteadyOutput,
         InputOver, DrcWaits, DrainWaits, Paused, Sent, SequencesNest
<1>e. /\ state' = state /\ signal' = signal
      /\ DrainWaits /\ Paused /\ "DRAIN" \in sub /\ "DRAIN_LAST" \notin sub
      /\ sub' = sub \cup {"DRAIN_LAST", "OUTPUT_PAUSE"}
  BY <1>r, <1>p, <1>h, StreamingStates, AnswersDiffer, FailsToError
     DEF TypeOK, HandleLast, CanSet, SetSub, Refused, LastIsMissing, DrcWaits, DrainWaits,
         Paused, DrainLast
<1>w. /\ Streaming("in")' <=> Streaming("in")
      /\ Streaming("out")' <=> Streaming("out")
      /\ ~DrainWaits'
      /\ DrcWaits' <=> DrcWaits
      /\ Paused' /\ OutPaused'
      /\ InputOver' <=> InputOver
      /\ "DRAIN_LAST" \in sub'
      /\ ("DRC" \in sub') <=> ("DRC" \in sub)
      /\ ("FIRST_IPSC" \in sub') <=> ("FIRST_IPSC" \in sub)
      /\ ("DRC_LAST" \in sub') <=> ("DRC_LAST" \in sub)
  BY <1>r, <1>p, <1>e, StreamingStates
     DEF DrcWaits, DrainWaits, Paused, OutPaused, InputOver, SequencesNest
<1>1. Call("in", StartIn, StopIn, StopDoneIn)'
  BY <1>g, <1>t, <1>r, <1>k, <1>s, <1>n, <1>p, <1>e, <1>w, StreamingStates, FwTyped DEF Call
<1>2. Call("out", StartOut, StopOut, StopDoneOut)'
  BY <1>g, <1>t, <1>r, <1>k, <1>s, <1>n, <1>p, <1>e, <1>w, StreamingStates, FwTyped DEF Call
<1>3. Calls'
  BY <1>g, <1>t, <1>r, <1>k, <1>s, <1>n, <1>p, <1>e, <1>w, StreamingStates, <1>1, <1>2 DEF Calls
<1>4. SteadyHeard'
  BY <1>g, <1>t, <1>r, <1>k, <1>s, <1>n, <1>p, <1>e, <1>w, StreamingStates, FwTyped
     DEF SteadyHeard
<1>5. SteadySequences'
  BY <1>g, <1>t, <1>r, <1>k, <1>s, <1>n, <1>p, <1>e, <1>w, StreamingStates, FwTyped
     DEF SteadySequences
<1>6. SteadyDrain'
  BY <1>g, <1>t, <1>r, <1>k, <1>s, <1>n, <1>p, <1>e, <1>w, StreamingStates, FwTyped
     DEF SteadyDrain
<1>7. SteadyDrc'
  BY <1>g, <1>t, <1>r, <1>k, <1>s, <1>n, <1>p, <1>e, <1>w, StreamingStates, FwTyped,
     NoLateResume
     DEF SteadyDrc
<1>8. SteadyInput'
  BY <1>g, <1>t, <1>r, <1>k, <1>s, <1>n, <1>p, <1>e, <1>w, StreamingStates, FwTyped,
     NoLateResume
     DEF SteadyInput
<1>9. SteadyOutput'
  BY <1>g, <1>t, <1>r, <1>k, <1>s, <1>n, <1>p, <1>e, <1>w, StreamingStates, FwTyped
     DEF SteadyOutput, SteadySequences, SteadyHeard
<1>10. PauseEnds'
  BY <1>g, <1>t, <1>r, <1>k, <1>s, <1>n, <1>p, <1>e, <1>w, StreamingStates, FwTyped, LastComes
     DEF PauseEnds
<1> QED BY <1>t, <1>3, <1>4, <1>5, <1>6, <1>7, <1>8, <1>9, <1>10 DEF Steady

\* The driver reads the answer to a drain.
LEMMA SteadyDrainDoneRead ==
  ASSUME TypeOK, SequencesNest, Ports, Fine, Steady, msgs # << >>, msgs' = Tail(msgs),
         UNCHANGED <<vb2, decode, closing, packet, client, cmds, fw, alive>>,
         HandleDrainDone, state' # "ERROR"
  PROVE  Steady'
<1>g. /\ SteadyOrder /\ Calls /\ SteadyHeard /\ SteadySequences /\ SteadyDrain
      /\ SteadyDrc /\ SteadyInput /\ SteadyOutput /\ PauseEnds
      /\ Call("in", StartIn, StopIn, StopDoneIn)
      /\ Call("out", StartOut, StopOut, StopDoneOut)
  BY SteadyIs
<1>t. /\ \A a : Sent(a)' <=> Sent(a)
      /\ cmds' = cmds /\ fw' = fw /\ client' = client /\ decode' = decode
      /\ Ordered(cmds', LateResume) <=> Ordered(cmds, LateResume)
      /\ Ordered(cmds', OutThenIn) <=> Ordered(cmds, OutThenIn)
      /\ SteadyOrder'
  BY SteadyAnswered
<1>r. state \notin {"ERROR", "CLOSE"} /\ client \in Port \cup {"idle"}
      /\ (Streaming("in") /\ client # "in" /\ fw.in = "stop" => Sent(StartIn))
      /\ (Streaming("out") /\ client # "out" /\ fw.out = "stop" => Sent(StartOut))
  BY PortsSay DEF Fine, Well, TypeOK
<1>k. /\ \A a : Said(a) <=> Head(msgs) = a \/ Said(a)'
      /\ Ordered(msgs, TwoLasts) => Ordered(msgs', TwoLasts)
  BY <1>g, SteadyAnswer
<1>h. Head(msgs) = DrainDone
  BY <1>g, <1>k DEF HandleDrainDone, DrainDone, Calls
<1>s. /\ Said(DrainDone)
      /\ Said(Ipsc)' <=> Said(Ipsc)
      /\ Said(PscLast)' <=> Said(PscLast)
      /\ Said(DrainLast)' <=> Said(DrainLast)
      /\ Said(StopDoneIn)' <=> Said(StopDoneIn)
      /\ Said(StopDoneOut)' <=> Said(StopDoneOut)
      /\ \A a \in {<<"close_done">>, <<"error">>, <<"stop_error", "in">>, <<"stop_error", "out">>} :
           Said(a)' <=> Said(a)
  BY <1>k, <1>h, AnswersDiffer
<1>n. ~Said(Ipsc)'
  BY <1>g, <1>h, SteadyAnswer
<1>p. /\ Streaming("in") /\ "in" \notin signal
      /\ DrainWaits /\ "DRAIN" \in sub
      /\ ~Sent(ResumeIn) /\ ~Sent(StartIn) /\ fw.in # "run"
  BY <1>g, <1>s, <1>n, <1>r, FwTyped, StreamingStates, NothingInFlight
     DEF Call, SteadyHeard, SteadySequences, SteadyDrain, SteadyDrc, SteadyInput, SteadyOutput,
         InputOver, DrcWaits, DrainWaits, Paused, Sent, SequencesNest
<1>e. /\ state' = state /\ signal' = signal
      /\ sub' = sub \cup {"INPUT_PAUSE"}
  BY <1>r, <1>p, <1>h, StreamingStates, AnswersDiffer, FailsToError
     DEF TypeOK, HandleDrainDone, CanSet, SetSub, Refused, LastIsMissing, DrcWaits, DrainWaits,
         Paused, DrainDone
<1>w. /\ Streaming("in")' <=> Streaming("in")
      /\ Streaming("out")' <=> Streaming("out")
      /\ DrcWaits' <=> DrcWaits
      /\ DrainWaits' <=> DrainWaits
      /\ Paused' /\ (OutPaused' <=> OutPaused)
      /\ InputOver' <=> InputOver
      /\ ("DRC" \in sub') <=> ("DRC" \in sub)
      /\ ("FIRST_IPSC" \in sub') <=> ("FIRST_IPSC" \in sub)
      /\ ("DRC_LAST" \in sub') <=> ("DRC_LAST" \in sub)
      /\ ("DRAIN_LAST" \in sub') <=> ("DRAIN_LAST" \in sub)
  BY <1>r, <1>p, <1>e, StreamingStates
     DEF DrcWaits, DrainWaits, Paused, OutPaused, InputOver, SequencesNest
<1>1. Call("in", StartIn, StopIn, StopDoneIn)'
  BY <1>g, <1>t, <1>r, <1>k, <1>s, <1>n, <1>p, <1>e, <1>w, StreamingStates, FwTyped DEF Call
<1>2. Call("out", StartOut, StopOut, StopDoneOut)'
  BY <1>g, <1>t, <1>r, <1>k, <1>s, <1>n, <1>p, <1>e, <1>w, StreamingStates, FwTyped DEF Call
<1>3. Calls'
  BY <1>g, <1>t, <1>r, <1>k, <1>s, <1>n, <1>p, <1>e, <1>w, StreamingStates, <1>1, <1>2 DEF Calls
<1>4. SteadyHeard'
  BY <1>g, <1>t, <1>r, <1>k, <1>s, <1>n, <1>p, <1>e, <1>w, StreamingStates, FwTyped
     DEF SteadyHeard
<1>5. SteadySequences'
  BY <1>g, <1>t, <1>r, <1>k, <1>s, <1>n, <1>p, <1>e, <1>w, StreamingStates, FwTyped
     DEF SteadySequences
<1>6. SteadyDrain'
  BY <1>g, <1>t, <1>r, <1>k, <1>s, <1>n, <1>p, <1>e, <1>w, StreamingStates, FwTyped
     DEF SteadyDrain
<1>7. SteadyDrc'
  BY <1>g, <1>t, <1>r, <1>k, <1>s, <1>n, <1>p, <1>e, <1>w, StreamingStates, FwTyped,
     NoLateResume
     DEF SteadyDrc
<1>8. SteadyInput'
  BY <1>g, <1>t, <1>r, <1>k, <1>s, <1>n, <1>p, <1>e, <1>w, StreamingStates, FwTyped,
     NoLateResume
     DEF SteadyInput
<1>9. SteadyOutput'
  BY <1>g, <1>t, <1>r, <1>k, <1>s, <1>n, <1>p, <1>e, <1>w, StreamingStates, FwTyped
     DEF SteadyOutput
<1>10. PauseEnds'
  BY <1>g, <1>t, <1>r, <1>k, <1>s, <1>n, <1>p, <1>e, <1>w, StreamingStates, FwTyped, LastComes
     DEF PauseEnds, SteadyDrain
<1> QED BY <1>t, <1>3, <1>4, <1>5, <1>6, <1>7, <1>8, <1>9, <1>10 DEF Steady

\* The driver reads the answer to the stop of the input.
LEMMA SteadyStopDoneInRead ==
  ASSUME TypeOK, SequencesNest, Ports, Fine, Steady, msgs # << >>, msgs' = Tail(msgs),
         UNCHANGED <<vb2, decode, closing, packet, client, cmds, fw, alive>>,
         HandleStopDone("in"), state' # "ERROR"
  PROVE  Steady'
<1>g. /\ SteadyOrder /\ Calls /\ SteadyHeard /\ SteadySequences /\ SteadyDrain
      /\ SteadyDrc /\ SteadyInput /\ SteadyOutput /\ PauseEnds
      /\ Call("in", StartIn, StopIn, StopDoneIn)
      /\ Call("out", StartOut, StopOut, StopDoneOut)
  BY SteadyIs
<1>t. /\ \A a : Sent(a)' <=> Sent(a)
      /\ cmds' = cmds /\ fw' = fw /\ client' = client /\ decode' = decode
      /\ Ordered(cmds', LateResume) <=> Ordered(cmds, LateResume)
      /\ Ordered(cmds', OutThenIn) <=> Ordered(cmds, OutThenIn)
      /\ SteadyOrder'
  BY SteadyAnswered
<1>r. state \notin {"ERROR", "CLOSE"} /\ client \in Port \cup {"idle"}
      /\ (Streaming("in") /\ client # "in" /\ fw.in = "stop" => Sent(StartIn))
      /\ (Streaming("out") /\ client # "out" /\ fw.out = "stop" => Sent(StartOut))
  BY PortsSay DEF Fine, Well, TypeOK
<1>k. /\ \A a : Said(a) <=> Head(msgs) = a \/ Said(a)'
      /\ Ordered(msgs, TwoLasts) => Ordered(msgs', TwoLasts)
  BY <1>g, SteadyAnswer
<1>h. Head(msgs) = StopDoneIn
  BY <1>g, <1>k DEF HandleStopDone, StopDoneIn, Calls
<1>s. /\ Said(StopDoneIn)
      /\ Said(Ipsc)' <=> Said(Ipsc)
      /\ Said(PscLast)' <=> Said(PscLast)
      /\ Said(DrainDone)' <=> Said(DrainDone)
      /\ Said(DrainLast)' <=> Said(DrainLast)
      /\ Said(StopDoneOut)' <=> Said(StopDoneOut)
      /\ \A a \in {<<"close_done">>, <<"error">>, <<"stop_error", "in">>, <<"stop_error", "out">>} :
           Said(a)' <=> Said(a)
  BY <1>k, <1>h, AnswersDiffer
<1>n. /\ ~Said(StopDoneIn)' /\ ~Said(Ipsc)' /\ ~Said(DrainDone)' /\ ~Said(PscLast)'
      /\ decode => ~Said(DrainLast)'
  BY <1>g, <1>h, SteadyAnswer
<1>p. /\ client = "in" /\ Streaming("in") /\ "in" \notin signal
      /\ cmds = << >> /\ fw.in = "stop" /\ fw.psc = "none"
      /\ \A a \in {StartIn, StartOut, PauseIn, ResumeIn, ResumeOut, Drain, Etb} : ~Sent(a)
  BY <1>g, <1>s, <1>n, <1>r, FwTyped, StreamingStates, NothingInFlight
     DEF Call, SteadyHeard, SteadySequences, SteadyDrain, SteadyDrc, SteadyInput, SteadyOutput,
         InputOver, DrcWaits, DrainWaits, Paused, Sent, SequencesNest
<1>e. /\ state' = state /\ signal' = signal \cup {"in"}
      /\ ~DrcWaits /\ (decode => ~DrainWaits)
      /\ sub' = sub \cup {"INPUT_PAUSE"}
  BY <1>r, <1>p, <1>h, StreamingStates, AnswersDiffer, FailsToError
     DEF TypeOK, HandleStopDone, CanSet, SetSub, Refused, LastIsMissing, DrcWaits, DrainWaits,
         Paused, StopDoneIn
<1>w. /\ Streaming("in")' <=> Streaming("in")
      /\ Streaming("out")' <=> Streaming("out")
      /\ DrcWaits' <=> DrcWaits
      /\ DrainWaits' <=> DrainWaits
      /\ Paused' /\ (OutPaused' <=> OutPaused)
      /\ InputOver'
      /\ ("DRC" \in sub') <=> ("DRC" \in sub)
      /\ ("FIRST_IPSC" \in sub') <=> ("FIRST_IPSC" \in sub)
      /\ ("DRC_LAST" \in sub') <=> ("DRC_LAST" \in sub)
      /\ ("DRAIN_LAST" \in sub') <=> ("DRAIN_LAST" \in sub)
  BY <1>r, <1>p, <1>e, StreamingStates
     DEF DrcWaits, DrainWaits, Paused, OutPaused, InputOver, SequencesNest
<1>1. Call("in", StartIn, StopIn, StopDoneIn)'
  BY <1>g, <1>t, <1>r, <1>k, <1>s, <1>n, <1>p, <1>e, <1>w, StreamingStates, FwTyped DEF Call
<1>2. Call("out", StartOut, StopOut, StopDoneOut)'
  BY <1>g, <1>t, <1>r, <1>k, <1>s, <1>n, <1>p, <1>e, <1>w, StreamingStates, FwTyped DEF Call
<1>3. Calls'
  BY <1>g, <1>t, <1>r, <1>k, <1>s, <1>n, <1>p, <1>e, <1>w, StreamingStates, <1>1, <1>2 DEF Calls
<1>4. SteadyHeard'
  BY <1>g, <1>t, <1>r, <1>k, <1>s, <1>n, <1>p, <1>e, <1>w, StreamingStates, FwTyped
     DEF SteadyHeard
<1>5. SteadySequences'
  BY <1>g, <1>t, <1>r, <1>k, <1>s, <1>n, <1>p, <1>e, <1>w, StreamingStates, FwTyped
     DEF SteadySequences
<1>6. SteadyDrain'
  BY <1>g, <1>t, <1>r, <1>k, <1>s, <1>n, <1>p, <1>e, <1>w, StreamingStates, FwTyped
     DEF SteadyDrain
<1>7. SteadyDrc'
  BY <1>g, <1>t, <1>r, <1>k, <1>s, <1>n, <1>p, <1>e, <1>w, StreamingStates, FwTyped,
     NoLateResume
     DEF SteadyDrc
<1>8. SteadyInput'
  BY <1>g, <1>t, <1>r, <1>k, <1>s, <1>n, <1>p, <1>e, <1>w, StreamingStates, FwTyped,
     NoLateResume
     DEF SteadyInput
<1>9. SteadyOutput'
  BY <1>g, <1>t, <1>r, <1>k, <1>s, <1>n, <1>p, <1>e, <1>w, StreamingStates, FwTyped
     DEF SteadyOutput
<1>10. PauseEnds'
  BY <1>g, <1>t, <1>r, <1>k, <1>s, <1>n, <1>p, <1>e, <1>w, StreamingStates, FwTyped, LastComes
     DEF PauseEnds
<1> QED BY <1>t, <1>3, <1>4, <1>5, <1>6, <1>7, <1>8, <1>9, <1>10 DEF Steady

\* The driver reads the answer to the stop of the output.
LEMMA SteadyStopDoneOutRead ==
  ASSUME TypeOK, SequencesNest, Ports, Fine, Steady, msgs # << >>, msgs' = Tail(msgs),
         UNCHANGED <<vb2, decode, closing, packet, client, cmds, fw, alive>>,
         HandleStopDone("out"), state' # "ERROR"
  PROVE  Steady'
<1>g. /\ SteadyOrder /\ Calls /\ SteadyHeard /\ SteadySequences /\ SteadyDrain
      /\ SteadyDrc /\ SteadyInput /\ SteadyOutput /\ PauseEnds
      /\ Call("in", StartIn, StopIn, StopDoneIn)
      /\ Call("out", StartOut, StopOut, StopDoneOut)
  BY SteadyIs
<1>t. /\ \A a : Sent(a)' <=> Sent(a)
      /\ cmds' = cmds /\ fw' = fw /\ client' = client /\ decode' = decode
      /\ Ordered(cmds', LateResume) <=> Ordered(cmds, LateResume)
      /\ Ordered(cmds', OutThenIn) <=> Ordered(cmds, OutThenIn)
      /\ SteadyOrder'
  BY SteadyAnswered
<1>r. state \notin {"ERROR", "CLOSE"} /\ client \in Port \cup {"idle"}
      /\ (Streaming("in") /\ client # "in" /\ fw.in = "stop" => Sent(StartIn))
      /\ (Streaming("out") /\ client # "out" /\ fw.out = "stop" => Sent(StartOut))
  BY PortsSay DEF Fine, Well, TypeOK
<1>k. /\ \A a : Said(a) <=> Head(msgs) = a \/ Said(a)'
      /\ Ordered(msgs, TwoLasts) => Ordered(msgs', TwoLasts)
  BY <1>g, SteadyAnswer
<1>h. Head(msgs) = StopDoneOut
  BY <1>g, <1>k DEF HandleStopDone, StopDoneOut, Calls
<1>s. /\ Said(StopDoneOut)
      /\ Said(Ipsc)' <=> Said(Ipsc)
      /\ Said(PscLast)' <=> Said(PscLast)
      /\ Said(DrainDone)' <=> Said(DrainDone)
      /\ Said(DrainLast)' <=> Said(DrainLast)
      /\ Said(StopDoneIn)' <=> Said(StopDoneIn)
      /\ \A a \in {<<"close_done">>, <<"error">>, <<"stop_error", "in">>, <<"stop_error", "out">>} :
           Said(a)' <=> Said(a)
  BY <1>k, <1>h, AnswersDiffer
<1>n. ~Said(StopDoneOut)' /\ ~Said(PscLast)' /\ ~Said(DrainLast)'
  BY <1>g, <1>h, SteadyAnswer
<1>p. /\ client = "out" /\ Streaming("out") /\ "out" \notin signal
      /\ cmds = << >> /\ fw.out = "stop"
      /\ \A a \in {StartIn, StartOut, PauseIn, ResumeIn, ResumeOut, Drain, Etb} : ~Sent(a)
  BY <1>g, <1>s, <1>n, <1>r, FwTyped, StreamingStates, NothingInFlight
     DEF Call, SteadyHeard, SteadySequences, SteadyDrain, SteadyDrc, SteadyInput, SteadyOutput,
         InputOver, DrcWaits, DrainWaits, Paused, Sent, SequencesNest
<1>e. /\ state' = state /\ signal' = signal \cup {"out"}
      /\ sub' = sub \cup {"OUTPUT_PAUSE"}
  BY <1>r, <1>p, <1>h, StreamingStates, AnswersDiffer, FailsToError
     DEF TypeOK, HandleStopDone, CanSet, SetSub, Refused, LastIsMissing, DrcWaits, DrainWaits,
         Paused, StopDoneOut
<1>w. /\ Streaming("in")' <=> Streaming("in")
      /\ Streaming("out")' <=> Streaming("out")
      /\ DrcWaits' <=> DrcWaits
      /\ DrainWaits' <=> DrainWaits
      /\ (Paused' <=> Paused) /\ OutPaused'
      /\ InputOver' <=> InputOver
      /\ ("DRC" \in sub') <=> ("DRC" \in sub)
      /\ ("FIRST_IPSC" \in sub') <=> ("FIRST_IPSC" \in sub)
      /\ ("DRC_LAST" \in sub') <=> ("DRC_LAST" \in sub)
      /\ ("DRAIN_LAST" \in sub') <=> ("DRAIN_LAST" \in sub)
  BY <1>r, <1>p, <1>e, StreamingStates
     DEF DrcWaits, DrainWaits, Paused, OutPaused, InputOver, SequencesNest
<1>1. Call("in", StartIn, StopIn, StopDoneIn)'
  BY <1>g, <1>t, <1>r, <1>k, <1>s, <1>n, <1>p, <1>e, <1>w, StreamingStates, FwTyped DEF Call
<1>2. Call("out", StartOut, StopOut, StopDoneOut)'
  BY <1>g, <1>t, <1>r, <1>k, <1>s, <1>n, <1>p, <1>e, <1>w, StreamingStates, FwTyped DEF Call
<1>3. Calls'
  BY <1>g, <1>t, <1>r, <1>k, <1>s, <1>n, <1>p, <1>e, <1>w, StreamingStates, <1>1, <1>2 DEF Calls
<1>4. SteadyHeard'
  BY <1>g, <1>t, <1>r, <1>k, <1>s, <1>n, <1>p, <1>e, <1>w, StreamingStates, FwTyped
     DEF SteadyHeard
<1>5. SteadySequences'
  BY <1>g, <1>t, <1>r, <1>k, <1>s, <1>n, <1>p, <1>e, <1>w, StreamingStates, FwTyped
     DEF SteadySequences
<1>6. SteadyDrain'
  BY <1>g, <1>t, <1>r, <1>k, <1>s, <1>n, <1>p, <1>e, <1>w, StreamingStates, FwTyped
     DEF SteadyDrain
<1>7. SteadyDrc'
  BY <1>g, <1>t, <1>r, <1>k, <1>s, <1>n, <1>p, <1>e, <1>w, StreamingStates, FwTyped,
     NoLateResume
     DEF SteadyDrc
<1>8. SteadyInput'
  BY <1>g, <1>t, <1>r, <1>k, <1>s, <1>n, <1>p, <1>e, <1>w, StreamingStates, FwTyped,
     NoLateResume
     DEF SteadyInput
<1>9. SteadyOutput'
  BY <1>g, <1>t, <1>r, <1>k, <1>s, <1>n, <1>p, <1>e, <1>w, StreamingStates, FwTyped
     DEF SteadyOutput
<1>10. PauseEnds'
  BY <1>g, <1>t, <1>r, <1>k, <1>s, <1>n, <1>p, <1>e, <1>w, StreamingStates, FwTyped, LastComes
     DEF PauseEnds
<1> QED BY <1>t, <1>3, <1>4, <1>5, <1>6, <1>7, <1>8, <1>9, <1>10 DEF Steady

\* What the client sends keeps the order, if it is barred by nothing before it.
LEMMA SendOrdered ==
  ASSUME TypeOK, SteadyOrder, UNCHANGED <<msgs, decode>>, NEW s \in Seq(Cmds), Send(s),
         Ordered(s, SteadyCmdBars),
         \A a, b : Sent(a) /\ InFlight(b, s) => <<a, b>> \notin SteadyCmdBars
  PROVE  SteadyOrder'
<1>1. Ordered(cmds, SteadyCmdBars) /\ Ordered(msgs, SteadyMsgBars) BY DEF SteadyOrder
<1>2. Ordered(cmds', SteadyCmdBars) BY <1>1, DriverSends
<1>3. SteadyMsgBars' = SteadyMsgBars BY DEF SteadyMsgBars, MsgBars
<1>4. Ordered(msgs', SteadyMsgBars') BY <1>1, <1>3
<1> QED BY <1>2, <1>4 DEF SteadyOrder

\* A resume of the input is not sent behind a start that is in flight.
LEMMA SendResumes ==
  ASSUME TypeOK, NEW s \in Seq(Cmds), Send(s)
  PROVE  /\ /\ Ordered(cmds, LateResume) /\ Ordered(s, LateResume)
            /\ ~Sent(StartIn) \/ ~InFlight(ResumeIn, s)
            => Ordered(cmds', LateResume)
         /\ /\ Ordered(cmds, OutThenIn) /\ Ordered(s, OutThenIn)
            /\ ~Sent(StartOut) \/ ~InFlight(ResumeIn, s)
            => Ordered(cmds', OutThenIn)
<1>1. ASSUME ~Sent(StartIn) \/ ~InFlight(ResumeIn, s)
      PROVE  \A a, b : Sent(a) /\ InFlight(b, s) => <<a, b>> \notin LateResume
  BY <1>1 DEF LateResume
<1>2. ASSUME ~Sent(StartOut) \/ ~InFlight(ResumeIn, s)
      PROVE  \A a, b : Sent(a) /\ InFlight(b, s) => <<a, b>> \notin OutThenIn
  BY <1>2 DEF OutThenIn
<1> QED BY <1>1, <1>2, DriverSends

\* What bars a command: the pairs that end in it.
LEMMA CmdBarsOf ==
  ASSUME NEW a, NEW b, <<a, b>> \in SteadyCmdBars
  PROVE  /\ b = StartIn => a \in {Drain, Etb, PauseIn, StartIn, StopIn, StopOut}
         /\ b = PauseIn => a \in {Drain, Etb, PauseIn, ResumeIn, StopIn, StopOut}
         /\ b = Drain => a \in {Drain, StopIn, StopOut}
         /\ b = ResumeIn => a \in {ResumeIn, StopIn, StopOut}
         /\ b = StartOut => a \in {StartOut, StopIn, StopOut}
         /\ b = ResumeOut => a \in {StartOut, ResumeOut, StopIn, StopOut}
         /\ b \in {Etb, StopIn, StopOut} => a \in {StopIn, StopOut}
BY CommandsDiffer DEF SteadyCmdBars, CmdBars, ResumeOuts

\* The two orders that a resume of the input may break.
LEMMA ResumeBarsOf ==
  ASSUME NEW a, NEW b
  PROVE  /\ <<a, b>> \in LateResume <=> a = StartIn /\ b = ResumeIn
         /\ <<a, b>> \in OutThenIn <=> a = StartOut /\ b = ResumeIn
BY DEF LateResume, OutThenIn

\* A client that is idle has nothing stopped, and nothing of it is being stopped.
LEMMA SteadyIdle ==
  ASSUME TypeOK, Ports, Fine, Steady, client = "idle"
  PROVE  /\ "in" \notin signal /\ "out" \notin signal
         /\ ~Sent(StopIn) /\ ~Sent(StopOut) /\ ~Said(StopDoneIn) /\ ~Said(StopDoneOut)
         /\ Streaming("in") <=> "in" \in vb2
         /\ Streaming("out") <=> "out" \in vb2
         /\ Streaming("in") /\ fw.in = "stop" => Sent(StartIn)
         /\ Streaming("out") /\ fw.out = "stop" => Sent(StartOut)
         /\ Well /\ state \notin {"ERROR", "CLOSE"}
         /\ Streaming("in") <=> state \in {"STREAMING", "INPUT_STREAMING"}
         /\ Streaming("out") <=> state \in {"STREAMING", "OUTPUT_STREAMING"}
         /\ SteadyOrder
<1>1. client \in Port \cup {"idle"} /\ client # "in" /\ client # "out" OBVIOUS
<1>2. Well BY DEF Fine
<1> QED BY <1>1, <1>2, SteadyIs, PortsSay, StreamingStates DEF Call, Well

\* What the client leaves alone.
LEMMA SteadySame ==
  /\ UNCHANGED <<msgs, decode>> =>
       /\ \A m : Said(m)' <=> Said(m)
       /\ Ordered(msgs', TwoLasts) <=> Ordered(msgs, TwoLasts)
       /\ Ordered(msgs, SteadyMsgBars) => Ordered(msgs', SteadyMsgBars')
       /\ decode' = decode
  /\ UNCHANGED cmds =>
       /\ \A m : Sent(m)' <=> Sent(m)
       /\ Ordered(cmds', LateResume) <=> Ordered(cmds, LateResume)
       /\ Ordered(cmds', OutThenIn) <=> Ordered(cmds, OutThenIn)
       /\ Ordered(cmds', SteadyCmdBars) <=> Ordered(cmds, SteadyCmdBars)
  /\ UNCHANGED state => /\ Streaming("in")' <=> Streaming("in")
                        /\ Streaming("out")' <=> Streaming("out")
  /\ UNCHANGED sub => /\ DrcWaits' <=> DrcWaits
                      /\ DrainWaits' <=> DrainWaits
                      /\ Paused' <=> Paused
                      /\ OutPaused' <=> OutPaused
<1>1. UNCHANGED <<msgs, decode>> => SteadyMsgBars' = SteadyMsgBars
  BY DEF SteadyMsgBars, MsgBars
<1> QED BY <1>1 DEF Streaming, DrcWaits, DrainWaits, Paused, OutPaused, Said, Sent

\* All that is known, if nothing it speaks of changes.
LEMMA SameSteady ==
  ASSUME Steady, UNCHANGED <<decode, state, sub, client, signal, cmds, msgs, fw>>
  PROVE  Steady'
<1>g. /\ SteadyOrder /\ Calls /\ SteadyHeard /\ SteadySequences /\ SteadyDrain
      /\ SteadyDrc /\ SteadyInput /\ SteadyOutput /\ PauseEnds
      /\ Call("in", StartIn, StopIn, StopDoneIn)
      /\ Call("out", StartOut, StopOut, StopDoneOut)
  BY SteadyIs
<1>1. UNCHANGED <<msgs, decode>> /\ UNCHANGED cmds /\ UNCHANGED state /\ UNCHANGED sub
  OBVIOUS
<1>2. SteadyOrder'
  BY <1>g, <1>1, SteadySame DEF SteadyOrder
<1>d. /\ client' = client /\ signal' = signal /\ fw' = fw /\ state' = state /\ sub' = sub
      /\ (InputOver' <=> InputOver) /\ (LastIsComing' <=> LastIsComing)
  BY DEF InputOver, LastIsComing, Streaming
<1>3. Call("in", StartIn, StopIn, StopDoneIn)'
  BY <1>g, <1>1, <1>d, SteadySame DEF Call
<1>4. Call("out", StartOut, StopOut, StopDoneOut)'
  BY <1>g, <1>1, <1>d, SteadySame DEF Call
<1>5. Calls'
  BY <1>g, <1>1, <1>3, <1>4, SteadySame DEF Calls
<1>6. SteadyHeard'
  BY <1>g, <1>1, <1>d, SteadySame DEF SteadyHeard
<1>7. SteadySequences'
  BY <1>g, <1>1, <1>d, SteadySame DEF SteadySequences
<1>8. SteadyDrain'
  BY <1>g, <1>1, <1>d, SteadySame DEF SteadyDrain
<1>9. SteadyDrc'
  BY <1>g, <1>1, <1>d, SteadySame DEF SteadyDrc
<1>10. SteadyInput'
  BY <1>g, <1>1, <1>d, SteadySame DEF SteadyInput
<1>11. SteadyOutput'
  BY <1>g, <1>1, <1>d, SteadySame DEF SteadyOutput
<1>12. PauseEnds'
  BY <1>g, <1>1, <1>d, SteadySame DEF PauseEnds
<1> QED BY <1>2, <1>5, <1>6, <1>7, <1>8, <1>9, <1>10, <1>11, <1>12 DEF Steady

\* The client queues an input buffer.
LEMMA SteadyQueueInput ==
  ASSUME TypeOK, SequencesNest, Ports, Fine, Steady,
         QueueInput
  PROVE  Steady'
<1>g. /\ SteadyOrder /\ Calls /\ SteadyHeard /\ SteadySequences /\ SteadyDrain
      /\ SteadyDrc /\ SteadyInput /\ SteadyOutput /\ PauseEnds
      /\ Call("in", StartIn, StopIn, StopDoneIn)
      /\ Call("out", StartOut, StopOut, StopDoneOut)
  BY SteadyIs
<1>i. /\ client = "idle" /\ Well
      /\ "in" \notin signal /\ "out" \notin signal
      /\ ~Sent(StopIn) /\ ~Sent(StopOut) /\ ~Said(StopDoneIn) /\ ~Said(StopDoneOut)
      /\ Streaming("in") <=> "in" \in vb2
      /\ Streaming("out") <=> "out" \in vb2
      /\ Streaming("in") /\ fw.in = "stop" => Sent(StartIn)
      /\ Streaming("out") /\ fw.out = "stop" => Sent(StartOut)
      /\ Streaming("in") <=> state \in {"STREAMING", "INPUT_STREAMING"}
      /\ Streaming("out") <=> state \in {"STREAMING", "OUTPUT_STREAMING"}
      /\ state \notin {"ERROR", "CLOSE"} /\ SteadyOrder
  BY SteadyIdle DEF QueueInput, MayCall
<1>p. Streaming("in") /\ (fw.in # "stop" \/ Sent(StartIn))
  BY <1>g, <1>i, FwTyped, LastComes
     DEF QueueInput, MayCall, Call, SteadyHeard, SteadySequences, SteadyDrain, SteadyDrc,
         SteadyInput, SteadyOutput, InputOver, DrcWaits, DrainWaits, Paused, OutPaused,
         SequencesNest
<1> DEFINE s == << Etb >>
<1>q. /\ s \in Seq(Cmds) /\ Send(s) /\ Ordered(s, SteadyCmdBars) /\ Ordered(s, LateResume) /\ Ordered(s, OutThenIn)
      /\ \A a : InFlight(a, s) <=> a = Etb
  <2>0. Send(s) BY DEF QueueInput, Etb
  <2>1. s \in Seq(Cmds) /\ Ordered(s, SteadyCmdBars) /\ Ordered(s, LateResume) /\ Ordered(s, OutThenIn)
        /\ \A a : InFlight(a, s) <=> a = Etb
    BY NamesAre, OrderedOne, InFlightOne
  <2> QED BY <2>0, <2>1
<1> HIDE DEF s
<1>s. /\ Sent(StartIn)' <=> Sent(StartIn)
      /\ Sent(StartOut)' <=> Sent(StartOut)
      /\ Sent(StopIn)' <=> Sent(StopIn)
      /\ Sent(StopOut)' <=> Sent(StopOut)
      /\ Sent(PauseIn)' <=> Sent(PauseIn)
      /\ Sent(ResumeIn)' <=> Sent(ResumeIn)
      /\ Sent(ResumeOut)' <=> Sent(ResumeOut)
      /\ Sent(Drain)' <=> Sent(Drain)
      /\ Sent(Etb)'
      /\ Sent(<<"close">>)' <=> Sent(<<"close">>)
  BY <1>q, SentMore, CommandsDiffer
<1>m. UNCHANGED <<msgs, decode>> /\ UNCHANGED <<fw, signal>>
  BY DEF QueueInput, session
<1>o. SteadyOrder'
  <2>1. \A a, b : Sent(a) /\ InFlight(b, s) => <<a, b>> \notin SteadyCmdBars
    BY <1>i, <1>p, <1>q, CmdBarsOf
  <2> QED BY <1>m, <1>q, <1>i, <2>1, SendOrdered
<1>r. /\ Ordered(cmds, LateResume) => Ordered(cmds', LateResume)
      /\ Ordered(cmds, OutThenIn) => Ordered(cmds', OutThenIn)
  BY <1>q, SendResumes, CommandsDiffer
<1>n. /\ \A m : Said(m)' <=> Said(m)
      /\ Ordered(msgs', TwoLasts) <=> Ordered(msgs, TwoLasts)
  BY <1>m, SteadySame
<1>e. /\ Streaming("in")' <=> Streaming("in")
      /\ Streaming("out")' <=> Streaming("out")
      /\ state' = state /\ client' = client
      /\ DrcWaits' <=> DrcWaits
      /\ DrainWaits' <=> DrainWaits
      /\ Paused' <=> Paused
      /\ OutPaused' <=> OutPaused
      /\ InputOver' <=> InputOver
      /\ sub' = sub
  BY <1>m, SteadySame DEF QueueInput, session, InputOver
<1>1. Call("in", StartIn, StopIn, StopDoneIn)'
  BY <1>g, <1>i, <1>p, <1>s, <1>n, <1>r, <1>m, <1>e, FwTyped DEF Call
<1>2. Call("out", StartOut, StopOut, StopDoneOut)'
  BY <1>g, <1>i, <1>p, <1>s, <1>n, <1>r, <1>m, <1>e, FwTyped DEF Call
<1>3. Calls'
  BY <1>g, <1>i, <1>p, <1>s, <1>n, <1>r, <1>m, <1>e, <1>1, <1>2 DEF Calls
<1>4. SteadyHeard'
  BY <1>g, <1>i, <1>p, <1>s, <1>n, <1>r, <1>m, <1>e, FwTyped DEF SteadyHeard
<1>5. SteadySequences'
  BY <1>g, <1>i, <1>p, <1>s, <1>n, <1>r, <1>m, <1>e, FwTyped DEF SteadySequences
<1>6. SteadyDrain'
  BY <1>g, <1>i, <1>p, <1>s, <1>n, <1>r, <1>m, <1>e, FwTyped DEF SteadyDrain
<1>7. SteadyDrc'
  BY <1>g, <1>i, <1>p, <1>s, <1>n, <1>r, <1>m, <1>e, FwTyped, NoLateResume DEF SteadyDrc
<1>8. SteadyInput'
  BY <1>g, <1>i, <1>p, <1>s, <1>n, <1>r, <1>m, <1>e, FwTyped, NoLateResume DEF SteadyInput
<1>9. SteadyOutput'
  BY <1>g, <1>i, <1>p, <1>s, <1>n, <1>r, <1>m, <1>e, FwTyped DEF SteadyOutput
<1>10. PauseEnds'
  BY <1>g, <1>i, <1>p, <1>s, <1>n, <1>r, <1>m, <1>e, FwTyped, LastComes DEF PauseEnds
<1> QED BY <1>o, <1>3, <1>4, <1>5, <1>6, <1>7, <1>8, <1>9, <1>10 DEF Steady

\* The client asks for a drain.
LEMMA SteadyStopCmd ==
  ASSUME TypeOK, SequencesNest, Ports, Fine, Steady,
         StopCmd
  PROVE  Steady'
<1>g. /\ SteadyOrder /\ Calls /\ SteadyHeard /\ SteadySequences /\ SteadyDrain
      /\ SteadyDrc /\ SteadyInput /\ SteadyOutput /\ PauseEnds
      /\ Call("in", StartIn, StopIn, StopDoneIn)
      /\ Call("out", StartOut, StopOut, StopDoneOut)
  BY SteadyIs
<1>i. /\ client = "idle" /\ Well
      /\ "in" \notin signal /\ "out" \notin signal
      /\ ~Sent(StopIn) /\ ~Sent(StopOut) /\ ~Said(StopDoneIn) /\ ~Said(StopDoneOut)
      /\ Streaming("in") <=> "in" \in vb2
      /\ Streaming("out") <=> "out" \in vb2
      /\ Streaming("in") /\ fw.in = "stop" => Sent(StartIn)
      /\ Streaming("out") /\ fw.out = "stop" => Sent(StartOut)
      /\ Streaming("in") <=> state \in {"STREAMING", "INPUT_STREAMING"}
      /\ Streaming("out") <=> state \in {"STREAMING", "OUTPUT_STREAMING"}
      /\ state \notin {"ERROR", "CLOSE"} /\ SteadyOrder
  BY SteadyIdle DEF StopCmd, MayCall
<1>p. /\ Streaming("in") /\ (fw.in # "stop" \/ Sent(StartIn))
      /\ "DRAIN" \notin sub /\ "DRAIN_LAST" \notin sub /\ ~DrainWaits
      /\ ~Sent(Drain) /\ fw.drain = "none" /\ ~Said(DrainLast) /\ ~Said(DrainDone)
  BY <1>g, <1>i, FwTyped, LastComes
     DEF StopCmd, MayCall, Call, SteadyHeard, SteadySequences, SteadyDrain, SteadyDrc,
         SteadyInput, SteadyOutput, InputOver, DrcWaits, DrainWaits, Paused, OutPaused,
         SequencesNest
<1> DEFINE s == << Drain >>
<1>q. /\ s \in Seq(Cmds) /\ Send(s) /\ Ordered(s, SteadyCmdBars) /\ Ordered(s, LateResume) /\ Ordered(s, OutThenIn)
      /\ \A a : InFlight(a, s) <=> a = Drain
  <2>0. Send(s) BY DEF StopCmd, Drain
  <2>1. s \in Seq(Cmds) /\ Ordered(s, SteadyCmdBars) /\ Ordered(s, LateResume) /\ Ordered(s, OutThenIn)
        /\ \A a : InFlight(a, s) <=> a = Drain
    BY NamesAre, OrderedOne, InFlightOne
  <2> QED BY <2>0, <2>1
<1> HIDE DEF s
<1>s. /\ Sent(StartIn)' <=> Sent(StartIn)
      /\ Sent(StartOut)' <=> Sent(StartOut)
      /\ Sent(StopIn)' <=> Sent(StopIn)
      /\ Sent(StopOut)' <=> Sent(StopOut)
      /\ Sent(PauseIn)' <=> Sent(PauseIn)
      /\ Sent(ResumeIn)' <=> Sent(ResumeIn)
      /\ Sent(ResumeOut)' <=> Sent(ResumeOut)
      /\ Sent(Drain)'
      /\ Sent(Etb)' <=> Sent(Etb)
      /\ Sent(<<"close">>)' <=> Sent(<<"close">>)
  BY <1>q, SentMore, CommandsDiffer
<1>m. UNCHANGED <<msgs, decode>> /\ UNCHANGED <<fw, signal>>
  BY DEF StopCmd, session
<1>o. SteadyOrder'
  <2>1. \A a, b : Sent(a) /\ InFlight(b, s) => <<a, b>> \notin SteadyCmdBars
    BY <1>i, <1>p, <1>q, CmdBarsOf
  <2> QED BY <1>m, <1>q, <1>i, <2>1, SendOrdered
<1>r. /\ Ordered(cmds, LateResume) => Ordered(cmds', LateResume)
      /\ Ordered(cmds, OutThenIn) => Ordered(cmds', OutThenIn)
  BY <1>q, SendResumes, CommandsDiffer
<1>n. /\ \A m : Said(m)' <=> Said(m)
      /\ Ordered(msgs', TwoLasts) <=> Ordered(msgs, TwoLasts)
  BY <1>m, SteadySame
<1>e. /\ Streaming("in")' <=> Streaming("in")
      /\ Streaming("out")' <=> Streaming("out")
      /\ state' = state /\ client' = client
      /\ DrcWaits' <=> DrcWaits
      /\ DrainWaits'
      /\ Paused' <=> Paused
      /\ OutPaused' <=> OutPaused
      /\ ~InputOver' /\ ~InputOver
      /\ ("DRC" \in sub') <=> ("DRC" \in sub)
      /\ ("FIRST_IPSC" \in sub') <=> ("FIRST_IPSC" \in sub)
      /\ ("DRC_LAST" \in sub') <=> ("DRC_LAST" \in sub)
      /\ "DRAIN_LAST" \notin sub'

  BY <1>i, <1>p, <1>m, SteadySame
     DEF StopCmd, InputOver, SetSub, DrcWaits, DrainWaits, Paused, OutPaused, TypeOK
<1>1. Call("in", StartIn, StopIn, StopDoneIn)'
  BY <1>g, <1>i, <1>p, <1>s, <1>n, <1>r, <1>m, <1>e, FwTyped DEF Call
<1>2. Call("out", StartOut, StopOut, StopDoneOut)'
  BY <1>g, <1>i, <1>p, <1>s, <1>n, <1>r, <1>m, <1>e, FwTyped DEF Call
<1>3. Calls'
  BY <1>g, <1>i, <1>p, <1>s, <1>n, <1>r, <1>m, <1>e, <1>1, <1>2 DEF Calls
<1>4. SteadyHeard'
  BY <1>g, <1>i, <1>p, <1>s, <1>n, <1>r, <1>m, <1>e, FwTyped DEF SteadyHeard
<1>5. SteadySequences'
  BY <1>g, <1>i, <1>p, <1>s, <1>n, <1>r, <1>m, <1>e, FwTyped DEF SteadySequences
<1>6. SteadyDrain'
  BY <1>g, <1>i, <1>p, <1>s, <1>n, <1>r, <1>m, <1>e, FwTyped DEF SteadyDrain
<1>7. SteadyDrc'
  BY <1>g, <1>i, <1>p, <1>s, <1>n, <1>r, <1>m, <1>e, FwTyped, NoLateResume DEF SteadyDrc
<1>8. SteadyInput'
  BY <1>g, <1>i, <1>p, <1>s, <1>n, <1>r, <1>m, <1>e, FwTyped, NoLateResume DEF SteadyInput
<1>9. SteadyOutput'
  BY <1>g, <1>i, <1>p, <1>s, <1>n, <1>r, <1>m, <1>e, FwTyped DEF SteadyOutput
<1>10. PauseEnds'
  BY <1>g, <1>i, <1>p, <1>s, <1>n, <1>r, <1>m, <1>e, FwTyped, LastComes DEF PauseEnds
<1> QED BY <1>o, <1>3, <1>4, <1>5, <1>6, <1>7, <1>8, <1>9, <1>10 DEF Steady

\* The client starts the input.
LEMMA SteadyStreamOnInput ==
  ASSUME TypeOK, SequencesNest, Ports, Fine, Steady,
         NEW deferred \in BOOLEAN, StreamOnInput(deferred)
  PROVE  Steady'
<1>g. /\ SteadyOrder /\ Calls /\ SteadyHeard /\ SteadySequences /\ SteadyDrain
      /\ SteadyDrc /\ SteadyInput /\ SteadyOutput /\ PauseEnds
      /\ Call("in", StartIn, StopIn, StopDoneIn)
      /\ Call("out", StartOut, StopOut, StopDoneOut)
  BY SteadyIs
<1>i. /\ client = "idle" /\ Well
      /\ "in" \notin signal /\ "out" \notin signal
      /\ ~Sent(StopIn) /\ ~Sent(StopOut) /\ ~Said(StopDoneIn) /\ ~Said(StopDoneOut)
      /\ Streaming("in") <=> "in" \in vb2
      /\ Streaming("out") <=> "out" \in vb2
      /\ Streaming("in") /\ fw.in = "stop" => Sent(StartIn)
      /\ Streaming("out") /\ fw.out = "stop" => Sent(StartOut)
      /\ Streaming("in") <=> state \in {"STREAMING", "INPUT_STREAMING"}
      /\ Streaming("out") <=> state \in {"STREAMING", "OUTPUT_STREAMING"}
      /\ state \notin {"ERROR", "CLOSE"} /\ SteadyOrder
  BY SteadyIdle DEF StreamOnInput, MayCall
<1>p. /\ ~Streaming("in") /\ fw.in = "stop" /\ ~Sent(StartIn) /\ ~Sent(Etb) /\ ~Sent(Drain)
      /\ ~Sent(PauseIn) /\ ~Said(Ipsc) /\ ~Said(PscLast) /\ ~Said(DrainDone)
      /\ (decode => ~Said(DrainLast) /\ ~DrainWaits)
      /\ ~DrcWaits /\ fw.psc = "none" /\ fw.drain # "asked"
      /\ MustPause <=> "DRC" \in sub \/ "DRAIN" \in sub \/ "FIRST_IPSC" \in sub
      /\ ("DRC_LAST" \in sub \/ "DRAIN_LAST" \in sub => MustPause)
      /\ ("DRC" \in sub => "DRC_LAST" \in sub)
      /\ ("DRAIN" \in sub => "DRAIN_LAST" \in sub \/ fw.drain = "last" \/ Said(DrainLast))
      /\ (Sent(ResumeIn) => ~MustPause)
      /\ ("FIRST_IPSC" \in sub => ~Streaming("out"))
  BY <1>g, <1>i, FwTyped, LastComes
     DEF StreamOnInput, MayCall, Call, SteadyHeard, SteadySequences, SteadyDrain, SteadyDrc,
         SteadyInput, SteadyOutput, InputOver, DrcWaits, DrainWaits, Paused, OutPaused,
         SequencesNest, MustPause
<1> DEFINE s1 == << StartIn >>
           s2 == If(MustPause, << PauseIn >>)
           s3 == If(deferred, << Etb >>)
           s == s1 \o s2 \o s3
<1>q. /\ s \in Seq(Cmds) /\ Send(s) /\ Ordered(s, SteadyCmdBars) /\ Ordered(s, LateResume) /\ Ordered(s, OutThenIn)
      /\ \A a : InFlight(a, s) <=> a = StartIn \/ (MustPause /\ a = PauseIn) \/ (deferred /\ a = Etb)
  <2>0. Send(s) BY DEF StreamOnInput, StartIn, PauseIn, Etb
  <2>1. s1 \in Seq(Cmds) /\ Ordered(s1, SteadyCmdBars) /\ Ordered(s1, LateResume) /\ Ordered(s1, OutThenIn)
        /\ \A a : InFlight(a, s1) <=> a = StartIn
    BY NamesAre, OrderedOne, InFlightOne
  <2>2. s2 \in Seq(Cmds) /\ Ordered(s2, SteadyCmdBars) /\ Ordered(s2, LateResume) /\ Ordered(s2, OutThenIn)
        /\ \A a : InFlight(a, s2) <=> (MustPause /\ a = PauseIn)
    BY NamesAre, OneIf
  <2>3. s3 \in Seq(Cmds) /\ Ordered(s3, SteadyCmdBars) /\ Ordered(s3, LateResume) /\ Ordered(s3, OutThenIn)
        /\ \A a : InFlight(a, s3) <=> (deferred /\ a = Etb)
    BY NamesAre, OneIf
  <2> HIDE DEF s1, s2, s3
  <2> DEFINE r2 == s1 \o s2
  <2>4. s = r2 \o s3 OBVIOUS
  <2> HIDE DEF s
  <2>5. \A a, b : InFlight(a, s1) /\ InFlight(b, s2) =>
          /\ <<a, b>> \notin SteadyCmdBars /\ <<a, b>> \notin LateResume
          /\ <<a, b>> \notin OutThenIn
    BY <2>1, <2>2, <2>3, CmdBarsOf, ResumeBarsOf, CommandsDiffer
  <2>6. /\ r2 \in Seq(Cmds) /\ Ordered(r2, SteadyCmdBars) /\ Ordered(r2, LateResume) /\ Ordered(r2, OutThenIn)
        /\ \A a : InFlight(a, r2) <=> InFlight(a, s1) \/ InFlight(a, s2)
    BY <2>1, <2>2, <2>3, <2>5, ThenSent
  <2> HIDE DEF r2
  <2>7. \A a, b : InFlight(a, r2) /\ InFlight(b, s3) =>
          /\ <<a, b>> \notin SteadyCmdBars /\ <<a, b>> \notin LateResume
          /\ <<a, b>> \notin OutThenIn
    BY <2>1, <2>2, <2>3, <2>6, CmdBarsOf, ResumeBarsOf, CommandsDiffer
  <2>8. /\ s \in Seq(Cmds) /\ Ordered(s, SteadyCmdBars) /\ Ordered(s, LateResume) /\ Ordered(s, OutThenIn)
        /\ \A a : InFlight(a, s) <=> InFlight(a, r2) \/ InFlight(a, s3)
    BY <2>3, <2>4, <2>6, <2>7, ThenSent
  <2>9. ASSUME NEW a PROVE InFlight(a, s) <=> a = StartIn \/ (MustPause /\ a = PauseIn) \/ (deferred /\ a = Etb)
    <3>1. InFlight(a, s) <=> InFlight(a, r2) \/ InFlight(a, s3) BY <2>8
    <3>2. InFlight(a, r2) <=> InFlight(a, s1) \/ InFlight(a, s2) BY <2>6
    <3>3. /\ InFlight(a, s1) <=> a = StartIn
          /\ InFlight(a, s2) <=> (MustPause /\ a = PauseIn)
          /\ InFlight(a, s3) <=> (deferred /\ a = Etb)
      BY <2>1, <2>2, <2>3
    <3> QED BY <3>1, <3>2, <3>3
  <2> QED BY <2>0, <2>8, <2>9
<1> HIDE DEF s
<1>s. /\ Sent(StartIn)'
      /\ Sent(StartOut)' <=> Sent(StartOut)
      /\ Sent(StopIn)' <=> Sent(StopIn)
      /\ Sent(StopOut)' <=> Sent(StopOut)
      /\ Sent(PauseIn)' <=> Sent(PauseIn) \/ MustPause
      /\ Sent(ResumeIn)' <=> Sent(ResumeIn)
      /\ Sent(ResumeOut)' <=> Sent(ResumeOut)
      /\ Sent(Drain)' <=> Sent(Drain)
      /\ Sent(Etb)' <=> Sent(Etb) \/ deferred
      /\ Sent(<<"close">>)' <=> Sent(<<"close">>)
  BY <1>q, SentMore, CommandsDiffer
<1>m. UNCHANGED <<msgs, decode>> /\ UNCHANGED <<fw, signal>>
  BY DEF StreamOnInput, session
<1>o. SteadyOrder'
  <2>1. \A a, b : Sent(a) /\ InFlight(b, s) => <<a, b>> \notin SteadyCmdBars
    BY <1>i, <1>p, <1>q, CmdBarsOf
  <2> QED BY <1>m, <1>q, <1>i, <2>1, SendOrdered
<1>r. /\ Ordered(cmds, LateResume) => Ordered(cmds', LateResume)
      /\ Ordered(cmds, OutThenIn) => Ordered(cmds', OutThenIn)
  BY <1>q, SendResumes, CommandsDiffer
<1>n. /\ \A m : Said(m)' <=> Said(m)
      /\ Ordered(msgs', TwoLasts) <=> Ordered(msgs, TwoLasts)
  BY <1>m, SteadySame
<1>e. /\ Streaming("in")'
      /\ Streaming("out")' <=> Streaming("out")
      /\ (state' = "STREAMING" => Streaming("out"))
      /\ client' = client
      /\ DrcWaits' <=> DrcWaits
      /\ DrainWaits' <=> DrainWaits
      /\ Paused' <=> MustPause
      /\ OutPaused' <=> OutPaused
      /\ ~InputOver'
      /\ ("DRC" \in sub') <=> ("DRC" \in sub)
      /\ ("DRAIN" \in sub') <=> ("DRAIN" \in sub)
      /\ ("DRC_LAST" \in sub') <=> ("DRC_LAST" \in sub)
      /\ ("DRAIN_LAST" \in sub') <=> ("DRAIN_LAST" \in sub)
      /\ ("FIRST_IPSC" \in sub') <=> ("FIRST_IPSC" \in sub)
  <2>1. /\ state' \in States \ {"ERROR", "CLOSE"}
        /\ \A p \in Port : Streaming(p)' <=> p = "in" \/ Streaming(p)
    BY <1>i, <1>p, PlusMinusStreaming
       DEF StreamOnInput, Streaming, Streams, TypeOK, Port
  <2>2. /\ DrcWaits' <=> DrcWaits
        /\ DrainWaits' <=> DrainWaits
        /\ Paused' <=> MustPause
        /\ OutPaused' <=> OutPaused
        /\ \A f \in {"DRC", "DRAIN", "DRC_LAST", "DRAIN_LAST", "FIRST_IPSC"} : f \in sub' <=> f \in sub
    BY DEF StreamOnInput, DrcWaits, DrainWaits, Paused, OutPaused
  <2>3. client' = client BY DEF StreamOnInput
  <2>4. Streaming("in")' /\ (Streaming("out")' <=> Streaming("out")) BY <2>1 DEF Port
  <2>5. state' = "STREAMING" => Streaming("out") BY <2>4 DEF Streaming
  <2>6. ~InputOver' BY <1>i, <1>m, <2>4 DEF InputOver
  <2> QED BY <2>2, <2>3, <2>4, <2>5, <2>6
<1>1. Call("in", StartIn, StopIn, StopDoneIn)'
  BY <1>g, <1>i, <1>p, <1>s, <1>n, <1>r, <1>m, <1>e, FwTyped DEF Call
<1>2. Call("out", StartOut, StopOut, StopDoneOut)'
  BY <1>g, <1>i, <1>p, <1>s, <1>n, <1>r, <1>m, <1>e, FwTyped DEF Call
<1>3. Calls'
  BY <1>g, <1>i, <1>p, <1>s, <1>n, <1>r, <1>m, <1>e, <1>1, <1>2 DEF Calls
<1>4. SteadyHeard'
  BY <1>g, <1>i, <1>p, <1>s, <1>n, <1>r, <1>m, <1>e, FwTyped DEF SteadyHeard
<1>5. SteadySequences'
  BY <1>g, <1>i, <1>p, <1>s, <1>n, <1>r, <1>m, <1>e, FwTyped DEF SteadySequences
<1>6. SteadyDrain'
  BY <1>g, <1>i, <1>p, <1>s, <1>n, <1>r, <1>m, <1>e, FwTyped DEF SteadyDrain
<1>7. SteadyDrc'
  BY <1>g, <1>i, <1>p, <1>s, <1>n, <1>r, <1>m, <1>e, FwTyped, NoLateResume DEF SteadyDrc
<1>8. SteadyInput'
  BY <1>g, <1>i, <1>p, <1>s, <1>n, <1>r, <1>m, <1>e, FwTyped, NoLateResume DEF SteadyInput
<1>9. SteadyOutput'
  BY <1>g, <1>i, <1>p, <1>s, <1>n, <1>r, <1>m, <1>e, FwTyped DEF SteadyOutput
<1>10. PauseEnds'
  BY <1>g, <1>i, <1>p, <1>s, <1>n, <1>r, <1>m, <1>e, FwTyped, LastComes DEF PauseEnds
<1> QED BY <1>o, <1>3, <1>4, <1>5, <1>6, <1>7, <1>8, <1>9, <1>10 DEF Steady

\* The client starts the output.
LEMMA SteadyStreamOnOutput ==
  ASSUME TypeOK, SequencesNest, Ports, Fine, Steady,
         StreamOnOutput
  PROVE  Steady'
<1>g. /\ SteadyOrder /\ Calls /\ SteadyHeard /\ SteadySequences /\ SteadyDrain
      /\ SteadyDrc /\ SteadyInput /\ SteadyOutput /\ PauseEnds
      /\ Call("in", StartIn, StopIn, StopDoneIn)
      /\ Call("out", StartOut, StopOut, StopDoneOut)
  BY SteadyIs
<1>i. /\ client = "idle" /\ Well
      /\ "in" \notin signal /\ "out" \notin signal
      /\ ~Sent(StopIn) /\ ~Sent(StopOut) /\ ~Said(StopDoneIn) /\ ~Said(StopDoneOut)
      /\ Streaming("in") <=> "in" \in vb2
      /\ Streaming("out") <=> "out" \in vb2
      /\ Streaming("in") /\ fw.in = "stop" => Sent(StartIn)
      /\ Streaming("out") /\ fw.out = "stop" => Sent(StartOut)
      /\ Streaming("in") <=> state \in {"STREAMING", "INPUT_STREAMING"}
      /\ Streaming("out") <=> state \in {"STREAMING", "OUTPUT_STREAMING"}
      /\ state \notin {"ERROR", "CLOSE"} /\ SteadyOrder
  BY SteadyIdle DEF StreamOnOutput, MayCall
<1>p. /\ ~Streaming("out") /\ fw.out = "stop" /\ ~Sent(StartOut) /\ ~Said(PscLast) /\ ~Said(DrainLast)
      /\ fw.psc # "last" /\ (decode => fw.drain # "last")
      /\ (Streaming("in") => state = "INPUT_STREAMING")
      /\ (ResumeInput <=> Paused /\ Streaming("in"))
      /\ (ResumeInput => ~Sent(ResumeIn) /\ ~Said(Ipsc) /\ ~Said(DrainDone))
      /\ (Sent(StartIn) /\ Paused => Sent(PauseIn))
      /\ (Sent(StartIn) => Streaming("in"))
      /\ (fw.psc = "seen" /\ ~ResumeInput => Said(Ipsc) \/ Sent(ResumeIn))
  BY <1>g, <1>i, FwTyped, LastComes
     DEF StreamOnOutput, MayCall, Call, SteadyHeard, SteadySequences, SteadyDrain, SteadyDrc,
         SteadyInput, SteadyOutput, InputOver, DrcWaits, DrainWaits, Paused, OutPaused,
         SequencesNest, ResumeInput
<1> DEFINE s1 == If(ResumeInput, << ResumeIn >>)
           s2 == << StartOut >>
           s == s1 \o s2
<1>q. /\ s \in Seq(Cmds) /\ Send(s) /\ Ordered(s, SteadyCmdBars) /\ Ordered(s, LateResume) /\ Ordered(s, OutThenIn)
      /\ \A a : InFlight(a, s) <=> (ResumeInput /\ a = ResumeIn) \/ a = StartOut
  <2>0. Send(s) BY DEF StreamOnOutput, ResumeIn, StartOut
  <2>1. s1 \in Seq(Cmds) /\ Ordered(s1, SteadyCmdBars) /\ Ordered(s1, LateResume) /\ Ordered(s1, OutThenIn)
        /\ \A a : InFlight(a, s1) <=> (ResumeInput /\ a = ResumeIn)
    BY NamesAre, OneIf
  <2>2. s2 \in Seq(Cmds) /\ Ordered(s2, SteadyCmdBars) /\ Ordered(s2, LateResume) /\ Ordered(s2, OutThenIn)
        /\ \A a : InFlight(a, s2) <=> a = StartOut
    BY NamesAre, OrderedOne, InFlightOne
  <2> HIDE DEF s1, s2
  <2>3. \A a, b : InFlight(a, s1) /\ InFlight(b, s2) =>
          /\ <<a, b>> \notin SteadyCmdBars /\ <<a, b>> \notin LateResume
          /\ <<a, b>> \notin OutThenIn
    BY <2>1, <2>2, CmdBarsOf, ResumeBarsOf, CommandsDiffer
  <2>4. /\ s \in Seq(Cmds) /\ Ordered(s, SteadyCmdBars) /\ Ordered(s, LateResume) /\ Ordered(s, OutThenIn)
        /\ \A a : InFlight(a, s) <=> InFlight(a, s1) \/ InFlight(a, s2)
    BY <2>1, <2>2, <2>3, ThenSent
  <2> HIDE DEF s
  <2> QED BY <2>0, <2>1, <2>2, <2>3, <2>4
<1> HIDE DEF s
<1>s. /\ Sent(StartIn)' <=> Sent(StartIn)
      /\ Sent(StartOut)'
      /\ Sent(StopIn)' <=> Sent(StopIn)
      /\ Sent(StopOut)' <=> Sent(StopOut)
      /\ Sent(PauseIn)' <=> Sent(PauseIn)
      /\ Sent(ResumeIn)' <=> Sent(ResumeIn) \/ ResumeInput
      /\ Sent(ResumeOut)' <=> Sent(ResumeOut)
      /\ Sent(Drain)' <=> Sent(Drain)
      /\ Sent(Etb)' <=> Sent(Etb)
      /\ Sent(<<"close">>)' <=> Sent(<<"close">>)
  BY <1>q, SentMore, CommandsDiffer
<1>m. UNCHANGED <<msgs, decode>> /\ UNCHANGED <<fw, signal>>
  BY DEF StreamOnOutput, session
<1>o. SteadyOrder'
  <2>1. \A a, b : Sent(a) /\ InFlight(b, s) => <<a, b>> \notin SteadyCmdBars
    BY <1>i, <1>p, <1>q, CmdBarsOf
  <2> QED BY <1>m, <1>q, <1>i, <2>1, SendOrdered
<1>r. /\ Ordered(cmds, LateResume) => Ordered(cmds', LateResume) \/ Sent(PauseIn)'
      /\ Ordered(cmds', OutThenIn)
  <2>1. Ordered(cmds', OutThenIn)
    BY <1>p, <1>q, SendResumes, NoLateResume
  <2>2. Ordered(cmds, LateResume) => Ordered(cmds', LateResume) \/ Sent(PauseIn)'
    <3>1. CASE Sent(StartIn) /\ ResumeInput
      BY <1>p, <1>s, <3>1
    <3>2. CASE ~(Sent(StartIn) /\ ResumeInput)
      <4>1. ~Sent(StartIn) \/ ~InFlight(ResumeIn, s)
        BY <1>q, <3>2, CommandsDiffer
      <4> QED BY <1>q, <4>1, SendResumes
    <3> QED BY <3>1, <3>2
  <2> QED BY <2>1, <2>2
<1>n. /\ \A m : Said(m)' <=> Said(m)
      /\ Ordered(msgs', TwoLasts) <=> Ordered(msgs, TwoLasts)
  BY <1>m, SteadySame
<1>e. /\ Streaming("in")' <=> Streaming("in")
      /\ Streaming("out")'
      /\ (state' = "STREAMING" => Streaming("in"))
      /\ client' = client
      /\ DrcWaits' <=> DrcWaits
      /\ DrainWaits' <=> DrainWaits
      /\ Paused' <=> Paused /\ ~ResumeInput
      /\ ~OutPaused'
      /\ InputOver' <=> InputOver
      /\ sub' \subseteq sub /\ "DRC_LAST" \notin sub' /\ "FIRST_IPSC" \notin sub'
  <2>1. /\ state' \in States \ {"ERROR", "CLOSE"}
        /\ \A p \in Port : Streaming(p)' <=> p = "out" \/ Streaming(p)
    BY <1>i, <1>p, PlusMinusStreaming
       DEF StreamOnOutput, Streaming, Streams, TypeOK, Port
  <2>2. /\ DrcWaits' <=> DrcWaits
        /\ DrainWaits' <=> DrainWaits
        /\ Paused' <=> Paused /\ ~ResumeInput
        /\ ~OutPaused'
        /\ sub' \subseteq sub /\ "DRC_LAST" \notin sub' /\ "FIRST_IPSC" \notin sub'
    BY DEF StreamOnOutput, OutputClears, DrcPending, DrainPending, DrcWaits,
           DrainWaits, Paused, OutPaused, SequencesNest
  <2>3. client' = client BY DEF StreamOnOutput
  <2>4. Streaming("out")' /\ (Streaming("in")' <=> Streaming("in")) BY <2>1 DEF Port
  <2>5. state' = "STREAMING" => Streaming("in") BY <2>4 DEF Streaming
  <2>6. InputOver' <=> InputOver BY <1>m, <2>4 DEF InputOver
  <2> QED BY <2>2, <2>3, <2>4, <2>5, <2>6
<1>1. Call("in", StartIn, StopIn, StopDoneIn)'
  BY <1>g, <1>i, <1>p, <1>s, <1>n, <1>r, <1>m, <1>e, FwTyped DEF Call
<1>2. Call("out", StartOut, StopOut, StopDoneOut)'
  BY <1>g, <1>i, <1>p, <1>s, <1>n, <1>r, <1>m, <1>e, FwTyped DEF Call
<1>3. Calls'
  BY <1>g, <1>i, <1>p, <1>s, <1>n, <1>r, <1>m, <1>e, <1>1, <1>2 DEF Calls
<1>4. SteadyHeard'
  BY <1>g, <1>i, <1>p, <1>s, <1>n, <1>r, <1>m, <1>e, FwTyped DEF SteadyHeard
<1>5. SteadySequences'
  BY <1>g, <1>i, <1>p, <1>s, <1>n, <1>r, <1>m, <1>e, FwTyped DEF SteadySequences
<1>6. SteadyDrain'
  BY <1>g, <1>i, <1>p, <1>s, <1>n, <1>r, <1>m, <1>e, FwTyped DEF SteadyDrain
<1>7. SteadyDrc'
  BY <1>g, <1>i, <1>p, <1>s, <1>n, <1>r, <1>m, <1>e, FwTyped, NoLateResume DEF SteadyDrc
<1>8. SteadyInput'
  BY <1>g, <1>i, <1>p, <1>s, <1>n, <1>r, <1>m, <1>e, FwTyped, NoLateResume DEF SteadyInput
<1>9. SteadyOutput'
  BY <1>g, <1>i, <1>p, <1>s, <1>n, <1>r, <1>m, <1>e, FwTyped DEF SteadyOutput
<1>10. PauseEnds'
  BY <1>g, <1>i, <1>p, <1>s, <1>n, <1>r, <1>m, <1>e, FwTyped, LastComes DEF PauseEnds
<1> QED BY <1>o, <1>3, <1>4, <1>5, <1>6, <1>7, <1>8, <1>9, <1>10 DEF Steady

\* The client goes on after a last buffer.
LEMMA SteadyStartCmd ==
  ASSUME TypeOK, SequencesNest, Ports, Fine, Steady,
         StartCmd
  PROVE  Steady'
<1>g. /\ SteadyOrder /\ Calls /\ SteadyHeard /\ SteadySequences /\ SteadyDrain
      /\ SteadyDrc /\ SteadyInput /\ SteadyOutput /\ PauseEnds
      /\ Call("in", StartIn, StopIn, StopDoneIn)
      /\ Call("out", StartOut, StopOut, StopDoneOut)
  BY SteadyIs
<1>i. /\ client = "idle" /\ Well
      /\ "in" \notin signal /\ "out" \notin signal
      /\ ~Sent(StopIn) /\ ~Sent(StopOut) /\ ~Said(StopDoneIn) /\ ~Said(StopDoneOut)
      /\ Streaming("in") <=> "in" \in vb2
      /\ Streaming("out") <=> "out" \in vb2
      /\ Streaming("in") /\ fw.in = "stop" => Sent(StartIn)
      /\ Streaming("out") /\ fw.out = "stop" => Sent(StartOut)
      /\ Streaming("in") <=> state \in {"STREAMING", "INPUT_STREAMING"}
      /\ Streaming("out") <=> state \in {"STREAMING", "OUTPUT_STREAMING"}
      /\ state \notin {"ERROR", "CLOSE"} /\ SteadyOrder
  BY SteadyIdle DEF StartCmd, MayCall
<1>p. /\ DrcPending \/ DrainPending
      /\ ~DrcWaits \/ ~DrcPending
      /\ ~Said(DrainLast) /\ ~Said(DrainDone) /\ fw.drain # "last"
      /\ (Paused => ~Sent(ResumeIn) /\ ~Said(Ipsc))
      /\ (Sent(StartIn) /\ Paused => Sent(PauseIn))
      /\ (OutPaused /\ decode => ~Sent(StartOut) /\ ~Sent(ResumeOut) /\ ~Said(PscLast) /\ fw.out # "run")
      /\ (Sent(StartOut) => "DRC_LAST" \notin sub)
      /\ (Sent(StartOut) /\ Paused => fw.psc = "none" \/ DrcWaits)
      /\ (~Streaming("in") => /\ "FIRST_IPSC" \notin sub /\ ~DrcWaits
                              /\ (decode => ~DrainWaits))
      /\ (~decode => "DRC" \notin sub)
  BY <1>g, <1>i, FwTyped, LastComes
     DEF StartCmd, MayCall, Call, SteadyHeard, SteadySequences, SteadyDrain, SteadyDrc,
         SteadyInput, SteadyOutput, InputOver, DrcWaits, DrainWaits, Paused, OutPaused,
         SequencesNest, DrcPending, DrainPending
<1> DEFINE both == DrcPending /\ DrainPending
           resume == ~both /\ Paused
           reopen == ~both /\ OutPaused /\ decode
           s1 == If(resume, << ResumeIn >>)
           s2 == If(reopen, << ResumeOut >>)
           s == s1 \o s2
<1>q. /\ s \in Seq(Cmds) /\ Send(s) /\ Ordered(s, SteadyCmdBars) /\ Ordered(s, LateResume) /\ Ordered(s, OutThenIn)
      /\ \A a : InFlight(a, s) <=> (resume /\ a = ResumeIn) \/ (reopen /\ a = ResumeOut)
  <2>0. Send(s) BY DEF StartCmd, ResumeIn, ResumeOut, Paused, OutPaused
  <2>1. s1 \in Seq(Cmds) /\ Ordered(s1, SteadyCmdBars) /\ Ordered(s1, LateResume) /\ Ordered(s1, OutThenIn)
        /\ \A a : InFlight(a, s1) <=> (resume /\ a = ResumeIn)
    <3> HIDE DEF both, resume, reopen
    <3> QED BY NamesAre, OneIf
  <2>2. s2 \in Seq(Cmds) /\ Ordered(s2, SteadyCmdBars) /\ Ordered(s2, LateResume) /\ Ordered(s2, OutThenIn)
        /\ \A a : InFlight(a, s2) <=> (reopen /\ a = ResumeOut)
    <3> HIDE DEF both, resume, reopen
    <3> QED BY NamesAre, OneIf
  <2> HIDE DEF s1, s2, both, resume, reopen
  <2>3. \A a, b : InFlight(a, s1) /\ InFlight(b, s2) =>
          /\ <<a, b>> \notin SteadyCmdBars /\ <<a, b>> \notin LateResume
          /\ <<a, b>> \notin OutThenIn
    BY <2>1, <2>2, CmdBarsOf, ResumeBarsOf, CommandsDiffer
  <2>4. /\ s \in Seq(Cmds) /\ Ordered(s, SteadyCmdBars) /\ Ordered(s, LateResume) /\ Ordered(s, OutThenIn)
        /\ \A a : InFlight(a, s) <=> InFlight(a, s1) \/ InFlight(a, s2)
    BY <2>1, <2>2, <2>3, ThenSent
  <2> HIDE DEF s
  <2> QED BY <2>0, <2>1, <2>2, <2>3, <2>4
<1> HIDE DEF s, both, resume, reopen
<1>s. /\ Sent(StartIn)' <=> Sent(StartIn)
      /\ Sent(StartOut)' <=> Sent(StartOut)
      /\ Sent(StopIn)' <=> Sent(StopIn)
      /\ Sent(StopOut)' <=> Sent(StopOut)
      /\ Sent(PauseIn)' <=> Sent(PauseIn)
      /\ Sent(ResumeIn)' <=> Sent(ResumeIn) \/ resume
      /\ Sent(ResumeOut)' <=> Sent(ResumeOut) \/ reopen
      /\ Sent(Drain)' <=> Sent(Drain)
      /\ Sent(Etb)' <=> Sent(Etb)
      /\ Sent(<<"close">>)' <=> Sent(<<"close">>)
  BY <1>q, SentMore, CommandsDiffer
<1>m. UNCHANGED <<msgs, decode>> /\ UNCHANGED <<fw, signal>>
  BY DEF StartCmd, session
<1>k. /\ resume => Paused
      /\ reopen => OutPaused /\ decode
      /\ decode /\ OutPaused /\ ~reopen => both
      /\ Paused /\ ~resume => both
      /\ both => ~resume /\ ~reopen
  BY DEF resume, reopen
<1>o. SteadyOrder'
  <2>1. \A a, b : Sent(a) /\ InFlight(b, s) => <<a, b>> \notin SteadyCmdBars
    BY <1>i, <1>p, <1>k, <1>q, CmdBarsOf
  <2> QED BY <1>m, <1>q, <1>i, <2>1, SendOrdered
<1>r. /\ Ordered(cmds, LateResume) => Ordered(cmds', LateResume) \/ Sent(PauseIn)'
      /\ Ordered(cmds, OutThenIn) => Ordered(cmds', OutThenIn) \/ fw.psc = "none" \/ DrcWaits
  <2>1. Ordered(cmds, OutThenIn) => Ordered(cmds', OutThenIn) \/ fw.psc = "none" \/ DrcWaits
    <3>1. CASE Sent(StartOut) /\ resume
      BY <1>p, <1>k, <3>1
    <3>2. CASE ~(Sent(StartOut) /\ resume)
      <4>1. ~Sent(StartOut) \/ ~InFlight(ResumeIn, s)
        BY <1>q, <3>2, CommandsDiffer
      <4> QED BY <1>q, <4>1, SendResumes
    <3> QED BY <3>1, <3>2
  <2>2. Ordered(cmds, LateResume) => Ordered(cmds', LateResume) \/ Sent(PauseIn)'
    <3>1. CASE Sent(StartIn) /\ resume
      BY <1>p, <1>k, <1>s, <3>1
    <3>2. CASE ~(Sent(StartIn) /\ resume)
      <4>1. ~Sent(StartIn) \/ ~InFlight(ResumeIn, s)
        BY <1>q, <3>2, CommandsDiffer
      <4> QED BY <1>q, <4>1, SendResumes
    <3> QED BY <3>1, <3>2
  <2> QED BY <2>1, <2>2
<1>n. /\ \A m : Said(m)' <=> Said(m)
      /\ Ordered(msgs', TwoLasts) <=> Ordered(msgs, TwoLasts)
  BY <1>m, SteadySame
<1>e. /\ Streaming("in")' <=> Streaming("in")
      /\ Streaming("out")' <=> Streaming("out")
      /\ state' = state /\ client' = client
      /\ DrcWaits' <=> DrcWaits
      /\ DrainWaits' <=> DrainWaits
      /\ Paused' <=> Paused /\ ~resume
      /\ OutPaused' <=> OutPaused /\ ~reopen
      /\ InputOver' <=> InputOver
      /\ sub' \subseteq sub /\ "DRC_LAST" \notin sub'
      /\ (both => "DRAIN_LAST" \in sub')
      /\ (resume /\ ~Streaming("in") => sub' \cap {"DRC", "DRAIN", "FIRST_IPSC"} = {})
  <2>1. UNCHANGED state /\ UNCHANGED client BY DEF StartCmd
  <2>2. (Streaming("in")' <=> Streaming("in")) /\ (Streaming("out")' <=> Streaming("out"))
    BY <2>1, SteadySame
  <2>3. /\ DrcWaits' <=> DrcWaits
        /\ DrainWaits' <=> DrainWaits
        /\ Paused' <=> Paused /\ ~resume
        /\ OutPaused' <=> OutPaused /\ ~reopen
        /\ sub' \subseteq sub /\ "DRC_LAST" \notin sub'
        /\ (both => "DRAIN_LAST" \in sub')
    BY <1>p DEF StartCmd, both, resume, reopen, DrcPending, DrainPending, DrcWaits,
                DrainWaits, Paused, OutPaused, SequencesNest
  <2>4. resume /\ ~Streaming("in") => sub' \cap {"DRC", "DRAIN", "FIRST_IPSC"} = {}
    BY <1>p DEF StartCmd, both, resume, DrcPending, DrainPending, DrcWaits,
                DrainWaits, Paused, SequencesNest
  <2>5. InputOver' <=> InputOver BY <1>m, <2>2 DEF InputOver
  <2> QED BY <2>1, <2>2, <2>3, <2>4, <2>5
<1>1. Call("in", StartIn, StopIn, StopDoneIn)'
  BY <1>g, <1>i, <1>p, <1>k, <1>s, <1>n, <1>r, <1>m, <1>e, FwTyped DEF Call
<1>2. Call("out", StartOut, StopOut, StopDoneOut)'
  BY <1>g, <1>i, <1>p, <1>k, <1>s, <1>n, <1>r, <1>m, <1>e, FwTyped DEF Call
<1>3. Calls'
  BY <1>g, <1>i, <1>p, <1>k, <1>s, <1>n, <1>r, <1>m, <1>e, <1>1, <1>2 DEF Calls
<1>4. SteadyHeard'
  BY <1>g, <1>i, <1>p, <1>k, <1>s, <1>n, <1>r, <1>m, <1>e, FwTyped DEF SteadyHeard
<1>5. SteadySequences'
  BY <1>g, <1>i, <1>p, <1>k, <1>s, <1>n, <1>r, <1>m, <1>e, FwTyped DEF SteadySequences
<1>6. SteadyDrain'
  BY <1>g, <1>i, <1>p, <1>k, <1>s, <1>n, <1>r, <1>m, <1>e, FwTyped DEF SteadyDrain
<1>7. SteadyDrc'
  BY <1>g, <1>i, <1>p, <1>k, <1>s, <1>n, <1>r, <1>m, <1>e, FwTyped, NoLateResume DEF SteadyDrc
<1>8. SteadyInput'
  BY <1>g, <1>i, <1>p, <1>k, <1>s, <1>n, <1>r, <1>m, <1>e, FwTyped, NoLateResume DEF SteadyInput
<1>9. SteadyOutput'
  BY <1>g, <1>i, <1>p, <1>k, <1>s, <1>n, <1>r, <1>m, <1>e, FwTyped DEF SteadyOutput
<1>10. PauseEnds'
  BY <1>g, <1>i, <1>p, <1>k, <1>s, <1>n, <1>r, <1>m, <1>e, FwTyped, LastComes DEF PauseEnds
<1> QED BY <1>o, <1>3, <1>4, <1>5, <1>6, <1>7, <1>8, <1>9, <1>10 DEF Steady

\* The client asks for the stop of the input.
LEMMA SteadyStreamOffInput ==
  ASSUME TypeOK, SequencesNest, Ports, Fine, Steady,
         StreamOff("in"), packet
  PROVE  Steady'
<1>g. /\ SteadyOrder /\ Calls /\ SteadyHeard /\ SteadySequences /\ SteadyDrain
      /\ SteadyDrc /\ SteadyInput /\ SteadyOutput /\ PauseEnds
      /\ Call("in", StartIn, StopIn, StopDoneIn)
      /\ Call("out", StartOut, StopOut, StopDoneOut)
  BY SteadyIs
<1>i. /\ client = "idle" /\ Well
      /\ "in" \notin signal /\ "out" \notin signal
      /\ ~Sent(StopIn) /\ ~Sent(StopOut) /\ ~Said(StopDoneIn) /\ ~Said(StopDoneOut)
      /\ Streaming("in") <=> "in" \in vb2
      /\ Streaming("out") <=> "out" \in vb2
      /\ Streaming("in") /\ fw.in = "stop" => Sent(StartIn)
      /\ Streaming("out") /\ fw.out = "stop" => Sent(StartOut)
      /\ Streaming("in") <=> state \in {"STREAMING", "INPUT_STREAMING"}
      /\ Streaming("out") <=> state \in {"STREAMING", "OUTPUT_STREAMING"}
      /\ state \notin {"ERROR", "CLOSE"} /\ SteadyOrder
  BY SteadyIdle DEF StreamOff, MayCall
<1>p. Streaming("in") /\ (fw.in = "stop" => Sent(StartIn))
  BY <1>g, <1>i, FwTyped, LastComes
     DEF StreamOff, MayCall, Call, SteadyHeard, SteadySequences, SteadyDrain, SteadyDrc,
         SteadyInput, SteadyOutput, InputOver, DrcWaits, DrainWaits, Paused, OutPaused,
         SequencesNest
<1> DEFINE s == << StopIn >>
<1>q. /\ s \in Seq(Cmds) /\ Send(s) /\ Ordered(s, SteadyCmdBars) /\ Ordered(s, LateResume) /\ Ordered(s, OutThenIn)
      /\ \A a : InFlight(a, s) <=> a = StopIn
  <2>0. Send(s) BY DEF StreamOff, StopIn
  <2>1. s \in Seq(Cmds) /\ Ordered(s, SteadyCmdBars) /\ Ordered(s, LateResume) /\ Ordered(s, OutThenIn)
        /\ \A a : InFlight(a, s) <=> a = StopIn
    BY NamesAre, OrderedOne, InFlightOne
  <2> QED BY <2>0, <2>1
<1> HIDE DEF s
<1>s. /\ Sent(StartIn)' <=> Sent(StartIn)
      /\ Sent(StartOut)' <=> Sent(StartOut)
      /\ Sent(StopIn)'
      /\ Sent(StopOut)' <=> Sent(StopOut)
      /\ Sent(PauseIn)' <=> Sent(PauseIn)
      /\ Sent(ResumeIn)' <=> Sent(ResumeIn)
      /\ Sent(ResumeOut)' <=> Sent(ResumeOut)
      /\ Sent(Drain)' <=> Sent(Drain)
      /\ Sent(Etb)' <=> Sent(Etb)
      /\ Sent(<<"close">>)' <=> Sent(<<"close">>)
  BY <1>q, SentMore, CommandsDiffer
<1>m. UNCHANGED <<msgs, decode>> /\ UNCHANGED <<fw, signal>>
  BY DEF StreamOff, session
<1>o. SteadyOrder'
  <2>1. \A a, b : Sent(a) /\ InFlight(b, s) => <<a, b>> \notin SteadyCmdBars
    BY <1>i, <1>p, <1>q, CmdBarsOf
  <2> QED BY <1>m, <1>q, <1>i, <2>1, SendOrdered
<1>r. /\ Ordered(cmds, LateResume) => Ordered(cmds', LateResume)
      /\ Ordered(cmds, OutThenIn) => Ordered(cmds', OutThenIn)
  BY <1>q, SendResumes, CommandsDiffer
<1>n. /\ \A m : Said(m)' <=> Said(m)
      /\ Ordered(msgs', TwoLasts) <=> Ordered(msgs, TwoLasts)
  BY <1>m, SteadySame
<1>e. /\ Streaming("in")' <=> Streaming("in")
      /\ Streaming("out")' <=> Streaming("out")
      /\ state' = state /\ client' = "in"
      /\ DrcWaits' <=> DrcWaits
      /\ DrainWaits' <=> DrainWaits
      /\ Paused' <=> Paused
      /\ OutPaused' <=> OutPaused
      /\ InputOver' <=> InputOver
      /\ sub' = sub
  <2>1. UNCHANGED <<state, sub>> /\ client' = "in"
    BY DEF StreamOff
  <2> QED BY <1>m, <2>1, SteadySame DEF InputOver
<1>1. Call("in", StartIn, StopIn, StopDoneIn)'
  BY <1>g, <1>i, <1>p, <1>s, <1>n, <1>r, <1>m, <1>e, FwTyped DEF Call
<1>2. Call("out", StartOut, StopOut, StopDoneOut)'
  BY <1>g, <1>i, <1>p, <1>s, <1>n, <1>r, <1>m, <1>e, FwTyped DEF Call
<1>3. Calls'
  BY <1>g, <1>i, <1>p, <1>s, <1>n, <1>r, <1>m, <1>e, <1>1, <1>2 DEF Calls
<1>4. SteadyHeard'
  BY <1>g, <1>i, <1>p, <1>s, <1>n, <1>r, <1>m, <1>e, FwTyped DEF SteadyHeard
<1>5. SteadySequences'
  BY <1>g, <1>i, <1>p, <1>s, <1>n, <1>r, <1>m, <1>e, FwTyped DEF SteadySequences
<1>6. SteadyDrain'
  BY <1>g, <1>i, <1>p, <1>s, <1>n, <1>r, <1>m, <1>e, FwTyped DEF SteadyDrain
<1>7. SteadyDrc'
  BY <1>g, <1>i, <1>p, <1>s, <1>n, <1>r, <1>m, <1>e, FwTyped, NoLateResume DEF SteadyDrc
<1>8. SteadyInput'
  BY <1>g, <1>i, <1>p, <1>s, <1>n, <1>r, <1>m, <1>e, FwTyped, NoLateResume DEF SteadyInput
<1>9. SteadyOutput'
  BY <1>g, <1>i, <1>p, <1>s, <1>n, <1>r, <1>m, <1>e, FwTyped DEF SteadyOutput
<1>10. PauseEnds'
  BY <1>g, <1>i, <1>p, <1>s, <1>n, <1>r, <1>m, <1>e, FwTyped, LastComes DEF PauseEnds
<1> QED BY <1>o, <1>3, <1>4, <1>5, <1>6, <1>7, <1>8, <1>9, <1>10 DEF Steady

\* The client asks for the stop of the output.
LEMMA SteadyStreamOffOutput ==
  ASSUME TypeOK, SequencesNest, Ports, Fine, Steady,
         StreamOff("out"), packet
  PROVE  Steady'
<1>g. /\ SteadyOrder /\ Calls /\ SteadyHeard /\ SteadySequences /\ SteadyDrain
      /\ SteadyDrc /\ SteadyInput /\ SteadyOutput /\ PauseEnds
      /\ Call("in", StartIn, StopIn, StopDoneIn)
      /\ Call("out", StartOut, StopOut, StopDoneOut)
  BY SteadyIs
<1>i. /\ client = "idle" /\ Well
      /\ "in" \notin signal /\ "out" \notin signal
      /\ ~Sent(StopIn) /\ ~Sent(StopOut) /\ ~Said(StopDoneIn) /\ ~Said(StopDoneOut)
      /\ Streaming("in") <=> "in" \in vb2
      /\ Streaming("out") <=> "out" \in vb2
      /\ Streaming("in") /\ fw.in = "stop" => Sent(StartIn)
      /\ Streaming("out") /\ fw.out = "stop" => Sent(StartOut)
      /\ Streaming("in") <=> state \in {"STREAMING", "INPUT_STREAMING"}
      /\ Streaming("out") <=> state \in {"STREAMING", "OUTPUT_STREAMING"}
      /\ state \notin {"ERROR", "CLOSE"} /\ SteadyOrder
  BY SteadyIdle DEF StreamOff, MayCall
<1>p. Streaming("out") /\ (fw.out = "stop" => Sent(StartOut))
  BY <1>g, <1>i, FwTyped, LastComes
     DEF StreamOff, MayCall, Call, SteadyHeard, SteadySequences, SteadyDrain, SteadyDrc,
         SteadyInput, SteadyOutput, InputOver, DrcWaits, DrainWaits, Paused, OutPaused,
         SequencesNest
<1> DEFINE s == << StopOut >>
<1>q. /\ s \in Seq(Cmds) /\ Send(s) /\ Ordered(s, SteadyCmdBars) /\ Ordered(s, LateResume) /\ Ordered(s, OutThenIn)
      /\ \A a : InFlight(a, s) <=> a = StopOut
  <2>0. Send(s) BY DEF StreamOff, StopOut
  <2>1. s \in Seq(Cmds) /\ Ordered(s, SteadyCmdBars) /\ Ordered(s, LateResume) /\ Ordered(s, OutThenIn)
        /\ \A a : InFlight(a, s) <=> a = StopOut
    BY NamesAre, OrderedOne, InFlightOne
  <2> QED BY <2>0, <2>1
<1> HIDE DEF s
<1>s. /\ Sent(StartIn)' <=> Sent(StartIn)
      /\ Sent(StartOut)' <=> Sent(StartOut)
      /\ Sent(StopIn)' <=> Sent(StopIn)
      /\ Sent(StopOut)'
      /\ Sent(PauseIn)' <=> Sent(PauseIn)
      /\ Sent(ResumeIn)' <=> Sent(ResumeIn)
      /\ Sent(ResumeOut)' <=> Sent(ResumeOut)
      /\ Sent(Drain)' <=> Sent(Drain)
      /\ Sent(Etb)' <=> Sent(Etb)
      /\ Sent(<<"close">>)' <=> Sent(<<"close">>)
  BY <1>q, SentMore, CommandsDiffer
<1>m. UNCHANGED <<msgs, decode>> /\ UNCHANGED <<fw, signal>>
  BY DEF StreamOff, session
<1>o. SteadyOrder'
  <2>1. \A a, b : Sent(a) /\ InFlight(b, s) => <<a, b>> \notin SteadyCmdBars
    BY <1>i, <1>p, <1>q, CmdBarsOf
  <2> QED BY <1>m, <1>q, <1>i, <2>1, SendOrdered
<1>r. /\ Ordered(cmds, LateResume) => Ordered(cmds', LateResume)
      /\ Ordered(cmds, OutThenIn) => Ordered(cmds', OutThenIn)
  BY <1>q, SendResumes, CommandsDiffer
<1>n. /\ \A m : Said(m)' <=> Said(m)
      /\ Ordered(msgs', TwoLasts) <=> Ordered(msgs, TwoLasts)
  BY <1>m, SteadySame
<1>e. /\ Streaming("in")' <=> Streaming("in")
      /\ Streaming("out")' <=> Streaming("out")
      /\ state' = state /\ client' = "out"
      /\ DrcWaits' <=> DrcWaits
      /\ DrainWaits' <=> DrainWaits
      /\ Paused' <=> Paused
      /\ OutPaused' <=> OutPaused
      /\ InputOver' <=> InputOver
      /\ sub' = sub
  <2>1. UNCHANGED <<state, sub>> /\ client' = "out"
    BY DEF StreamOff
  <2> QED BY <1>m, <2>1, SteadySame DEF InputOver
<1>1. Call("in", StartIn, StopIn, StopDoneIn)'
  BY <1>g, <1>i, <1>p, <1>s, <1>n, <1>r, <1>m, <1>e, FwTyped DEF Call
<1>2. Call("out", StartOut, StopOut, StopDoneOut)'
  BY <1>g, <1>i, <1>p, <1>s, <1>n, <1>r, <1>m, <1>e, FwTyped DEF Call
<1>3. Calls'
  BY <1>g, <1>i, <1>p, <1>s, <1>n, <1>r, <1>m, <1>e, <1>1, <1>2 DEF Calls
<1>4. SteadyHeard'
  BY <1>g, <1>i, <1>p, <1>s, <1>n, <1>r, <1>m, <1>e, FwTyped DEF SteadyHeard
<1>5. SteadySequences'
  BY <1>g, <1>i, <1>p, <1>s, <1>n, <1>r, <1>m, <1>e, FwTyped DEF SteadySequences
<1>6. SteadyDrain'
  BY <1>g, <1>i, <1>p, <1>s, <1>n, <1>r, <1>m, <1>e, FwTyped DEF SteadyDrain
<1>7. SteadyDrc'
  BY <1>g, <1>i, <1>p, <1>s, <1>n, <1>r, <1>m, <1>e, FwTyped, NoLateResume DEF SteadyDrc
<1>8. SteadyInput'
  BY <1>g, <1>i, <1>p, <1>s, <1>n, <1>r, <1>m, <1>e, FwTyped, NoLateResume DEF SteadyInput
<1>9. SteadyOutput'
  BY <1>g, <1>i, <1>p, <1>s, <1>n, <1>r, <1>m, <1>e, FwTyped DEF SteadyOutput
<1>10. PauseEnds'
  BY <1>g, <1>i, <1>p, <1>s, <1>n, <1>r, <1>m, <1>e, FwTyped, LastComes DEF PauseEnds
<1> QED BY <1>o, <1>3, <1>4, <1>5, <1>6, <1>7, <1>8, <1>9, <1>10 DEF Steady

\* The stop of the input is over.
LEMMA SteadyStreamOffInputDone ==
  ASSUME TypeOK, SequencesNest, Ports, Fine, Steady, StreamOffDone("in"), "in" \in vb2
  PROVE  Steady'
<1>g. /\ SteadyOrder /\ Calls /\ SteadyHeard /\ SteadySequences /\ SteadyDrain
      /\ SteadyDrc /\ SteadyInput /\ SteadyOutput /\ PauseEnds
      /\ Call("in", StartIn, StopIn, StopDoneIn)
      /\ Call("out", StartOut, StopOut, StopDoneOut)
  BY SteadyIs
<1>i. /\ client = "in" /\ "in" \in signal /\ client' = "idle"
      /\ signal' = signal \ {"in"}
      /\ UNCHANGED <<msgs, decode>> /\ UNCHANGED <<cmds, fw, sub>>
  BY DEF StreamOffDone
<1>p. /\ Streaming("in") /\ cmds = << >> /\ fw.in = "stop"
      /\ \A a : ~Sent(a)
      /\ ~Said(StopDoneIn)
      /\ ~Said(StopDoneOut) /\ "out" \notin signal
      /\ fw.out # "stop" <=> Streaming("out")
      /\ (~decode => "DRC_LAST" \notin sub)
      /\ ~Said(Ipsc) /\ ~Said(DrainDone) /\ ~Said(PscLast) /\ ~DrcWaits
      /\ (decode => ~Said(DrainLast) /\ ~DrainWaits)
  BY <1>g, <1>i, PortsSay, NothingInFlight, FwTyped
     DEF Call, Port, Fine, Sent, SequencesNest, SteadyHeard, SteadySequences, SteadyDrain,
         SteadyDrc, SteadyInput, SteadyOutput, InputOver
<1>e. /\ ~Streaming("in")' /\ (Streaming("out")' <=> Streaming("out"))
      /\ state' # "STREAMING"
  <2>1. /\ "in" \in Port /\ state \in States /\ Well
        /\ state' = Changed(Minus("in"))
    BY DEF StreamOffDone, Port, TypeOK, Fine
  <2>2. \A q \in Port : state' \in Streams(q) <=> q # "in" /\ Streaming(q)
    BY <2>1, <1>p, PlusMinusStreaming
  <2>3. ~Streaming("in")' /\ (Streaming("out")' <=> Streaming("out"))
    BY <2>2 DEF Streams, Streaming, Port
  <2> QED BY <2>3 DEF Streaming
<1>s. /\ \A m : Said(m)' <=> Said(m)
      /\ Ordered(msgs', TwoLasts) <=> Ordered(msgs, TwoLasts)
      /\ \A m : Sent(m)' <=> Sent(m)
      /\ Ordered(cmds', LateResume) <=> Ordered(cmds, LateResume)
      /\ Ordered(cmds', OutThenIn) <=> Ordered(cmds, OutThenIn)
      /\ DrcWaits' <=> DrcWaits
      /\ DrainWaits' <=> DrainWaits
      /\ Paused' <=> Paused
      /\ OutPaused' <=> OutPaused
      /\ InputOver'
  BY <1>i, <1>e, SteadySame DEF InputOver
<1>o. SteadyOrder'
  BY <1>g, <1>i, SteadySame DEF SteadyOrder
<1>1. Call("in", StartIn, StopIn, StopDoneIn)'
  BY <1>g, <1>i, <1>p, <1>e, <1>s, FwTyped DEF Call
<1>2. Call("out", StartOut, StopOut, StopDoneOut)'
  BY <1>g, <1>i, <1>p, <1>e, <1>s, FwTyped DEF Call
<1>3. Calls'
  BY <1>g, <1>i, <1>p, <1>e, <1>s, <1>1, <1>2 DEF Calls
<1>4. SteadyHeard'
  BY <1>g, <1>i, <1>p, <1>e, <1>s, FwTyped DEF SteadyHeard
<1>5. SteadySequences'
  BY <1>g, <1>i, <1>p, <1>e, <1>s, FwTyped DEF SteadySequences
<1>6. SteadyDrain'
  BY <1>g, <1>i, <1>p, <1>e, <1>s, FwTyped DEF SteadyDrain
<1>7. SteadyDrc'
  BY <1>g, <1>i, <1>p, <1>e, <1>s, FwTyped, NoLateResume DEF SteadyDrc
<1>8. SteadyInput'
  BY <1>g, <1>i, <1>p, <1>e, <1>s, FwTyped, NoLateResume DEF SteadyInput
<1>9. SteadyOutput'
  BY <1>g, <1>i, <1>p, <1>e, <1>s, FwTyped DEF SteadyOutput
<1>10. PauseEnds'
  BY <1>g, <1>i, <1>p, <1>e, <1>s, FwTyped, LastComes DEF PauseEnds
<1> QED BY <1>o, <1>3, <1>4, <1>5, <1>6, <1>7, <1>8, <1>9, <1>10 DEF Steady

\* The stop of the output is over.
LEMMA SteadyStreamOffOutputDone ==
  ASSUME TypeOK, SequencesNest, Ports, Fine, Steady, StreamOffDone("out"), "out" \in vb2
  PROVE  Steady'
<1>g. /\ SteadyOrder /\ Calls /\ SteadyHeard /\ SteadySequences /\ SteadyDrain
      /\ SteadyDrc /\ SteadyInput /\ SteadyOutput /\ PauseEnds
      /\ Call("in", StartIn, StopIn, StopDoneIn)
      /\ Call("out", StartOut, StopOut, StopDoneOut)
  BY SteadyIs
<1>i. /\ client = "out" /\ "out" \in signal /\ client' = "idle"
      /\ signal' = signal \ {"out"}
      /\ UNCHANGED <<msgs, decode>> /\ UNCHANGED <<cmds, fw, sub>>
  BY DEF StreamOffDone
<1>p. /\ Streaming("out") /\ cmds = << >> /\ fw.out = "stop"
      /\ \A a : ~Sent(a)
      /\ ~Said(StopDoneOut)
      /\ ~Said(StopDoneIn) /\ "in" \notin signal
      /\ fw.in # "stop" <=> Streaming("in")
      /\ ~Said(PscLast) /\ ~Said(DrainLast)
  BY <1>g, <1>i, PortsSay, NothingInFlight, FwTyped
     DEF Call, Port, Fine, Sent, SequencesNest, SteadyHeard, SteadySequences, SteadyDrain,
         SteadyDrc, SteadyInput, SteadyOutput, InputOver
<1>e. /\ ~Streaming("out")' /\ (Streaming("in")' <=> Streaming("in"))
      /\ state' # "STREAMING"
  <2>1. /\ "out" \in Port /\ state \in States /\ Well
        /\ state' = Changed(Minus("out"))
    BY DEF StreamOffDone, Port, TypeOK, Fine
  <2>2. \A q \in Port : state' \in Streams(q) <=> q # "out" /\ Streaming(q)
    BY <2>1, <1>p, PlusMinusStreaming
  <2>3. ~Streaming("out")' /\ (Streaming("in")' <=> Streaming("in"))
    BY <2>2 DEF Streams, Streaming, Port
  <2> QED BY <2>3 DEF Streaming
<1>s. /\ \A m : Said(m)' <=> Said(m)
      /\ Ordered(msgs', TwoLasts) <=> Ordered(msgs, TwoLasts)
      /\ \A m : Sent(m)' <=> Sent(m)
      /\ Ordered(cmds', LateResume) <=> Ordered(cmds, LateResume)
      /\ Ordered(cmds', OutThenIn) <=> Ordered(cmds, OutThenIn)
      /\ DrcWaits' <=> DrcWaits
      /\ DrainWaits' <=> DrainWaits
      /\ Paused' <=> Paused
      /\ OutPaused' <=> OutPaused
      /\ InputOver' <=> InputOver
  BY <1>i, <1>e, SteadySame DEF InputOver
<1>o. SteadyOrder'
  BY <1>g, <1>i, SteadySame DEF SteadyOrder
<1>1. Call("in", StartIn, StopIn, StopDoneIn)'
  BY <1>g, <1>i, <1>p, <1>e, <1>s, FwTyped DEF Call
<1>2. Call("out", StartOut, StopOut, StopDoneOut)'
  BY <1>g, <1>i, <1>p, <1>e, <1>s, FwTyped DEF Call
<1>3. Calls'
  BY <1>g, <1>i, <1>p, <1>e, <1>s, <1>1, <1>2 DEF Calls
<1>4. SteadyHeard'
  BY <1>g, <1>i, <1>p, <1>e, <1>s, FwTyped DEF SteadyHeard
<1>5. SteadySequences'
  BY <1>g, <1>i, <1>p, <1>e, <1>s, FwTyped DEF SteadySequences
<1>6. SteadyDrain'
  BY <1>g, <1>i, <1>p, <1>e, <1>s, FwTyped DEF SteadyDrain
<1>7. SteadyDrc'
  BY <1>g, <1>i, <1>p, <1>e, <1>s, FwTyped, NoLateResume DEF SteadyDrc
<1>8. SteadyInput'
  BY <1>g, <1>i, <1>p, <1>e, <1>s, FwTyped, NoLateResume DEF SteadyInput
<1>9. SteadyOutput'
  BY <1>g, <1>i, <1>p, <1>e, <1>s, FwTyped DEF SteadyOutput
<1>10. PauseEnds'
  BY <1>g, <1>i, <1>p, <1>e, <1>s, FwTyped, LastComes DEF PauseEnds
<1> QED BY <1>o, <1>3, <1>4, <1>5, <1>6, <1>7, <1>8, <1>9, <1>10 DEF Steady

\* The firmware takes nothing back.
LEMMA AnswersStay ==
  ASSUME TypeOK, Firmware, NEW m, Said(m) PROVE Said(m)'
<1>1. msgs \in Seq(Msgs) /\ InFlight(m, msgs) BY DEF TypeOK, Said
<1>2. ASSUME NEW x \in Msgs, msgs' = Append(msgs, x) PROVE Said(m)'
  <2>1. InFlight(m, Append(msgs, x)) BY <1>1, InFlightAppend
  <2> QED BY <1>2, <2>1 DEF Said
<1>3. CASE msgs' = msgs
  BY <1>1, <1>3 DEF Said
<1>4. ASSUME NEW p \in Port, FwStop(p) PROVE Said(m)'
  <2>1. PICK x \in Msgs : msgs' = msgs \o Flush(p) \o << x >>
    BY <1>4, MsgsHas DEF FwStop
  <2> DEFINE f == Flush(p)
             g == msgs \o f
  <2>2. f \in Seq(Msgs) BY FlushSays
  <2> HIDE DEF f
  <2>3. g \in Seq(Msgs) /\ InFlight(m, g) BY <1>1, <2>2, InFlightBoth
  <2>4. msgs' = g \o << x >> BY <2>1 DEF f
  <2> HIDE DEF g
  <2>5. g \o << x >> = Append(g, x) BY <2>3
  <2>6. InFlight(m, Append(g, x)) BY <2>3, InFlightAppend
  <2> QED BY <2>4, <2>5, <2>6 DEF Said
<1> QED
  BY <1>2, <1>3, <1>4, MsgsHas
     DEF Firmware, FwCommand, FwStart, FwIpsc, FwPscLast, FwDrainDone, FwDrainLast, FwError,
         FwHang, Says

\* A session that has failed does not recover: what is fine was fine.
LEMMA FineBefore ==
  ASSUME TypeOK, Ports, Next, Fine'
  PROVE  Fine
<1>f. /\ state' \notin {"ERROR", "CLOSE"} /\ alive' /\ packet'
      /\ client' \in vb2' \cup {"idle"} /\ ~Said(<<"error">>)'
  BY DEF Fine, Well
<1>t. /\ state \in States /\ vb2 \subseteq Port
      /\ {"idle", "killed", "closed", "gone"} \cap Port = {}
      /\ "killed" # "idle" /\ "closed" # "idle" /\ "gone" # "idle"
  BY DEF TypeOK, Port
<1>e. /\ Changed("ERROR") \in {"ERROR", "CLOSE"} /\ Changed("CLOSE") \in {"ERROR", "CLOSE"}
      /\ \A x : ~Well => Changed(x) \in {"ERROR", "CLOSE"}
  BY <1>t DEF Changed, Allowed, States, Well
<1>c. state = "CLOSE" => client = "gone" BY DEF Ports
<1>1. CASE Firmware
  <2>1. UNCHANGED <<state, vb2, packet, client>>
    BY <1>1 DEF Firmware, FwCommand, FwIpsc, FwPscLast, FwDrainDone, FwDrainLast,
                FwError, FwHang, Says, session
  <2>2. alive
    BY <1>1, <1>f DEF Firmware, FwCommand, FwIpsc, FwPscLast, FwDrainDone, FwDrainLast,
                FwError, FwHang, Says
  <2>3. ~Said(<<"error">>) BY <1>1, <1>f, AnswersStay
  <2> QED BY <1>f, <2>1, <2>2, <2>3 DEF Fine, Well
<1>2. CASE HandleResponse
  <2>1. /\ UNCHANGED <<vb2, packet, client, alive>>
        /\ msgs # << >> /\ msgs' = Tail(msgs) /\ msgs \in Seq(Msgs)
    BY <1>2 DEF HandleResponse, TypeOK
  <2>2. state' = state \/ state' = Changed("ERROR")
    BY <1>2 DEF HandleResponse, HandleIpsc, HandleLast, HandleDrainDone, HandleStopDone,
                HandleCloseDone, HandleError
  <2>3. Well /\ state' = state BY <1>e, <1>f, <2>2 DEF Well
  <2>4. Head(msgs) # <<"error">>
    <3>1. ASSUME Head(msgs) = <<"error">> PROVE HandleError
      <4>1. /\ <<"error">> # <<"ipsc">> /\ <<"error">> # <<"psc_last">>
            /\ <<"error">> # <<"drain_last">> /\ <<"error">> # <<"drain_done">>
            /\ <<"error">> # <<"close_done">>
            /\ \A p : <<"error">> # <<"stop_done", p>> /\ <<"error">> # <<"stop_error", p>>
        BY PacketsDiffer
      <4> QED BY <1>2, <3>1, <4>1
              DEF HandleResponse, HandleIpsc, HandleLast, HandleDrainDone, HandleStopDone,
                  HandleCloseDone
    <3>2. ~HandleError BY <1>e, <1>f DEF HandleError
    <3> QED BY <3>1, <3>2
  <2>5. ~Said(<<"error">>)
    BY <1>f, <2>1, <2>4, InFlightHead DEF Said
  <2> QED BY <1>f, <2>1, <2>3, <2>5 DEF Fine
<1>3. CASE Client
  <2>1. ~SessionCloseDone /\ ~Timeout BY <1>f DEF SessionCloseDone, Timeout
  <2>2. ASSUME NEW p \in Port, StreamOffBuffersLeft(p) PROVE FALSE
    <3>1. client' = "killed" /\ vb2' \subseteq Port BY <1>t, <2>2 DEF StreamOffBuffersLeft
    <3> QED BY <1>f, <1>t, <3>1
  <2>3. ~SessionClose
    <3>1. SessionClose => client' \in {"closed", "gone"} /\ vb2' = vb2 BY DEF SessionClose
    <3> QED BY <1>f, <1>t, <3>1
  <2>4. UNCHANGED <<alive, packet, msgs>>
    BY <1>3, <2>1, <2>2, <2>3
       DEF Client, StreamOnInput, StreamOnOutput, StreamOnFails, QueueInput, StopCmd, StartCmd,
           StreamOff, StreamOffDone, BeginClose, session
  <2>5. client \in vb2 \cup {"idle"} /\ Well
    <3>1. ASSUME NEW p \in Port, StreamOffDone(p) PROVE client \in vb2 /\ Well
      BY <1>e, <1>f, <3>1 DEF StreamOffDone
    <3>2. ASSUME NEW p \in Port, StreamOff(p) PROVE client = "idle" /\ Well
      <4>1. client = "idle" /\ state' \in {state, Changed("ERROR")}
        BY <3>2 DEF StreamOff
      <4> QED BY <1>e, <1>f, <4>1 DEF Well
    <3>3. CASE BeginClose
      BY <1>f, <3>3 DEF BeginClose, Well
    <3>4. CASE MayCall
      BY <1>c, <3>4 DEF MayCall, Well
    <3> QED
      BY <1>3, <2>1, <2>2, <2>3, <3>1, <3>2, <3>3, <3>4
         DEF Client, StreamOnInput, StreamOnOutput, StreamOnFails, QueueInput, StopCmd, StartCmd
  <2>6. ~Said(<<"error">>) BY <1>f, <2>4, SamePorts
  <2> QED BY <1>f, <2>4, <2>5, <2>6 DEF Fine
<1>4. CASE Gone
  BY <1>f, <1>t, <1>4 DEF Gone, vars, session
<1> QED BY <1>1, <1>2, <1>3, <1>4 DEF Next

LEMMA SteadyFirmware ==
  ASSUME TypeOK, Steady, Firmware, Fine'
  PROVE  Steady'
<1>1. CASE FwCommand
  <2>1. /\ UNCHANGED <<session, client, signal>>
        /\ cmds # << >> /\ cmds' = Tail(cmds)
    BY <1>1 DEF FwCommand
  <2>u. ASSUME msgs' = msgs PROVE UNCHANGED <<session, client, signal, msgs>>
    BY <2>1, <2>u
  <2>2. Calls BY SteadyIs
  <2>3. Sent(Head(cmds)) BY <2>1, InFlightHead DEF Sent, TypeOK
  <2>4. ASSUME Head(cmds) = StartIn /\ FwStart("in")
        PROVE  Steady'
    BY <2>1, <2>u, <2>4, SteadyStartInTaken DEF FwStart
  <2>5. ASSUME Head(cmds) = StartOut /\ FwStart("out")
        PROVE  Steady'
    BY <2>1, <2>u, <2>5, SteadyStartOutTaken DEF FwStart
  <2>6. ASSUME Head(cmds) = StopIn /\ FwStop("in")
        PROVE  Steady'
    BY <2>1, <2>6, SteadyStopInTaken
  <2>7. ASSUME Head(cmds) = StopOut /\ FwStop("out")
        PROVE  Steady'
    BY <2>1, <2>7, SteadyStopOutTaken
  <2>8. ASSUME Head(cmds) = PauseIn /\ msgs' = msgs
             /\ fw' = [fw EXCEPT !.in = IF @ = "run" THEN "pause" ELSE @]
        PROVE  Steady'
    BY <2>1, <2>u, <2>8, SteadyPauseInTaken
  <2>9. ASSUME Head(cmds) = ResumeIn /\ msgs' = msgs
             /\ fw' = [fw EXCEPT !.in = IF @ = "pause" THEN "run" ELSE @, !.psc = "none"]
        PROVE  Steady'
    BY <2>1, <2>u, <2>9, SteadyResumeInTaken
  <2>10. ASSUME Head(cmds) = ResumeOut /\ msgs' = msgs
             /\ fw' = [fw EXCEPT !.out = IF @ = "pause" THEN "run" ELSE @]
        PROVE  Steady'
    BY <2>1, <2>u, <2>10, SteadyResumeOutTaken
  <2>11. ASSUME Head(cmds) = Drain /\ msgs' = msgs /\ fw' = [fw EXCEPT !.drain = "asked"]
        PROVE  Steady'
    BY <2>1, <2>u, <2>11, SteadyDrainTaken
  <2>12. ASSUME Head(cmds) = Etb /\ msgs' = msgs
             /\ fw' = [fw EXCEPT !.data = IF fw.drain = "asked" THEN "after" ELSE "now"]
        PROVE  Steady'
    BY <2>1, <2>u, <2>12, SteadyEtbTaken
  <2>13. Head(cmds) # <<"close">> BY <2>2, <2>3 DEF Calls
  <2> QED
    BY <1>1, <2>4, <2>5, <2>6, <2>7, <2>8, <2>9, <2>10, <2>11, <2>12, <2>13
       DEF FwCommand, Port, StartIn, StartOut, StopIn, StopOut, PauseIn, ResumeIn,
           ResumeOut, Drain, Etb
<1>2. CASE FwIpsc
  BY <1>2, SteadyFwIpsc
<1>3. CASE FwPscLast
  BY <1>3, SteadyFwPscLast
<1>4. CASE FwDrainDone
  BY <1>4, SteadyFwDrainDone
<1>5. CASE FwDrainLast
  BY <1>5, SteadyFwDrainLast
<1>6. CASE FwError
  <2>1. msgs \in Seq(Msgs) /\ <<"error">> \in Msgs BY MsgsHas DEF TypeOK
  <2>2. Said(<<"error">>)' BY <1>6, <2>1, InFlightAppend DEF FwError, Said
  <2> QED BY <2>2 DEF Fine
<1>7. CASE FwHang
  BY <1>7 DEF FwHang, Fine
<1> QED BY <1>1, <1>2, <1>3, <1>4, <1>5, <1>6, <1>7 DEF Firmware

LEMMA SteadyResponse ==
  ASSUME TypeOK, SequencesNest, Ports, Fine, Steady, HandleResponse, Fine'
  PROVE  Steady'
<1>1. /\ msgs # << >> /\ msgs' = Tail(msgs)
      /\ UNCHANGED <<vb2, decode, closing, packet, client, cmds, fw, alive>>
  BY DEF HandleResponse
<1>2. state' # "ERROR" BY DEF Fine, Well
<1>3. Said(Head(msgs)) BY <1>1, InFlightHead DEF Said, TypeOK
<1>4. Head(msgs) # <<"close_done">> /\ Head(msgs) # <<"error">>
  BY <1>3, SteadyIs DEF Calls
<1>5. CASE HandleIpsc
  BY <1>1, <1>2, <1>5, SteadyIpscRead
<1>6. CASE HandleLast("psc_last", "DRC", "DRC_LAST")
  BY <1>1, <1>2, <1>6, SteadyPscLastRead
<1>7. CASE HandleLast("drain_last", "DRAIN", "DRAIN_LAST")
  BY <1>1, <1>2, <1>7, SteadyDrainLastRead
<1>8. CASE HandleDrainDone
  BY <1>1, <1>2, <1>8, SteadyDrainDoneRead
<1>9. CASE HandleStopDone("in")
  BY <1>1, <1>2, <1>9, SteadyStopDoneInRead
<1>10. CASE HandleStopDone("out")
  BY <1>1, <1>2, <1>10, SteadyStopDoneOutRead
<1>11. ~HandleCloseDone /\ ~HandleError
  BY <1>4 DEF HandleCloseDone, HandleError
<1> QED
  BY <1>5, <1>6, <1>7, <1>8, <1>9, <1>10, <1>11 DEF HandleResponse, Port

LEMMA SteadyClient ==
  ASSUME TypeOK, SequencesNest, Ports, Fine, Steady, Client, Fine'
  PROVE  Steady'
<1>f. /\ state' \notin {"ERROR", "CLOSE"} /\ packet'
      /\ client' \in vb2' \cup {"idle"}
  BY DEF Fine, Well
<1>t. /\ Port = {"in", "out"} /\ vb2 \subseteq Port /\ state \in States
      /\ {"idle", "killed", "closed", "gone"} \cap Port = {}
      /\ "killed" # "idle" /\ "closed" # "idle" /\ "gone" # "idle"
  BY DEF TypeOK, Port
<1>e. Changed("ERROR") \in {"ERROR", "CLOSE"}
  BY <1>t DEF Changed, Allowed, States
<1>1. ASSUME NEW deferred \in BOOLEAN, StreamOnInput(deferred) PROVE Steady'
  BY <1>1, SteadyStreamOnInput
<1>2. CASE StreamOnOutput
  BY <1>2, SteadyStreamOnOutput
<1>3. ASSUME NEW p \in Port, StreamOnFails(p) PROVE FALSE
  <2>1. state' = Changed("ERROR") \/ (client' = "out" /\ "out" \notin vb2')
    BY <1>3 DEF StreamOnFails
  <2> QED BY <1>e, <1>f, <1>t, <2>1
<1>4. CASE QueueInput
  BY <1>4, SteadyQueueInput
<1>5. CASE StopCmd
  BY <1>5, SteadyStopCmd
<1>6. CASE StartCmd
  BY <1>6, SteadyStartCmd
<1>7. ASSUME NEW p \in Port, StreamOff(p) PROVE Steady'
  <2>1. packet BY <1>7, <1>f DEF StreamOff
  <2>2. CASE p = "in" BY <1>7, <2>1, <2>2, SteadyStreamOffInput
  <2>3. CASE p = "out" BY <1>7, <2>1, <2>3, SteadyStreamOffOutput
  <2> QED BY <2>2, <2>3, <1>t
<1>8. ASSUME NEW p \in Port, StreamOffDone(p) PROVE Steady'
  <2>1. p \in vb2 BY <1>8, <1>e, <1>f DEF StreamOffDone
  <2>2. CASE p = "in" BY <1>8, <2>1, <2>2, SteadyStreamOffInputDone
  <2>3. CASE p = "out" BY <1>8, <2>1, <2>3, SteadyStreamOffOutputDone
  <2> QED BY <2>2, <2>3, <1>t
<1>9. ASSUME NEW p \in Port, StreamOffBuffersLeft(p) PROVE FALSE
  <2>1. client' = "killed" /\ vb2' \subseteq Port BY <1>t, <1>9 DEF StreamOffBuffersLeft
  <2> QED BY <1>f, <1>t, <2>1
<1>10. CASE BeginClose
  <2>1. UNCHANGED <<decode, state, sub, client, signal, cmds, msgs, fw>>
    BY <1>10 DEF BeginClose
  <2> QED BY <2>1, SameSteady
<1>11. ~SessionClose
  <2>1. SessionClose => client' \in {"closed", "gone"} /\ vb2' = vb2 BY DEF SessionClose
  <2> QED BY <1>f, <1>t, <2>1
<1>12. ~SessionCloseDone /\ ~Timeout
  BY <1>f DEF SessionCloseDone, Timeout
<1> QED
  BY <1>1, <1>2, <1>3, <1>4, <1>5, <1>6, <1>7, <1>8, <1>9, <1>10, <1>11, <1>12 DEF Client

LEMMA PausesKept ==
  TypeOK /\ SequencesNest /\ Ports /\ PausesKnown /\ [Next]_vars => PausesKnown'
<1> SUFFICES ASSUME TypeOK, SequencesNest, Ports, PausesKnown, [Next]_vars, Fine'
             PROVE  Steady'
  BY DEF PausesKnown
<1>1. CASE UNCHANGED vars
  <2>1. UNCHANGED <<decode, state, sub, client, signal, cmds, msgs, fw>>
        /\ UNCHANGED <<vb2, packet, alive>>
    BY <1>1 DEF vars, session
  <2>2. Fine BY <2>1, SamePorts DEF Fine, Well
  <2> QED BY <2>1, <2>2, SameSteady DEF PausesKnown
<1>2. CASE Next
  <2>1. Fine BY <1>2, FineBefore
  <2>2. Steady BY <2>1 DEF PausesKnown
  <2>3. CASE Client BY <2>1, <2>2, <2>3, SteadyClient
  <2>4. CASE HandleResponse BY <2>1, <2>2, <2>4, SteadyResponse
  <2>5. CASE Firmware BY <2>2, <2>5, SteadyFirmware
  <2>6. ~Gone BY <2>1 DEF Gone, Fine, TypeOK, Port
  <2> QED BY <1>2, <2>3, <2>4, <2>5, <2>6 DEF Next
<1> QED BY <1>1, <1>2

LEMMA InitPausesKnown == Init => PausesKnown
<1> SUFFICES ASSUME Init PROVE Steady BY DEF PausesKnown
<1>1. \A m : ~Sent(m) /\ ~Said(m) BY NothingInFlight DEF Init, Sent, Said
<1>2. SteadyOrder BY OrderedOne DEF Init, SteadyOrder
<1>3. Ordered(cmds, LateResume) /\ Ordered(cmds, OutThenIn) /\ Ordered(msgs, TwoLasts)
  BY OrderedOne DEF Init
<1>4. /\ ~Streaming("in") /\ ~Streaming("out") /\ ~Paused /\ ~DrcWaits /\ ~DrainWaits
      /\ ~OutPaused /\ InputOver /\ state = "OPEN"
  BY DEF Init, Streaming, Paused, DrcWaits, DrainWaits, OutPaused, InputOver
<1>5. /\ Call("in", StartIn, StopIn, StopDoneIn)
      /\ Call("out", StartOut, StopOut, StopDoneOut)
  BY <1>1 DEF Init, Call
<1>6. Calls BY <1>1, <1>5 DEF Calls
<1>7. SteadyHeard BY <1>1 DEF Init, SteadyHeard
<1>8. SteadySequences BY <1>1 DEF Init, SteadySequences
<1>9. SteadyDrain BY <1>1, <1>4 DEF Init, SteadyDrain
<1>10. SteadyDrc BY <1>1, <1>3, <1>4 DEF Init, SteadyDrc
<1>11. SteadyInput BY <1>1, <1>3, <1>4 DEF Init, SteadyInput
<1>12. SteadyOutput BY <1>1, <1>4 DEF Init, SteadyOutput
<1>13. PauseEnds BY <1>4 DEF PauseEnds
<1> QED
  BY <1>2, <1>6, <1>7, <1>8, <1>9, <1>10, <1>11, <1>12, <1>13 DEF Steady

\* With nothing in flight, what is known of a pause says that it is sound.
LEMMA KnownIsSound ==
  TypeOK /\ SequencesNest /\ Ports /\ PausesKnown => PauseIsSound
<1> SUFFICES ASSUME TypeOK, SequencesNest, Ports, PausesKnown,
                    Quiet, state # "ERROR"
             PROVE  /\ Streaming("in") => (Paused <=> fw.in = "pause")
                    /\ Streaming("out") /\ decode => (OutPaused <=> fw.out = "pause")
                    /\ state = "STREAMING" /\ Paused =>
                         DrcPending \/ DrainPending \/ fw.psc = "last" \/ fw.drain = "last"
  BY DEF PauseIsSound, PauseAgrees, NoStuckPause, Paused, OutPaused
<1>1. client = "idle" /\ cmds = << >> /\ msgs = << >> /\ alive /\ packet BY DEF Quiet
<1>2. \A m : ~Sent(m) /\ ~Said(m) BY <1>1, NothingInFlight DEF Sent, Said
<1>3. Well BY <1>1 DEF Ports, Well
<1>4. Fine BY <1>1, <1>2, <1>3 DEF Fine
<1>5. Steady BY <1>4 DEF PausesKnown
<1>6. /\ SteadyInput /\ SteadyOutput /\ PauseEnds BY <1>5, SteadyIs
<1>7. /\ Streaming("in") => fw.in # "stop"
      /\ Streaming("out") => fw.out # "stop"
  BY <1>1, <1>2, <1>4, <1>5, SteadyIdle
<1>8. Streaming("in") => (Paused <=> fw.in = "pause")
  BY <1>2, <1>6, <1>7, FwTyped DEF SteadyInput
<1>9. Streaming("out") /\ decode => (OutPaused <=> fw.out = "pause")
  BY <1>1, <1>2, <1>6, <1>7, FwTyped DEF SteadyOutput
<1>10. state = "STREAMING" /\ Paused =>
         DrcPending \/ DrainPending \/ fw.psc = "last" \/ fw.drain = "last"
  BY <1>1, <1>2, <1>6, LastComes
     DEF PauseEnds, DrcPending, DrainPending, SequencesNest
<1> QED BY <1>8, <1>9, <1>10

(***************************************************************************)
(* A pause is sound, whatever has gone wrong before, as long as the        *)
(* session has not failed: with nothing in flight the pause flags of the   *)
(* driver (msm_vidc_state.h, the sub states INPUT_PAUSE and OUTPUT_PAUSE)  *)
(* say what the firmware's ports do, for every order of ioctls, commands   *)
(* and responses, and a session whose two ports stream is never left       *)
(* paused for a sequence that nobody will end.                             *)
(***************************************************************************)
THEOREM PausesAreSound == Spec => []PauseIsSound
<1>1. TypeOK /\ Nest /\ Ports /\ PausesKnown /\ [Next]_vars
        => TypeOK' /\ Nest' /\ Ports' /\ PausesKnown'
  <2> SUFFICES ASSUME TypeOK, Nest, Ports, PausesKnown, [Next]_vars
               PROVE  TypeOK' /\ Nest' /\ Ports' /\ PausesKnown'
    OBVIOUS
  <2>1. SequencesNest BY DEF Nest
  <2>2. PausesKnown' BY <2>1, PausesKept
  <2>3. CASE Client
    BY <2>2, <2>3, ClientTypes, ClientNest, ClientPorts
  <2>4. CASE HandleResponse
    BY <2>2, <2>4, ResponseTypes, ResponseNest, ResponsePorts
  <2>5. CASE Firmware \/ UNCHANGED vars
    BY <2>2, <2>5, FirmwareTypes, FirmwareNest, FirmwarePorts
  <2> QED BY <2>3, <2>4, <2>5 DEF Next, Gone
<1>2. TypeOK /\ Nest /\ Ports /\ PausesKnown => PauseIsSound
  BY KnownIsSound DEF Nest
<1> QED
  BY <1>1, <1>2, InitTypes, InitNest, InitPorts, InitPausesKnown, PTL DEF Spec
=============================================================================
