-------------------------------- MODULE Core --------------------------------
(***************************************************************************)
(* The life of the core (struct msm_vidc_core): the firmware is loaded by  *)
(* the first open, taken down by errors, timeouts and idle unloads, and    *)
(* loaded again by the next open, while sessions are opened, used, closed  *)
(* and freed by other threads.                                             *)
(*                                                                         *)
(* Threads: one client per session, the interrupt thread, the page fault   *)
(* handler, the works and power callbacks.  A section under core->lock is  *)
(* one action.  A session is named by its address; session_id, a hash of   *)
(* it, is taken to be unique.                                              *)
(***************************************************************************)
EXTENDS Naturals, Sequences, FiniteSets

CONSTANTS Inst,       \* the sessions that may exist at a time
          FwUnload,   \* capability FW_UNLOAD: idle firmware is unloaded
          Events      \* what may go wrong: subset of EventKinds

EventKinds == {"load_fails", "open_fails", "fw_hangs", "fw_error", "watchdog",
               "slow", "interrupted", "no_collapse", "page_fault", "freeze"}

ASSUME CoreAssumption == FwUnload \in BOOLEAN /\ Events \subseteq EventKinds

CoreStates == {"DEINIT", "INIT_WAIT", "INIT", "ERROR"}
Reapers    == {"none", "client", "irq", "fault"}

VARIABLES
  core,       \* core->state
  loaded,     \* the firmware is loaded and powered (fw_cookie)
  unload,     \* fw_unload_work is pending
  listed,     \* core->instances
  dangling,   \* core->dangling_instances
  alloc,      \* sessions whose memory is allocated and shared
  ref,        \* inst->kref
  state,      \* inst->state: OPEN and STREAMING stand for all live states
  packet,     \* sessions with inst->packet # NULL
  signal,     \* sessions with SIGNAL_CMD_CLOSE completed
  pc,         \* where the client of a session is
  reap,       \* who is tearing a session down
  irq,        \* the interrupt thread: pc, cached sessions, packet in hand
  fault,      \* the session the page fault handler prints
  cmds, msgs, \* the command and message queue
  fw,         \* the firmware
  early       \* history: this boot was deinited while in INIT_WAIT

lists  == <<listed, dangling>>
client == <<packet, signal, pc>>
mem    == <<alloc, ref, reap>>
vars   == <<core, loaded, unload, lists, mem, state, client, irq, fault,
            cmds, msgs, fw, early>>

Off  == [run |-> "off", sessions |-> {}]
Idle == [pc |-> "idle", held |-> {}, pkt |-> << >>, stale |-> FALSE]

Init ==
  /\ core = "DEINIT" /\ loaded = FALSE /\ unload = FALSE
  /\ listed = {} /\ dangling = {} /\ alloc = {}
  /\ ref = [i \in Inst |-> 0]
  /\ reap = [i \in Inst |-> "none"]
  /\ state = [i \in Inst |-> "OPEN"]
  /\ packet = {} /\ signal = {}
  /\ pc = [i \in Inst |-> "closed"]
  /\ irq = Idle /\ fault = {}
  /\ cmds = << >> /\ msgs = << >>
  /\ fw = Off
  /\ early = FALSE

-----------------------------------------------------------------------------
(* Operations under core->lock.                                            *)

Valid == core \in {"INIT_WAIT", "INIT"}
In(m, s) == \E k \in 1..Len(s) : s[k] = m

(***************************************************************************)
(* msm_vidc_core_deinit_locked, past the test of the force argument.  The  *)
(* row INIT_WAIT -> DEINIT of the state table is DISALLOW: without an      *)
(* ERROR first, a booting core stays in INIT_WAIT, its firmware unloaded.  *)
(***************************************************************************)
Deinit(error) ==
  IF core = "DEINIT"
  THEN UNCHANGED <<core, loaded, lists, state, cmds, fw, early>>
  ELSE /\ core' = IF core = "INIT_WAIT" /\ ~error THEN "INIT_WAIT" ELSE "DEINIT"
       /\ loaded' = FALSE
       /\ listed' = {}
       /\ dangling' = dangling \cup listed
       /\ state' = [i \in Inst |-> IF i \in listed /\ state[i] # "CLOSE"
                                   THEN "ERROR" ELSE state[i]]
       /\ cmds' = << >>
       /\ fw' = Off
       /\ early' = (early \/ (core = "INIT_WAIT" /\ ~error))

\* __validate_instance, and the tests on the way of a command to the queue.
Validate(i) == i \in listed
CanSend(i)  == i \in packet /\ Validate(i) /\ Valid /\ loaded

Goto(i, label) == pc' = [pc EXCEPT ![i] = label]

\* put_inst: the holder of the last reference tears the session down.
\* Mutants: an error path puts twice; only the client tears down.
PutTwice(i, who) ==
  /\ ref' = [ref EXCEPT ![i] = @ - 2]
  /\ reap' = IF ref[i] \in 1..2 THEN [reap EXCEPT ![i] = who] ELSE reap

PutByClient(i, who) ==
  /\ ref' = [ref EXCEPT ![i] = @ - 1]
  /\ reap' = IF ref[i] = 1 /\ who = "client" THEN [reap EXCEPT ![i] = who]
                                             ELSE reap

Put(i, who) ==
  /\ ref' = [ref EXCEPT ![i] = @ - 1]
  /\ reap' = IF ref[i] = 1 THEN [reap EXCEPT ![i] = who] ELSE reap

-----------------------------------------------------------------------------
(* msm_vidc_open.                                                          *)

\* No new session has the address of one that is still held somewhere.
Fresh(i) == pc[i] = "closed" /\ i \notin alloc \cup irq.held \cup fault

\* msm_vidc_core_init, when the core is up or on its way.
OpenFindsCore(i) ==
  /\ Fresh(i)
  /\ Valid
  /\ Goto(i, "wait")
  /\ UNCHANGED <<core, loaded, unload, lists, mem, state, packet, signal, irq,
                 fault, cmds, msgs, fw, early>>

\* msm_vidc_core_init loads the firmware and sends SYS_INIT with a new id: a
\* reply the interrupt thread still has in hand no longer matches.  An open that
\* waited for the boot before and has not looked since goes on counting.
OpenBoots(i) ==
  /\ Fresh(i)
  /\ core = "DEINIT"
  /\ core' = "INIT_WAIT" /\ loaded' = TRUE
  /\ cmds' = << <<"sys_init">> >> /\ msgs' = << >>
  /\ fw' = [run |-> "on", sessions |-> {}]
  /\ irq' = [irq EXCEPT !.stale = irq.pkt # << >>]
  /\ early' = FALSE
  /\ pc' = [j \in Inst |-> IF j = i THEN "wait"
                           ELSE IF pc[j] = "wait" THEN "rewait" ELSE pc[j]]
  /\ UNCHANGED <<unload, lists, mem, state, packet, signal, fault>>

\* Loading or booting fails: ERROR, then deinit, in the same section.
OpenBootFails(i) ==
  /\ "load_fails" \in Events
  /\ Fresh(i)
  /\ core = "DEINIT"
  /\ msgs' = << >>
  /\ UNCHANGED <<core, loaded, unload, lists, mem, state, client, irq, fault,
                 cmds, fw, early>>

Waits(i) == pc[i] \in {"wait", "rewait"}

\* msm_vidc_core_init_wait ends: the core has left INIT_WAIT.
OpenWaited(i) ==
  /\ Waits(i)
  /\ core # "INIT_WAIT"
  /\ Goto(i, IF core = "INIT" THEN "add" ELSE "closed")
  /\ UNCHANGED <<core, loaded, unload, lists, mem, state, packet, signal, irq,
                 fault, cmds, msgs, fw, early>>

\* The answer to SYS_INIT is on its way and nothing keeps it from coming.
BootAnswered ==
  \/ irq.pkt = <<"sys_init">> /\ ~irq.stale
  \/ In(<<"sys_init">>, msgs) /\ (loaded \/ irq.pc \in {"read", "handle"})
  \/ In(<<"sys_init">>, cmds) /\ fw.run = "on"

\* ... or it has waited long enough; msleep_interruptible does not sleep at
\* all in a thread with a pending signal.  Mutants: the wait starts again; the
\* deinit without ERROR.
OpenWaitsAgain(i) ==
  /\ Waits(i)
  /\ core = "INIT_WAIT" /\ ~BootAnswered
  /\ UNCHANGED vars

NoErrorFirst   == FALSE
TimeoutIsError == TRUE

OpenTimesOut(i) ==
  /\ Waits(i)
  /\ core = "INIT_WAIT"
  /\ BootAnswered /\ pc[i] = "wait" => Events \cap {"slow", "interrupted"} # {}
  /\ Deinit(TimeoutIsError)
  /\ Goto(i, "closed")
  /\ UNCHANGED <<unload, mem, packet, signal, irq, fault, msgs>>

\* msm_vidc_add_session.  Mutant: the state of the core is not looked at.
AddsInAnyState == TRUE
AddsOnlyInInit == core = "INIT"

AddSession(i) ==
  /\ pc[i] = "add"
  /\ IF AddsOnlyInInit
     THEN /\ listed' = listed \cup {i}
          /\ alloc' = alloc \cup {i}
          /\ ref' = [ref EXCEPT ![i] = 1]
          /\ state' = [state EXCEPT ![i] = "OPEN"]
          /\ Goto(i, "added")
     ELSE /\ Goto(i, "closed")
          /\ UNCHANGED <<listed, alloc, ref, state>>
  /\ signal' = signal \ {i}
  /\ UNCHANGED <<core, loaded, unload, dangling, reap, packet, irq, fault,
                 cmds, msgs, fw, early>>

\* msm_vidc_session_open: the packet is there, and OPEN is sent, in one
\* section; if it cannot be sent the packet is freed again in it.
SessionOpen(i) ==
  /\ pc[i] = "added"
  /\ IF Validate(i) /\ Valid /\ loaded
     THEN /\ packet' = packet \cup {i}
          /\ cmds' = Append(cmds, <<"open", i>>)
          /\ Goto(i, "open")
     ELSE /\ Goto(i, "force")
          /\ UNCHANGED <<packet, cmds>>
  /\ UNCHANGED <<core, loaded, unload, lists, mem, state, signal, irq, fault,
                 msgs, fw, early>>

\* No memory for the packet.
SessionOpenFails(i) ==
  /\ "open_fails" \in Events
  /\ pc[i] = "added"
  /\ Goto(i, "force")
  /\ UNCHANGED <<core, loaded, unload, lists, mem, state, packet, signal, irq,
                 fault, cmds, msgs, fw, early>>

\* A session that could not be opened takes the core down ...
OpenForcesDeinit(i) ==
  /\ pc[i] = "force"
  /\ Deinit(FALSE)
  /\ Goto(i, "undo")
  /\ reap' = [reap EXCEPT ![i] = "client"]
  /\ UNCHANGED <<unload, alloc, ref, packet, signal, irq, fault, msgs>>

\* ... and one that failed before does not.  Both are freed whatever ref is.
OpenFails(i) ==
  /\ "open_fails" \in Events
  /\ pc[i] = "added"
  /\ Goto(i, "undo")
  /\ reap' = [reap EXCEPT ![i] = "client"]
  /\ UNCHANGED <<core, loaded, unload, lists, alloc, ref, state, packet,
                 signal, irq, fault, cmds, msgs, fw, early>>

-----------------------------------------------------------------------------
(* A session in use: msm_vidc_session holds inst->lock, not core->lock,    *)
(* while it tests the state and then changes it.                           *)

IoctlSends(i) ==
  /\ pc[i] = "open"
  /\ i \in listed /\ state[i] # "ERROR"
  /\ CanSend(i)
  /\ ~In(<<"use", i>>, cmds)
  /\ cmds' = Append(cmds, <<"use", i>>)
  /\ Goto(i, "update")
  /\ UNCHANGED <<core, loaded, unload, lists, mem, state, packet, signal, irq,
                 fault, msgs, fw, early>>

IoctlUpdates(i) ==
  /\ pc[i] = "update"
  /\ state' = [state EXCEPT ![i] = "STREAMING"]
  /\ Goto(i, "open")
  /\ UNCHANGED <<core, loaded, unload, lists, mem, packet, signal, irq, fault,
                 cmds, msgs, fw, early>>

-----------------------------------------------------------------------------
(* msm_vidc_close.                                                         *)

CloseSends(i) ==
  /\ pc[i] = "open"
  /\ IF CanSend(i)
     THEN cmds' = Append(cmds, <<"close", i>>) /\ Goto(i, "closing")
     ELSE UNCHANGED cmds /\ Goto(i, "finish")
  /\ UNCHANGED <<core, loaded, unload, lists, mem, state, packet, signal, irq,
                 fault, msgs, fw, early>>

CloseAnswered(i) ==
  /\ pc[i] = "closing"
  /\ i \in signal
  /\ signal' = signal \ {i}
  /\ Goto(i, "finish")
  /\ UNCHANGED <<core, loaded, unload, lists, mem, state, packet, irq, fault,
                 cmds, msgs, fw, early>>

AnswerComes(i) ==
  \/ irq.pkt = <<"close_done", i>>
  \/ In(<<"close_done", i>>, msgs) /\ loaded /\ Valid
  \/ In(<<"close", i>>, cmds) /\ fw.run = "on"

\* The wait times out: msm_vidc_inst_timeout, which leaves the core alone when
\* the session is no longer in the list.
CloseTimesOut(i) ==
  /\ pc[i] = "closing"
  /\ i \notin signal
  /\ AnswerComes(i) => "slow" \in Events
  /\ IF i \in listed THEN Deinit(TRUE)
     ELSE UNCHANGED <<core, loaded, lists, state, cmds, fw, early>>
  /\ Goto(i, "finish")
  /\ UNCHANGED <<unload, mem, packet, signal, irq, fault, msgs>>

\* The packet is freed, and the session is in CLOSE unless it is in ERROR.
CloseFinishes(i) ==
  /\ pc[i] = "finish"
  /\ packet' = packet \ {i}
  /\ state' = [state EXCEPT ![i] = IF @ = "ERROR" THEN @ ELSE "CLOSE"]
  /\ Goto(i, "put")
  /\ UNCHANGED <<core, loaded, unload, lists, mem, signal, irq, fault, cmds,
                 msgs, fw, early>>

ClosePuts(i) ==
  /\ pc[i] = "put"
  /\ Put(i, "client")
  /\ Goto(i, "schedule")
  /\ UNCHANGED <<core, loaded, unload, lists, alloc, state, packet, signal,
                 irq, fault, cmds, msgs, fw, early>>

\* msm_vidc_schedule_core_deinit.
CloseSchedules(i) ==
  /\ pc[i] = "schedule" /\ reap[i] # "client"
  /\ unload' = FwUnload
  /\ Goto(i, "closed")
  /\ UNCHANGED <<core, loaded, lists, mem, state, packet, signal, irq, fault,
                 cmds, msgs, fw, early>>

-----------------------------------------------------------------------------
(* The end of a session: msm_vidc_remove_session, then                     *)
(* msm_vidc_remove_dangling_session and vfree.                             *)

Unlist(i) ==
  /\ reap[i] # "none"
  /\ i \in listed
  /\ listed' = listed \ {i}
  /\ dangling' = dangling \cup {i}
  /\ UNCHANGED <<core, loaded, unload, mem, state, client, irq, fault, cmds,
                 msgs, fw, early>>

Free(i) ==
  /\ reap[i] # "none"
  /\ i \notin listed
  /\ dangling' = dangling \ {i}
  /\ alloc' = alloc \ {i}
  /\ reap' = [reap EXCEPT ![i] = "none"]
  /\ IF pc[i] = "undo" THEN Goto(i, "closed") ELSE UNCHANGED pc
  /\ UNCHANGED <<core, loaded, unload, listed, ref, state, packet, signal, irq,
                 fault, cmds, msgs, fw, early>>

-----------------------------------------------------------------------------
(* The interrupt thread: venus_hfi_isr_handler and __response_handler.     *)

Reaping(who) == \E i \in Inst : reap[i] = who

\* References are taken in one section to the sessions that have a packet, by
\* kref_get_unless_zero.  Mutant: by kref_get, and before the packet is there.
ReadyGet == listed
Ready    == {i \in listed \cap packet : ref[i] > 0}

IrqCaches ==
  LET held == Ready
  IN /\ irq.pc = "idle"
     /\ loaded /\ msgs # << >>
     /\ irq' = [irq EXCEPT !.pc = "read", !.held = held]
     /\ ref' = [i \in Inst |-> ref[i] + (IF i \in held THEN 1 ELSE 0)]
     /\ UNCHANGED <<core, loaded, unload, lists, alloc, reap, state, client,
                    fault, cmds, msgs, fw, early>>

\* The watchdog bit: ERROR in one section, the deinit in the next.
IrqWatchdog ==
  /\ irq.pc = "idle"
  /\ loaded /\ fw.run = "watchdog"
  /\ core' = IF Valid THEN "ERROR" ELSE core
  /\ irq' = [irq EXCEPT !.pc = "watchdog"]
  /\ UNCHANGED <<loaded, unload, lists, mem, state, client, fault, cmds, msgs,
                 fw, early>>

IrqWatchdogDeinit ==
  /\ irq.pc = "watchdog"
  /\ Deinit(FALSE)
  /\ irq' = Idle
  /\ UNCHANGED <<unload, mem, client, fault, msgs>>

\* venus_hfi_queue_msg_read, without core->lock.
IrqReads ==
  /\ irq.pc = "read"
  /\ Valid /\ msgs # << >>
  /\ irq' = [irq EXCEPT !.pc = "handle", !.pkt = Head(msgs), !.stale = FALSE]
  /\ msgs' = Tail(msgs)
  /\ UNCHANGED <<core, loaded, unload, lists, mem, state, client, fault, cmds,
                 fw, early>>

Handled == irq' = [irq EXCEPT !.pc = "read", !.pkt = << >>, !.stale = FALSE]

\* handle_system_init: the reply counts if its id is the last SYS_INIT's.
\* Mutant: the id is not compared.
AnyReplyMatches == TRUE
ReplyMatches == ~irq.stale

IrqSysInit ==
  /\ irq.pc = "handle" /\ irq.pkt = <<"sys_init">>
  /\ core' = IF ReplyMatches /\ core = "INIT_WAIT" THEN "INIT" ELSE core
  /\ Handled
  /\ UNCHANGED <<loaded, unload, lists, mem, state, client, fault, cmds, msgs,
                 fw, early>>

\* handle_system_error.
IrqSysError ==
  /\ irq.pc = "handle" /\ irq.pkt = <<"error">>
  /\ Deinit(FALSE)
  /\ Handled
  /\ UNCHANGED <<unload, mem, client, fault, msgs>>

\* A response of a session: the session is one of those cached, or is looked
\* up in the list; it is handled under inst->lock.
IrqCloseDone(i) ==
  /\ irq.pc = "handle" /\ irq.pkt = <<"close_done", i>>
  /\ IF i \in irq.held \/ (i \in listed /\ ref[i] > 0)
     THEN pc[i] # "update" /\ signal' = signal \cup {i}
     ELSE UNCHANGED signal
  /\ Handled
  /\ UNCHANGED <<core, loaded, unload, lists, mem, state, packet, pc, fault,
                 cmds, msgs, fw, early>>

IrqDrained ==
  /\ irq.pc = "read"
  /\ ~Valid \/ msgs = << >>
  /\ irq' = [irq EXCEPT !.pc = "drop"]
  /\ UNCHANGED <<core, loaded, unload, lists, mem, state, client, fault, cmds,
                 msgs, fw, early>>

IrqPuts(i) ==
  /\ irq.pc = "drop" /\ i \in irq.held
  /\ ~Reaping("irq")
  /\ Put(i, "irq")
  /\ irq' = [irq EXCEPT !.held = @ \ {i}]
  /\ UNCHANGED <<core, loaded, unload, lists, alloc, state, client, fault,
                 cmds, msgs, fw, early>>

IrqReturns ==
  /\ irq.pc = "drop" /\ irq.held = {}
  /\ ~Reaping("irq")
  /\ irq' = Idle
  /\ UNCHANGED <<core, loaded, unload, lists, mem, state, client, fault, cmds,
                 msgs, fw, early>>

-----------------------------------------------------------------------------
(* The other threads.                                                      *)

\* msm_vidc_smmu_fault_handler prints the sessions in the list, one by one.
FaultTakes(i) ==
  /\ "page_fault" \in Events
  /\ fault = {} /\ ~Reaping("fault")
  /\ i \in listed /\ ref[i] > 0
  /\ fault' = {i}
  /\ ref' = [ref EXCEPT ![i] = @ + 1]
  /\ UNCHANGED <<core, loaded, unload, lists, alloc, reap, state, client, irq,
                 cmds, msgs, fw, early>>

\* Whatever the put of a freed session does, it does not bring it back.
FaultPuts(i) ==
  /\ i \in fault
  /\ fault' = {}
  /\ IF i \in alloc THEN pc[i] # "update" /\ Put(i, "fault")
                    ELSE UNCHANGED <<ref, reap>>
  /\ UNCHANGED <<core, loaded, unload, lists, alloc, state, client, irq, cmds,
                 msgs, fw, early>>

\* msm_vidc_fw_unload_handler.
UnloadWork ==
  /\ unload
  /\ unload' = FALSE
  /\ IF listed = {} THEN Deinit(FALSE)
                    ELSE UNCHANGED <<core, loaded, lists, state, cmds, fw, early>>
  /\ UNCHANGED <<mem, client, irq, fault, msgs>>

\* venus_hfi_pm_work_handler gives up after too many failed collapses.
PmWorkGivesUp ==
  /\ "no_collapse" \in Events
  /\ loaded
  /\ Deinit(TRUE)
  /\ UNCHANGED <<unload, mem, client, irq, fault, msgs>>

\* msm_vidc_pm_freeze, with the clients frozen outside the driver.
PmFreeze ==
  /\ "freeze" \in Events
  /\ \A i \in Inst : pc[i] \in {"closed", "open"}
  /\ listed = {}
  /\ Deinit(FALSE)
  /\ UNCHANGED <<unload, mem, client, irq, fault, msgs>>

-----------------------------------------------------------------------------
(* The firmware (external).                                                *)

FwAnswers ==
  /\ fw.run = "on" /\ cmds # << >>
  /\ LET cmd == Head(cmds)
     IN /\ msgs' = CASE cmd[1] = "sys_init" -> Append(msgs, cmd)
                     [] cmd[1] = "close" -> Append(msgs, <<"close_done", cmd[2]>>)
                     [] OTHER -> msgs
        /\ fw' = CASE cmd[1] = "open" -> [fw EXCEPT !.sessions = @ \cup {cmd[2]}]
                   [] cmd[1] = "close" -> [fw EXCEPT !.sessions = @ \ {cmd[2]}]
                   [] OTHER -> fw
  /\ cmds' = Tail(cmds)
  /\ UNCHANGED <<core, loaded, unload, lists, mem, state, client, irq, fault,
                 early>>

FwBreaks ==
  /\ fw.run = "on"
  /\ \/ /\ "fw_error" \in Events
        /\ msgs' = Append(msgs, <<"error">>)
        /\ fw' = [fw EXCEPT !.run = "hung"]
     \/ /\ "fw_hangs" \in Events
        /\ fw' = [fw EXCEPT !.run = "hung"]
        /\ UNCHANGED msgs
     \/ /\ "watchdog" \in Events
        /\ fw' = [fw EXCEPT !.run = "watchdog"]
        /\ UNCHANGED msgs
  /\ UNCHANGED <<core, loaded, unload, lists, mem, state, client, irq, fault,
                 cmds, early>>

-----------------------------------------------------------------------------
Open(i)  == \/ OpenFindsCore(i) \/ OpenBoots(i) \/ OpenBootFails(i)
            \/ SessionOpenFails(i) \/ OpenFails(i)
Opens(i) == \/ OpenWaited(i) \/ OpenTimesOut(i) \/ AddSession(i)
            \/ SessionOpen(i) \/ OpenForcesDeinit(i)
Ioctl(i) == IoctlSends(i) \/ IoctlUpdates(i)
Close(i) == \/ CloseAnswered(i) \/ CloseTimesOut(i) \/ CloseFinishes(i)
            \/ ClosePuts(i) \/ CloseSchedules(i)
Reap(i)  == Unlist(i) \/ Free(i)
Irq      == \/ IrqCaches \/ IrqWatchdog \/ IrqWatchdogDeinit \/ IrqReads
            \/ IrqSysInit \/ IrqSysError \/ IrqDrained \/ IrqReturns
            \/ \E i \in Inst : IrqCloseDone(i) \/ IrqPuts(i)

Next ==
  \/ \E i \in Inst : \/ Open(i) \/ Opens(i) \/ Ioctl(i) \/ CloseSends(i)
                     \/ Close(i) \/ Reap(i) \/ FaultTakes(i) \/ FaultPuts(i)
  \/ Irq \/ UnloadWork \/ PmWorkGivesUp \/ PmFreeze \/ FwAnswers \/ FwBreaks

(***************************************************************************)
(* Threads that are in the driver go on, the interrupt thread too, and a   *)
(* firmware that neither hung nor died answers.  Nobody must open or close *)
(* a session.                                                              *)
(***************************************************************************)
Fairness ==
  /\ \A i \in Inst : /\ WF_vars(Opens(i)) /\ WF_vars(Close(i))
                     /\ WF_vars(Reap(i)) /\ WF_vars(FaultPuts(i))
                     /\ WF_vars(IoctlUpdates(i))
  /\ WF_vars(Irq) /\ WF_vars(FwAnswers)

Spec == Init /\ [][Next]_vars /\ Fairness

-----------------------------------------------------------------------------
(* Properties.                                                             *)

Labels == {"closed", "wait", "rewait", "add", "added", "open", "update", "closing",
           "finish", "put", "schedule", "force", "undo"}
Packets == {<<"sys_init">>, <<"error">>} \cup ({"close_done"} \X Inst)
Commands == {<<"sys_init">>} \cup ({"open", "use", "close"} \X Inst)

(* The values of the variables.                                            *)
TypeOK ==
  /\ core \in CoreStates
  /\ loaded \in BOOLEAN /\ unload \in BOOLEAN /\ early \in BOOLEAN
  /\ listed \subseteq Inst /\ dangling \subseteq Inst /\ alloc \subseteq Inst
  /\ ref \in [Inst -> Nat]
  /\ reap \in [Inst -> Reapers]
  /\ state \in [Inst -> {"OPEN", "STREAMING", "CLOSE", "ERROR"}]
  /\ packet \subseteq Inst /\ signal \subseteq Inst
  /\ pc \in [Inst -> Labels]
  /\ irq \in [pc : {"idle", "watchdog", "read", "handle", "drop"},
             held : SUBSET Inst, pkt : Packets \cup {<< >>}, stale : BOOLEAN]
  /\ fault \subseteq Inst
  /\ cmds \in Seq(Commands) /\ msgs \in Seq(Packets)
  /\ fw \in [run : {"off", "on", "hung", "watchdog"}, sessions : SUBSET Inst]

(* Sessions are listed only with a core that is up or failing, are in one  *)
(* list at most, and leave both lists before they are freed, whoever moves *)
(* them: their client, the interrupt thread or the deinit of the core.     *)
ListsAreSound ==
  /\ listed # {} => core \in {"INIT", "ERROR"}
  /\ listed \cap dangling = {}
  /\ listed \cup dangling \subseteq alloc

(* The core is in INIT only over a firmware that has booted, and never in  *)
(* DEINIT over a loaded one, although the reply to SYS_INIT is read without *)
(* the lock: but for a deinit that hits a core in INIT_WAIT without ERROR. *)
InitMeansBooted ==
  /\ core = "INIT" => loaded \/ early
  /\ core = "DEINIT" => ~loaded
  /\ core = "INIT" /\ fw.run # "off" => ~In(<<"sys_init">>, cmds \o msgs)

(* INIT_WAIT is never left without an open that waits for its end: a later *)
(* open would take the core for booting and not boot it.                   *)
SomeoneWaits == core = "INIT_WAIT" => \E i \in Inst : Waits(i)

(* Between the sessions of the driver and those of the firmware that runs: *)
(* an open session of the list has been opened with this firmware, and no  *)
(* command reaches a firmware that does not know its session, such as one  *)
(* of a session that lived through a deinit and a reload.                  *)
FirmwareKnowsSessions ==
  /\ \A i \in listed \cap packet :
       fw.run # "off" /\ pc[i] \in {"open", "update"}
         => i \in fw.sessions \/ In(<<"open", i>>, cmds)
  /\ \A k \in 1..Len(cmds) :
       cmds[k][1] \in {"use", "close"}
         => cmds[k][2] \in fw.sessions \/ In(<<"open", cmds[k][2]>>, SubSeq(cmds, 1, k - 1))

(* The sessions, the state of the core and the firmware tell one story.    *)
FirmwareAgrees == InitMeansBooted /\ FirmwareKnowsSessions

(* The reference count of a session is the number of its holders, so that  *)
(* it is torn down exactly when the last lets it go.                       *)
RefsAreHolders ==
  \A i \in alloc :
    ref[i] = (IF pc[i] \in {"closed", "schedule"} THEN 0 ELSE 1)
             + (IF i \in irq.held THEN 1 ELSE 0) + (IF i \in fault THEN 1 ELSE 0)

(* A session whose file is closed is freed, is being freed, or is held.    *)
NothingLeaks ==
  \A i \in alloc : pc[i] \in {"closed", "schedule"}
                   => reap[i] # "none" \/ i \in irq.held \cup fault

(* A session lives exactly as long as it has holders.                      *)
HoldersAgree == RefsAreHolders /\ NothingLeaks

(* Nobody frees a session another thread holds, but an open that fails,    *)
(* which frees it without looking at its reference count.                  *)
OnlyFailedOpenFreesHeld ==
  [][\A i \in alloc \ alloc' : i \in irq.held \cup fault => pc[i] = "undo"]_vars

(* An open succeeds or fails, and a close returns, whatever happens to the *)
(* firmware meanwhile.                                                     *)
OpenEnds  == \A i \in Inst : Waits(i) ~> pc[i] \in {"open", "closed"}
CloseEnds == \A i \in Inst : pc[i] = "closing" ~> pc[i] = "closed"

(* No call waits for ever.                                                 *)
CallsReturn == OpenEnds /\ CloseEnds
=============================================================================
