------------------------------- MODULE Power --------------------------------
(***************************************************************************)
(* Power collapse and the interrupt line (venus_hfi.c, and the power_on,   *)
(* power_off, prepare_pc, clear_interrupt and watchdog of the variants).   *)
(*                                                                         *)
(* The hardware is powered for a command or an interrupt and collapsed by  *)
(* a delayed work, by the system's suspend and by every deinit.  The line  *)
(* is masked while the power is off (power_off disables, power_on enables) *)
(* and while an interrupt is handled (the hard handler disables, the       *)
(* thread enables): two owners of one disable count, told apart only by    *)
(* the watchdog bit of core->intr_status.                                  *)
(*                                                                         *)
(* A section under core->lock is one action; the thread tests intr_status  *)
(* and reads the message queue outside of it.                              *)
(***************************************************************************)
EXTENDS Naturals, Sequences

CONSTANTS MaxSkip,          \* VIDC_MAX_PC_SKIP_COUNT
          MaxCmds, MaxMsgs, \* room in the command and message queue
          ForgetsAtOff,     \* power_off also clears intr_status (iris2)
          Events            \* what may go wrong: subset of EventKinds

EventKinds == {"power_fails", "fw_error", "watchdog", "fw_hangs", "busy",
               "suspend_fails", "force", "ready_unread", "slow_ready"}

ASSUME PowerAssumption ==
  /\ MaxSkip \in Nat /\ MaxCmds \in Nat \ {0} /\ MaxMsgs \in Nat \ {0}
  /\ ForgetsAtOff \in BOOLEAN /\ Events \subseteq EventKinds

VARIABLES
  core,   \* state; sub-states power, handoff, fwctrl; fw_cookie; wd: the
          \* watchdog bit of intr_status; skip: skip_pc_count
  irq,    \* depth: the disable count; wake: a run of the thread is due
  hw,     \* fw: the firmware; line: the asserted interrupt bits
  cmds, msgs, \* the command and message queue
  pm,     \* pm_work: timer pending; running, i.e. waiting for core->lock
  thread, \* where venus_hfi_isr_handler is
  crossed \* history: a boot took the watchdog bit from an interrupt that is
          \* still in the works (no action reads it)

dvars == <<core, irq, hw, cmds, msgs, pm, thread>>  \* the driver's and its world
vars  == <<core, irq, hw, cmds, msgs, pm, thread, crossed>>

CoreStates == {"DEINIT", "INIT_WAIT", "INIT", "ERROR"}
Threads    == {"idle", "woken", "respond", "wd_error", "read", "noc", "error",
               "quit"}
Kinds      == {"init_done", "response", "error", "noc_error"}

Valid(c)  == c.state \in {"INIT_WAIT", "INIT"}
InFlight  == irq.wake \/ thread # "idle"
May(e)    == e \in Events

\* The state a section under the lock works on.
Now == [core |-> core, irq |-> irq, hw |-> hw, cmds |-> cmds, pm |-> pm]
Becomes(s) ==
  /\ core' = s.core /\ irq' = s.irq /\ hw' = s.hw /\ cmds' = s.cmds
  /\ pm' = s.pm

Init ==
  /\ core = [state |-> "DEINIT", power |-> FALSE, handoff |-> FALSE,
             fwctrl |-> FALSE, loaded |-> FALSE, wd |-> FALSE, skip |-> 0]
  /\ irq = [depth |-> 1, wake |-> FALSE]      \* __init_irq
  /\ hw = [fw |-> "off", line |-> {}]
  /\ cmds = << >> /\ msgs = << >>
  /\ pm = [timer |-> FALSE, running |-> FALSE]
  /\ thread = "idle"
  /\ crossed = FALSE

-----------------------------------------------------------------------------
(* Power on and off.                                                       *)

\* enable_irq: a count of 0 is left as it is, with a warning.
Enable(n) == IF n = 0 THEN 0 ELSE n - 1

\* power_on: intr_status = 0, enable_irq.  gdsc_sw_ctrl ends the handoff.
PowerOn(s) ==
  [s EXCEPT !.core.power = TRUE, !.core.handoff = FALSE, !.core.wd = FALSE,
            !.irq.depth = Enable(@), !.hw.fw = "run"]

\* power_off: the line is masked, but for the watchdog, whose interrupt the
\* thread leaves masked.
\* Mutant: the line is masked whatever the interrupt was.
PowerOffMasksTwice(s) ==
  IF ~s.core.power THEN s
  ELSE [s EXCEPT !.core.power = FALSE, !.core.handoff = FALSE,
                 !.irq.depth = @ + 1, !.hw = [fw |-> "off", line |-> {}]]

PowerOff(s) ==
  IF ~s.core.power THEN s
  ELSE [s EXCEPT !.core.power = FALSE, !.core.handoff = FALSE,
                 !.core.wd = @ /\ ~ForgetsAtOff,
                 !.irq.depth = IF s.core.wd THEN @ ELSE @ + 1,
                 !.hw = [fw |-> "off", line |-> {}]]

\* __schedule_power_collapse_work, __cancel_power_collapse_work: a work that
\* runs already is neither moved nor cancelled.
Schedule(s) == [s EXCEPT !.pm.timer = TRUE]
Cancel(s)   == [s EXCEPT !.pm.timer = FALSE]

\* __cmdq_write with the power on.  A full queue drops the command, and rc is
\* 0 all the same.  The interrupt wakes a firmware that was ready.
Write(s, cmd) ==
  Schedule([s EXCEPT !.cmds = IF Len(@) < MaxCmds THEN Append(@, cmd) ELSE @,
                     !.hw.fw = IF @ = "ready" THEN "run" ELSE @])

\* Where __resume may fail: power_on; fw_resume, boot_firmware; the caches.
Faults == {"power", "boot", "cache"}
Outcomes(s) == {f \in Faults : May("power_fails")}
                 \cup {IF s.core.loaded THEN "ok" ELSE "boot"}
Handoffs    == {TRUE} \cup {h \in {FALSE} : May("power_fails")}

\* hw_ctrl_gdsc, then __sys_set_power_control, which is skipped without it.
GiveControl(s, h) ==
  IF ~h THEN s
  ELSE LET w == Write(s, "cmd")
       IN [w EXCEPT !.core.handoff = TRUE, !.core.fwctrl = TRUE]

Resumes(s) == ~s.core.power /\ Valid(s.core)
ResumeRc(s, r) == s.core.power \/ (Valid(s.core) /\ r = "ok")

\* __resume.  r is the outcome, h whether hw_ctrl_gdsc succeeds.
Resume(s, r, h) ==
  IF ~Resumes(s) THEN s
  ELSE LET s0 == [s EXCEPT !.core.handoff = FALSE, !.core.fwctrl = FALSE]
           s1 == PowerOn(s0)
       IN IF r = "power" THEN s0
          ELSE IF r = "boot" THEN PowerOff(s1)
          ELSE IF r = "cache" THEN PowerOff(Write(s1, "cmd"))
          ELSE GiveControl(Write(s1, "cmd"), h)

-----------------------------------------------------------------------------
(* Init and deinit of the core.                                            *)

\* __unload_fw
\* Mutant: the power is left to the next collapse.
UnloadPowered(s) ==
  IF ~s.core.loaded THEN s
  ELSE [Cancel(s) EXCEPT !.core.loaded = FALSE, !.core.fwctrl = FALSE]

Unload(s) ==
  IF ~s.core.loaded THEN s
  ELSE LET t == PowerOff(Cancel(s))
       IN [t EXCEPT !.core.loaded = FALSE, !.core.fwctrl = FALSE]

\* venus_hfi_core_deinit: the power is turned on to talk to the firmware, and
\* the caches are released if that worked.
CoreDeinit(s, r, h) ==
  LET t == Resume(s, r, h)
  IN Unload(IF ResumeRc(s, r) /\ Valid(s.core) THEN Write(t, "cmd") ELSE t)

\* msm_vidc_core_deinit_locked, forced: INIT_WAIT -> DEINIT is disallowed.
Deinit(s, r, h) ==
  IF s.core.state = "DEINIT" THEN s
  ELSE [CoreDeinit(s, r, h) EXCEPT
          !.core.state = IF @ = "INIT_WAIT" THEN @ ELSE "DEINIT"]

\* msm_vidc_change_core_state to ERROR.
Fail(s) == [s EXCEPT !.core.state = IF Valid(s.core) THEN "ERROR" ELSE @]

\* msm_vidc_core_init from DEINIT: the headers of the queues are reset, the
\* firmware is loaded and SYS_INIT sent.  Only core->lock is asked for: the
\* interrupt that took the core down may still be in the works.
Booted(s, h) ==
  LET s0 == [s EXCEPT !.core.state = "INIT_WAIT", !.core.fwctrl = FALSE,
                      !.core.handoff = FALSE, !.cmds = << >>]
      s1 == [PowerOn(s0) EXCEPT !.core.loaded = TRUE]
  IN GiveControl(Write(s1, "sys_init"), h)

CoreInit(h) ==
  /\ core.state = "DEINIT"
  /\ Becomes(Booted(Now, h))
  /\ msgs' = << >>
  /\ UNCHANGED thread

\* __load_fw fails before, or venus_hfi_core_init after the power is on.
CoreInitFails ==
  /\ May("power_fails")
  /\ core.state = "DEINIT"
  /\ \/ Becomes([Now EXCEPT !.core.handoff = FALSE, !.core.fwctrl = FALSE,
                            !.cmds = << >>])
     \/ Becomes(Deinit(Fail(Booted(Now, FALSE)), "ok", FALSE))
  /\ msgs' = << >>
  /\ UNCHANGED thread

\* msm_vidc_core_init_wait runs out of tries.
CoreInitTimesOut ==
  /\ core.state = "INIT_WAIT"
  /\ Becomes(Deinit(Fail(Now), "ok", FALSE))
  /\ UNCHANGED <<msgs, thread>>

\* A session that cannot be opened or closed, a removal, or the last session
\* has gone: a deinit of a core that was up.  (Module Core has the one that
\* hits a core in INIT_WAIT.)
ForceDeinit(r, h) ==
  /\ May("force")
  /\ core.state \in {"INIT", "ERROR"}
  /\ Becomes(Deinit(Now, r, h))
  /\ UNCHANGED <<msgs, thread>>

\* A session's command: venus_hfi_session_command_locked and __cmdq_write.
Command(r, h) ==
  /\ core.state = "INIT"
  /\ LET s == Resume(Now, r, h)
     IN Becomes(IF ResumeRc(Now, r) THEN Write(s, "cmd") ELSE s)
  /\ UNCHANGED <<msgs, thread>>

-----------------------------------------------------------------------------
(* Power collapse.                                                         *)

\* The firmware's core idles in wfi: no command is left, or it is ready.
IdleFw(s) == s.hw.fw = "ready" \/ (s.hw.fw = "run" /\ s.cmds = << >>)

\* External: a firmware told to prepare is ready once it has no work and, but
\* for ready_unread, once the host has read what it sent.
MayBeReady == msgs = << >> \/ May("ready_unread")

\* prepare_pc.  a: what becomes of PC_READY once PC_PREP is sent: set before
\* the poll ends, after it, or never.
Answers == {"no"} \cup {x \in {"ready", "late"} :
                         MayBeReady /\ (x = "late" => May("slow_ready"))}

PreparePc(s, a) ==
  IF s.hw.fw = "ready" \/ ~IdleFw(s) THEN s
  ELSE [Schedule(s) EXCEPT !.hw.fw = IF a = "no" THEN "run" ELSE "ready"]

\* Mutant: the firmware is not asked whether it is idle.
PreparedUnasked(s, a) == s.hw.fw # "hung"
Prepared(s, a) == s.hw.fw = "ready" \/ (IdleFw(s) /\ a = "ready")

\* fw_suspend: the secure world is busy, or fails it otherwise.
Suspends == {"ok"} \cup {f \in {"busy"} : May("busy")}
                   \cup {f \in {"other"} : May("suspend_fails")}

\* __power_collapse and __suspend, and what they return.
CollapseRc(s, a, f) ==
  IF ~s.core.power THEN "ok"
  ELSE IF ~Valid(s.core) THEN "other"
  ELSE IF ~Prepared(s, a) THEN "again"
  ELSE f

Collapse(s, a, f) ==
  LET t == PreparePc(s, a)
  IN IF CollapseRc(s, a, f) = "ok" THEN PowerOff(t)
     ELSE IF s.core.power /\ Valid(s.core) THEN t ELSE s

\* venus_hfi_pm_work_handler.  After MaxSkip tries the core is given up.
\* Mutants: a failed try is not tried again; the tries are not limited.
AfterTryOnce(s, rc) ==
  IF rc = "ok" THEN Cancel([s EXCEPT !.core.skip = 0])
  ELSE IF rc = "busy" THEN Schedule([s EXCEPT !.core.skip = 0])
  ELSE IF rc = "again" THEN Cancel([s EXCEPT !.core.skip = @ + 1])
  ELSE s

AfterTry(s, rc) ==
  IF rc = "ok" THEN Cancel([s EXCEPT !.core.skip = 0])
  ELSE IF rc = "busy" THEN Schedule([s EXCEPT !.core.skip = 0])
  ELSE IF rc = "again" THEN Schedule([s EXCEPT !.core.skip = @ + 1])
  ELSE s

Done(s) == [s EXCEPT !.pm.running = FALSE]

PmStarts ==
  /\ pm.timer /\ ~pm.running
  /\ pm' = [timer |-> FALSE, running |-> TRUE]
  /\ UNCHANGED <<core, irq, hw, cmds, msgs, thread>>

PmGivesUp ==
  /\ pm.running
  /\ core.skip >= MaxSkip
  /\ Becomes(Done(Deinit(Fail([Now EXCEPT !.core.skip = 0]), "ok", FALSE)))
  /\ UNCHANGED <<msgs, thread>>

PmFindsDeinit ==
  /\ pm.running
  /\ core.skip < MaxSkip /\ core.state = "DEINIT"
  /\ Becomes(Done(Now))
  /\ UNCHANGED <<msgs, thread>>

PmTriesOn(a, f) ==
  /\ pm.running
  /\ core.state # "DEINIT"
  /\ Becomes(Done(AfterTry(Collapse(Now, a, f), CollapseRc(Now, a, f))))
  /\ UNCHANGED <<msgs, thread>>

PmTries(a, f) ==
  /\ pm.running
  /\ core.skip < MaxSkip /\ core.state # "DEINIT"
  /\ Becomes(Done(AfterTry(Collapse(Now, a, f), CollapseRc(Now, a, f))))
  /\ UNCHANGED <<msgs, thread>>

PmWork == \/ PmGivesUp \/ PmFindsDeinit
          \/ \E a \in Answers, f \in Suspends : PmTries(a, f)

\* msm_vidc_pm_suspend: venus_hfi_suspend, which does not try again.
SystemSuspend(a, f) ==
  /\ Valid(core) /\ core.power
  /\ LET s == Collapse(Now, a, f)
     IN Becomes(IF CollapseRc(Now, a, f) = "ok" THEN Cancel(s) ELSE s)
  /\ UNCHANGED <<msgs, thread>>

-----------------------------------------------------------------------------
(* The interrupt.                                                          *)

\* venus_hfi_isr, on a level interrupt that is not masked.
HardIrq ==
  /\ hw.line # {} /\ irq.depth = 0
  /\ irq' = [depth |-> 1, wake |-> TRUE]
  /\ UNCHANGED <<core, hw, cmds, msgs, pm, thread>>

ThreadRuns ==
  /\ thread = "idle" /\ irq.wake
  /\ thread' = "woken"
  /\ irq' = [irq EXCEPT !.wake = FALSE]
  /\ UNCHANGED <<core, hw, cmds, msgs, pm>>

\* clear_interrupt: the message bit is cleared in the hardware, the watchdog's
\* stays.
Clear(s) == [s EXCEPT !.core.wd = @ \/ "A2HWD" \in s.hw.line,
                      !.hw.line = @ \ {"A2H"}]

\* venus_hfi_isr_handler: the first section.
ThreadClears(r, h) ==
  /\ thread = "woken"
  /\ Becomes(IF ResumeRc(Now, r) THEN Clear(Resume(Now, r, h)) ELSE Resume(Now, r, h))
  /\ thread' = IF ResumeRc(Now, r) THEN "respond" ELSE "quit"
  /\ UNCHANGED msgs

\* __response_handler: the watchdog bit, then the first section.
ThreadFindsWatchdog ==
  /\ thread = "respond" /\ core.wd
  /\ Becomes(Fail(Now))
  /\ thread' = "wd_error"
  /\ UNCHANGED msgs

ThreadStartsReading ==
  /\ thread = "respond" /\ ~core.wd
  /\ Becomes(Schedule(Now))
  /\ thread' = "read"
  /\ UNCHANGED msgs

\* handle_system_error: for the watchdog, for an error message.
ThreadDeinits(r, h) ==
  /\ thread \in {"wd_error", "error"}
  /\ Becomes(Deinit(Now, r, h))
  /\ thread' = IF thread = "error" THEN "read" ELSE "quit"
  /\ UNCHANGED msgs

\* venus_hfi_noc_error_info, before that deinit.
ThreadReadsNoc(r, h) ==
  /\ thread = "noc"
  /\ Becomes(IF core.state = "DEINIT" THEN Now ELSE Resume(Now, r, h))
  /\ thread' = "error"
  /\ UNCHANGED msgs

\* __process_msg_q: one message.  The loop is over when a read finds nothing,
\* or finds the core down.
ThreadReads ==
  /\ thread = "read"
  /\ Valid(core) /\ msgs # << >>
  /\ msgs' = Tail(msgs)
  /\ core' = [core EXCEPT !.state = IF Head(msgs) = "init_done" THEN "INIT" ELSE @]
  /\ thread' = IF Head(msgs) = "error" THEN "error"
               ELSE IF Head(msgs) = "noc_error" THEN "noc" ELSE "read"
  /\ UNCHANGED <<irq, hw, cmds, pm>>

ThreadStops ==
  /\ thread = "read"
  /\ ~Valid(core) \/ msgs = << >>
  /\ thread' = "quit"
  /\ UNCHANGED <<core, irq, hw, cmds, msgs, pm>>

\* Mutant: the line is left masked after an interrupt that found the core down.
ThreadLeavesMasked ==
  /\ thread = "quit"
  /\ irq' = [irq EXCEPT !.depth = IF core.wd \/ ~Valid(core) THEN @ ELSE Enable(@)]
  /\ thread' = "idle"
  /\ UNCHANGED <<core, hw, cmds, msgs, pm>>

\* The end of venus_hfi_isr_handler, without the lock.
ThreadQuits ==
  /\ thread = "quit"
  /\ irq' = [irq EXCEPT !.depth = IF core.wd THEN @ ELSE Enable(@)]
  /\ thread' = "idle"
  /\ UNCHANGED <<core, hw, cmds, msgs, pm>>

-----------------------------------------------------------------------------
(* The firmware (external).                                                *)

Send(m) ==
  /\ Len(msgs) < MaxMsgs
  /\ msgs' = Append(msgs, m)
  /\ UNCHANGED <<core, irq, pm, thread>>

FwAnswers ==
  /\ hw.fw = "run" /\ cmds # << >>
  /\ cmds' = Tail(cmds)
  /\ hw' = [hw EXCEPT !.line = @ \cup {"A2H"}]
  /\ Send(IF Head(cmds) = "sys_init" THEN "init_done" ELSE "response")

FwFails ==
  /\ May("fw_error") /\ hw.fw = "run"
  /\ hw' = [fw |-> "hung", line |-> hw.line \cup {"A2H"}]
  /\ \E m \in {"error", "noc_error"} : Send(m)
  /\ UNCHANGED cmds

FwHangs ==
  /\ May("fw_hangs") /\ hw.fw = "run"
  /\ hw' = [hw EXCEPT !.fw = "hung"]
  /\ UNCHANGED <<core, irq, cmds, msgs, pm, thread>>

FwBarks ==
  /\ May("watchdog") /\ hw.fw = "run"
  /\ hw' = [fw |-> "hung", line |-> hw.line \cup {"A2HWD"}]
  /\ UNCHANGED <<core, irq, cmds, msgs, pm, thread>>

-----------------------------------------------------------------------------
Thread == \/ ThreadRuns \/ ThreadFindsWatchdog \/ ThreadStartsReading
          \/ ThreadReads \/ ThreadStops \/ ThreadQuits
          \/ \E r \in Outcomes(Now), h \in Handoffs :
                ThreadClears(r, h) \/ ThreadDeinits(r, h) \/ ThreadReadsNoc(r, h)
Client == \/ CoreInitFails \/ CoreInitTimesOut
          \/ \E h \in Handoffs : CoreInit(h)
          \/ \E r \in Outcomes(Now), h \in Handoffs :
                ForceDeinit(r, h) \/ Command(r, h)
          \/ \E a \in Answers, f \in Suspends : SystemSuspend(a, f)
Firmware == FwAnswers \/ FwFails \/ FwHangs \/ FwBarks

Steps == HardIrq \/ Thread \/ PmStarts \/ PmWork \/ Client \/ Firmware

\* The bit is lost to an interrupt that is in the works; that is over once the
\* core is on and nothing is.
Crosses == core.wd /\ InFlight /\ ~core'.wd
Resting == core.power /\ ~InFlight /\ ~core.wd
Record  == crossed' = ((crossed \/ Crosses) /\ ~Resting')

Next == Steps /\ Record
Spec == Init /\ [][Next]_vars

\* Interrupts are taken, threads and works run, a booting client waits for its
\* tries at most.  Nothing makes a client call or a firmware answer.
IrqSpec   == Spec /\ WF_dvars(HardIrq) /\ WF_dvars(Thread)
FairWorks == WF_dvars(PmStarts) /\ WF_dvars(PmWork) /\ WF_dvars(CoreInitTimesOut)

-----------------------------------------------------------------------------
(* Properties.                                                             *)

TypeOK ==
  /\ core \in [state : CoreStates, power : BOOLEAN, handoff : BOOLEAN,
               fwctrl : BOOLEAN, loaded : BOOLEAN, wd : BOOLEAN,
               skip : 0..MaxSkip]
  /\ irq \in [depth : Nat, wake : BOOLEAN]
  /\ hw \in [fw : {"off", "run", "ready", "hung"}, line : SUBSET {"A2H", "A2HWD"}]
  /\ cmds \in Seq({"sys_init", "cmd"}) /\ msgs \in Seq(Kinds)
  /\ pm \in [timer : BOOLEAN, running : BOOLEAN]
  /\ thread \in Threads /\ crossed \in BOOLEAN

(* Every disable of the line is owed by exactly one: an interrupt in the   *)
(* works or a watchdog one that is left masked, and a power_off, unless    *)
(* that found the watchdog's (venus_hfi_isr, venus_hfi_isr_handler,        *)
(* power_off, power_on).  No more is ever taken than is owed, so a core    *)
(* that rests powered hears its firmware, always.  The one exception is on *)
(* the other side: a boot between the deinit for the watchdog and the last *)
(* test of the bit (venus_hfi.c:1031) clears it and enables the line that  *)
(* the interrupt then enables again.  Until the core next rests powered a  *)
(* disable may be missing: the line may listen while the power is off, or  *)
(* the handler be run again before it is done.                             *)
Owed == (IF InFlight \/ core.wd THEN 1 ELSE 0)
          + (IF ~core.power /\ ~core.wd THEN 1 ELSE 0)
IrqBalance == irq.depth <= Owed /\ (crossed \/ irq.depth = Owed)

(* No deinit, however it is reached, leaves the power on: what is powered  *)
(* has its firmware loaded and a core that will take it down.              *)
PoweredIsLoaded == core.power => core.loaded /\ core.state # "DEINIT"

(* Collapse strands nothing: when a core that stays up and loaded goes off, *)
(* no command is in the queue for a firmware that does not run any more.   *)
NothingStranded ==
  [][core.power /\ ~core'.power /\ core'.loaded /\ core'.state = "INIT"
       => cmds' = << >>]_vars

(* Power comes down: whatever was last sent or received, a core that is on *)
(* is collapsed, or given up after MaxSkip tries and taken down, if works  *)
(* run and the secure world does not go on failing suspends.  It stays on  *)
(* only with a firmware that was ready when the last suspend failed with   *)
(* another error than "busy" (fw_suspend), as the code does not try again. *)
SuspendFails(a, f) ==
  PmTries(a, f) /\ Valid(core) /\ f # "ok" /\ CollapseRc(Now, a, f) = f
NotForever == <>[][~\E a \in Answers, f \in Suspends : SuspendFails(a, f)]_vars
LeftReady  == hw.fw = "ready" /\ ~pm.timer /\ ~pm.running

Collapses == FairWorks /\ NotForever => (core.power ~> ~core.power \/ LeftReady)

(* While messages wait in the queue of a core that stays up, its firmware  *)
(* loaded, they are read, by the interrupt alone: no timeout of a client   *)
(* or of the collapse has to help.  (A boot that a deinit unloads under    *)
(* the waiting client has no firmware, and ends with the client's tries.)  *)
MessagesRead ==
  <>[](msgs # << >> /\ Valid(core) /\ core.loaded) => []<><<ThreadReads>>_dvars
=============================================================================
