---------------------------- MODULE PowerProofs -----------------------------
(***************************************************************************)
(* The types and the balance of the interrupt line of module Power, for    *)
(* every set of events, where power_off leaves the watchdog bit to the     *)
(* thread.                                                                 *)
(*                                                                         *)
(* The operators of Power work on a record of the state under the lock, so *)
(* the invariant is one of that record: each operator has a lemma that     *)
(* says what it keeps, and each action combines them.  l is the record of  *)
(* a boot that took the watchdog bit from an interrupt in the works: until *)
(* it is over the line may miss a disable.                                 *)
(***************************************************************************)
EXTENDS Power, TLAPS

Flagged == ~ForgetsAtOff

CoreType == [state : CoreStates, power : BOOLEAN, handoff : BOOLEAN,
             fwctrl : BOOLEAN, loaded : BOOLEAN, wd : BOOLEAN,
             skip : 0..MaxSkip]
IrqType  == [depth : Nat, wake : BOOLEAN]
HwType   == [fw : {"off", "run", "ready", "hung"}, line : SUBSET {"A2H", "A2HWD"}]
CmdType  == Seq({"sys_init", "cmd"})
PmType   == [timer : BOOLEAN, running : BOOLEAN]
SType(s) == s \in [core : CoreType, irq : IrqType, hw : HwType, cmds : CmdType,
                   pm : PmType]

\* What the owners of the line owe; busy: an interrupt is in the works.
Owes(s, busy) == (IF busy \/ s.core.wd THEN 1 ELSE 0)
                   + (IF ~s.core.power /\ ~s.core.wd THEN 1 ELSE 0)
Balanced(s, busy, l) ==
  s.irq.depth <= Owes(s, busy) /\ (l \/ s.irq.depth = Owes(s, busy))

\* A dead hardware asserts nothing; the watchdog barks for a hung firmware; one
\* that is ready for a collapse has no command before it.
HwAgrees(s) ==
  /\ s.hw.fw = "ready" => s.cmds = << >>
  /\ ~s.core.power => s.hw.line = {} /\ s.hw.fw = "off"
  /\ "A2HWD" \in s.hw.line => s.hw.fw = "hung"
  /\ s.core.wd /\ s.core.power => s.hw.fw = "hung"

\* What holds of the record at every point of a section.
SInv(s, busy, l) == SType(s) /\ Balanced(s, busy, l) /\ HwAgrees(s)

\* What holds when the lock is free.
Settled(s) ==
  /\ s.core.power => s.core.loaded /\ s.core.state # "DEINIT"
  /\ s.core.wd /\ ~s.core.power => s.core.state = "DEINIT"

\* The watchdog's bit is left by the thread that found it.  But for a boot that
\* took it away, one interrupt at a time is in the works, and the watchdog's is
\* the last that the thread is woken for.
ThreadAgrees(l) ==
  /\ core.wd => thread \in Threads \ {"read", "noc", "error"}
  /\ thread = "wd_error" /\ core.wd => core.state \in {"ERROR", "DEINIT"}
  /\ \/ l
     \/ /\ thread # "idle" => ~irq.wake
        /\ core.wd => ~irq.wake /\ thread # "woken"

IInv(l) ==
  /\ SInv(Now, InFlight, l) /\ Settled(Now)
  /\ ThreadAgrees(l)
  /\ msgs \in Seq(Kinds) /\ thread \in Threads

Inv == crossed \in BOOLEAN /\ IInv(crossed)

-----------------------------------------------------------------------------
(* The operators.                                                          *)

\* The parts of the record that power never touches.
Same(s, t) == /\ t.core.state = s.core.state /\ t.core.loaded = s.core.loaded
              /\ t.core.skip = s.core.skip /\ t.irq.wake = s.irq.wake

LEMMA PowerOnKeeps ==
  ASSUME NEW s, NEW b \in BOOLEAN, NEW l \in BOOLEAN,
         SInv(s, b, l), ~s.core.power, ~s.core.wd \/ ~b \/ l
  PROVE  LET t == PowerOn(s)
         IN SInv(t, b, l) /\ Same(s, t) /\ t.core.power /\ ~t.core.wd
<1> DEFINE c == [s.core EXCEPT !.power = TRUE, !.handoff = FALSE, !.wd = FALSE]
           d == IF s.irq.depth = 0 THEN 0 ELSE s.irq.depth - 1
           i == [s.irq EXCEPT !.depth = d]
           k == [s.hw EXCEPT !.fw = "run"]
           t == PowerOn(s)
<1>1. s.core \in CoreType /\ s.irq \in IrqType /\ s.hw \in HwType /\ SType(s)
  BY DEF SInv, SType
<1>2. /\ c \in CoreType /\ c.power = TRUE /\ c.wd = FALSE
      /\ c.state = s.core.state /\ c.loaded = s.core.loaded
      /\ c.skip = s.core.skip
  BY <1>1 DEF CoreType
<1>3. /\ d <= (IF b THEN 1 ELSE 0) /\ (l \/ d = IF b THEN 1 ELSE 0)
      /\ d \in Nat
  BY <1>1 DEF IrqType, SInv, Balanced, Owes
<1>4. i \in IrqType /\ i.depth = d /\ i.wake = s.irq.wake
  <2> HIDE DEF d
  <2>1. QED
    BY <1>1, <1>3 DEF IrqType
<1>5. k \in HwType /\ k.fw = "run" /\ k.line = {}
  BY <1>1 DEF HwType, SInv, HwAgrees
<1>6. t = [s EXCEPT !.core = c, !.irq = i, !.hw = k]
  BY <1>1 DEF SType, PowerOn, Enable
<1> HIDE DEF c, d, i, k
<1>7. SType(t) /\ t.core = c /\ t.irq = i /\ t.hw = k
  <2> HIDE DEF t
  <2>1. SType(s) /\ c \in CoreType /\ i \in IrqType /\ k \in HwType
    BY <1>1, <1>2, <1>4, <1>5
  <2>2. QED
    BY <2>1, <1>6 DEF SType
<1> HIDE DEF t
<1>8. Balanced(t, b, l)
  BY <1>2, <1>3, <1>4, <1>7 DEF Balanced, Owes
<1>9. HwAgrees(t)
  BY <1>2, <1>5, <1>7 DEF HwAgrees
<1>10. QED
  BY <1>2, <1>4, <1>7, <1>8, <1>9 DEF t, SInv, Same

LEMMA PowerOffKeeps ==
  ASSUME Flagged, NEW s, NEW b \in BOOLEAN, NEW l \in BOOLEAN, SInv(s, b, l)
  PROVE  LET t == PowerOff(s)
         IN SInv(t, b, l) /\ Same(s, t) /\ ~t.core.power /\ t.core.wd = s.core.wd
<1>1. s.core \in CoreType /\ s.irq \in IrqType /\ s.hw \in HwType /\ SType(s)
  BY DEF SInv, SType
<1>2. CASE ~s.core.power
  BY <1>2 DEF PowerOff, Same
<1>3. CASE s.core.power
  <2> DEFINE c == [s.core EXCEPT !.power = FALSE, !.handoff = FALSE,
                                !.wd = s.core.wd /\ ~ForgetsAtOff]
             d == IF s.core.wd THEN s.irq.depth ELSE s.irq.depth + 1
             i == [s.irq EXCEPT !.depth = d]
             k == [fw |-> "off", line |-> {}]
             t == PowerOff(s)
  <2>1. /\ c \in CoreType /\ c.power = FALSE /\ c.wd = s.core.wd
        /\ c.state = s.core.state /\ c.loaded = s.core.loaded
        /\ c.skip = s.core.skip
    BY <1>1 DEF CoreType, Flagged
  <2> DEFINE e == (IF b \/ s.core.wd THEN 1 ELSE 0) + (IF s.core.wd THEN 0 ELSE 1)
  <2>2. d <= e /\ (l \/ d = e) /\ d \in Nat
    BY <1>1, <1>3 DEF IrqType, SInv, Balanced, Owes
  <2>3. i \in IrqType /\ i.depth = d /\ i.wake = s.irq.wake
    <3> HIDE DEF d
    <3>1. QED
      BY <1>1, <2>2 DEF IrqType
  <2>4. k \in HwType /\ k.fw = "off" /\ k.line = {}
    BY DEF HwType
  <2>5. t = [s EXCEPT !.core = c, !.irq = i, !.hw = k]
    BY <1>1, <1>3 DEF SType, PowerOff
  <2> HIDE DEF c, d, i, k, t
  <2>6. SType(t) /\ t.core = c /\ t.irq = i /\ t.hw = k
    <3>1. SType(s) /\ c \in CoreType /\ i \in IrqType /\ k \in HwType
      BY <1>1, <2>1, <2>3, <2>4
    <3>2. QED
      BY <3>1, <2>5 DEF SType
  <2>7. Balanced(t, b, l)
    BY <2>1, <2>2, <2>3, <2>6 DEF Balanced, Owes
  <2>8. HwAgrees(t)
    BY <2>1, <2>4, <2>6 DEF HwAgrees
  <2>9. QED
    BY <2>1, <2>3, <2>6, <2>7, <2>8 DEF t, SInv, Same
<1>4. QED
  BY <1>1, <1>2, <1>3 DEF CoreType

\* What no step of a section depends on: sub-states and the firmware's handle.
LEMMA CoreKeeps ==
  ASSUME NEW s, NEW b \in BOOLEAN, NEW l \in BOOLEAN,
         SInv(s, b, l), NEW c \in CoreType,
         c.power = s.core.power, c.wd = s.core.wd
  PROVE  LET t == [s EXCEPT !.core = c]
         IN SInv(t, b, l) /\ t.core = c /\ t.irq = s.irq
<1> DEFINE t == [s EXCEPT !.core = c]
<1>1. /\ SType(t) /\ t.core = c /\ t.irq = s.irq /\ t.hw = s.hw
      /\ t.cmds = s.cmds
  BY DEF SInv, SType
<1> HIDE DEF t
<1>2. Balanced(t, b, l) /\ HwAgrees(t)
  BY <1>1 DEF SInv, Balanced, Owes, HwAgrees
<1>3. QED
  BY <1>1, <1>2 DEF SInv, t

LEMMA TimerKeeps ==
  ASSUME NEW s, NEW b \in BOOLEAN, NEW l \in BOOLEAN, SInv(s, b, l)
  PROVE  /\ SInv(Schedule(s), b, l) /\ SInv(Cancel(s), b, l)
         /\ Schedule(s).core = s.core /\ Cancel(s).core = s.core
         /\ Schedule(s).irq = s.irq /\ Cancel(s).irq = s.irq
BY DEF SInv, SType, PmType, Balanced, Owes, HwAgrees, Schedule, Cancel

LEMMA WriteKeeps ==
  ASSUME NEW s, NEW b \in BOOLEAN, NEW l \in BOOLEAN,
         SInv(s, b, l), NEW cmd \in {"sys_init", "cmd"}
  PROVE  LET t == Write(s, cmd)
         IN SInv(t, b, l) /\ t.core = s.core /\ t.irq = s.irq
<1> DEFINE u == [s EXCEPT !.cmds = IF Len(@) < MaxCmds THEN Append(@, cmd) ELSE @,
                          !.hw.fw = IF @ = "ready" THEN "run" ELSE @]
<1>1. s.cmds \in CmdType /\ (IF Len(s.cmds) < MaxCmds THEN Append(s.cmds, cmd)
                             ELSE s.cmds) \in CmdType
  BY DEF SInv, SType, CmdType
<1>2. SInv(u, b, l) /\ u.core = s.core /\ u.irq = s.irq
  BY <1>1 DEF SInv, SType, HwType, Balanced, Owes, HwAgrees
<1>3. Write(s, cmd) = Schedule(u)
  BY DEF Write
<1> HIDE DEF u
<1>4. QED
  BY <1>2, <1>3, TimerKeeps

LEMMA GiveControlKeeps ==
  ASSUME NEW s, NEW b \in BOOLEAN, NEW l \in BOOLEAN,
         SInv(s, b, l), NEW h \in BOOLEAN
  PROVE  LET t == GiveControl(s, h)
         IN /\ SInv(t, b, l) /\ Same(s, t) /\ t.core.power = s.core.power
            /\ t.core.wd = s.core.wd
<1>1. CASE ~h
  BY <1>1 DEF GiveControl, Same
<1>2. CASE h
  <2> DEFINE w == Write(s, "cmd")
  <2>1. SInv(w, b, l) /\ w.core = s.core /\ w.irq = s.irq
    BY WriteKeeps
  <2> DEFINE c == [w.core EXCEPT !.handoff = TRUE, !.fwctrl = TRUE]
  <2>2. w.core \in CoreType
    BY <2>1 DEF SInv, SType
  <2>3. GiveControl(s, h) = [w EXCEPT !.core = c]
    BY <1>2, <2>1 DEF GiveControl, SInv, SType
  <2> HIDE DEF w
  <2>4. /\ c \in CoreType /\ c.power = w.core.power /\ c.wd = w.core.wd
        /\ c.state = w.core.state /\ c.loaded = w.core.loaded
        /\ c.skip = w.core.skip
    BY <2>2 DEF CoreType
  <2> HIDE DEF c
  <2>5. QED
    BY <2>1, <2>3, <2>4, CoreKeeps DEF Same
<1>3. QED
  BY <1>1, <1>2

\* The sub-states of a power up are forgotten first.
LEMMA ForgetKeeps ==
  ASSUME NEW s, NEW b \in BOOLEAN, NEW l \in BOOLEAN, SInv(s, b, l)
  PROVE  LET t == [s EXCEPT !.core.handoff = FALSE, !.core.fwctrl = FALSE]
         IN /\ SInv(t, b, l) /\ Same(s, t) /\ t.core.power = s.core.power
            /\ t.core.wd = s.core.wd
<1> DEFINE c == [s.core EXCEPT !.handoff = FALSE, !.fwctrl = FALSE]
           u == [s EXCEPT !.core = c]
           t == [s EXCEPT !.core.handoff = FALSE, !.core.fwctrl = FALSE]
<1>1. /\ c \in CoreType /\ c.power = s.core.power /\ c.wd = s.core.wd
      /\ c.state = s.core.state /\ c.loaded = s.core.loaded
      /\ c.skip = s.core.skip
  BY DEF SInv, SType, CoreType
<1>2. t = u
  BY DEF SInv, SType
<1> HIDE DEF c
<1>3. SInv(u, b, l) /\ u.core = c /\ u.irq = s.irq
  BY <1>1, CoreKeeps
<1> HIDE DEF t, u
<1>4. SInv(t, b, l) /\ Same(s, t) /\ t.core.power = s.core.power
      /\ t.core.wd = s.core.wd
  BY <1>1, <1>2, <1>3 DEF Same
<1>5. QED
  BY <1>4 DEF t

\* A resume is for a core without the watchdog bit: one that has it is on, or
\* down.
LEMMA ResumeKeeps ==
  ASSUME Flagged, NEW s, NEW b \in BOOLEAN, NEW l \in BOOLEAN, SInv(s, b, l),
         Resumes(s) => ~s.core.wd,
         NEW r \in Faults \cup {"ok"}, NEW h \in BOOLEAN
  PROVE  LET t == Resume(s, r, h)
         IN /\ SInv(t, b, l) /\ Same(s, t) /\ t.core.wd = s.core.wd
            /\ s.core.power => t = s
            /\ ~Resumes(s) => t = s
            /\ ResumeRc(s, r) => t.core.power
            /\ t.core.power => s.core.power \/ (Resumes(s) /\ r = "ok")
<1>1. CASE ~Resumes(s)
  BY <1>1 DEF Resume, ResumeRc, Resumes, Same
<1>2. CASE Resumes(s)
  <2> DEFINE s0 == [s EXCEPT !.core.handoff = FALSE, !.core.fwctrl = FALSE]
             s1 == PowerOn(s0)
             s2 == Write(s1, "cmd")
  <2>1. ~s.core.power /\ ~s.core.wd
    BY <1>2 DEF Resumes
  <2>2. SInv(s0, b, l) /\ Same(s, s0) /\ ~s0.core.power /\ ~s0.core.wd
    BY <2>1, ForgetKeeps
  <2>3. Resume(s, r, h) = IF r = "power" THEN s0
                          ELSE IF r = "boot" THEN PowerOff(s1)
                          ELSE IF r = "cache" THEN PowerOff(s2)
                          ELSE GiveControl(s2, h)
    BY <1>2 DEF Resume
  <2> HIDE DEF s0
  <2>4. SInv(s1, b, l) /\ Same(s0, s1) /\ s1.core.power /\ ~s1.core.wd
    BY <2>2, PowerOnKeeps
  <2> HIDE DEF s1
  <2>5. SInv(s2, b, l) /\ Same(s1, s2) /\ s2.core.power /\ ~s2.core.wd
    BY <2>4, WriteKeeps DEF Same
  <2> HIDE DEF s2
  <2>6. Same(s, s1) /\ Same(s, s2)
    BY <2>2, <2>4, <2>5 DEF Same
  <2> DEFINE t == Resume(s, r, h)
  <2>7. SInv(t, b, l) /\ Same(s, t) /\ t.core.wd = FALSE
        /\ t.core.power = (r = "ok")
    <3>1. CASE r = "power"
      BY <3>1, <2>2, <2>3 DEF SInv, SType, CoreType
    <3>2. CASE r = "boot"
      <4>1. t = PowerOff(s1)
        BY <3>2, <2>3
      <4>2. QED
        BY <4>1, <3>2, <2>4, <2>6, PowerOffKeeps DEF Same, SInv, SType, CoreType
    <3>3. CASE r = "cache"
      <4>1. t = PowerOff(s2)
        BY <3>3, <2>3
      <4>2. QED
        BY <4>1, <3>3, <2>5, <2>6, PowerOffKeeps DEF Same, SInv, SType, CoreType
    <3>4. CASE r = "ok"
      <4>1. t = GiveControl(s2, h)
        BY <3>4, <2>3
      <4>2. QED
        BY <4>1, <3>4, <2>5, <2>6, GiveControlKeeps DEF Same, SInv, SType, CoreType
    <3>5. QED
      BY <3>1, <3>2, <3>3, <3>4 DEF Faults
  <2> HIDE DEF t
  <2>8. s.core.wd = FALSE
    BY <2>1 DEF SInv, SType, CoreType
  <2>9. QED
    BY <1>2, <2>1, <2>7, <2>8 DEF t, ResumeRc
<1>3. QED
  BY <1>1, <1>2

LEMMA UnloadKeeps ==
  ASSUME Flagged, NEW s, NEW b \in BOOLEAN, NEW l \in BOOLEAN, SInv(s, b, l),
         s.core.power => s.core.loaded
  PROVE  LET t == Unload(s)
         IN /\ SInv(t, b, l) /\ ~t.core.power /\ t.core.wd = s.core.wd
            /\ t.core.state = s.core.state /\ t.core.skip = s.core.skip
            /\ t.irq.wake = s.irq.wake
<1>1. CASE ~s.core.loaded
  BY <1>1 DEF Unload
<1>2. CASE s.core.loaded
  <2> DEFINE u == PowerOff(Cancel(s))
  <2>1. /\ SInv(u, b, l) /\ ~u.core.power /\ u.core.wd = s.core.wd
        /\ Same(s, u)
    BY TimerKeeps, PowerOffKeeps DEF Same
  <2> DEFINE c == [u.core EXCEPT !.loaded = FALSE, !.fwctrl = FALSE]
  <2>2. u.core \in CoreType
    BY <2>1 DEF SInv, SType
  <2>3. Unload(s) = [u EXCEPT !.core = c]
    BY <1>2, <2>1 DEF Unload, SInv, SType
  <2> HIDE DEF u
  <2>4. /\ c \in CoreType /\ c.power = u.core.power /\ c.wd = u.core.wd
        /\ c.state = u.core.state /\ c.skip = u.core.skip
    BY <2>2 DEF CoreType
  <2> HIDE DEF c
  <2>5. QED
    BY <2>1, <2>3, <2>4, CoreKeeps DEF Same
<1>3. QED
  BY <1>1, <1>2

\* A deinit settles the core; it leaves one alone that waits for its boot only
\* if the watchdog has not bitten.
LEMMA DeinitKeeps ==
  ASSUME Flagged, NEW s, NEW b \in BOOLEAN, NEW l \in BOOLEAN, SInv(s, b, l), 
         s.core.power => s.core.loaded,
         s.core.state = "DEINIT" => ~s.core.power,
         s.core.state = "INIT_WAIT" => ~s.core.wd,
         Resumes(s) => ~s.core.wd,
         NEW r \in Faults \cup {"ok"}, NEW h \in BOOLEAN,
         r = "ok" => s.core.loaded \/ ~Valid(s.core)
  PROVE  LET t == Deinit(s, r, h)
         IN /\ SInv(t, b, l) /\ Settled(t) /\ t.core.wd = s.core.wd
            /\ t.core.skip = s.core.skip /\ t.irq.wake = s.irq.wake
            /\ ~t.core.power
            /\ s.core.state # "INIT_WAIT" => t.core.state = "DEINIT"
            /\ t.core.state # "INIT"
<1>1. CASE s.core.state = "DEINIT"
  BY <1>1 DEF Deinit, Settled, SInv, SType, CoreType
<1>2. CASE s.core.state # "DEINIT"
  <2> DEFINE u == Resume(s, r, h)
             w == IF ResumeRc(s, r) /\ Valid(s.core) THEN Write(u, "cmd") ELSE u
             x == Unload(w)
  <2>1. /\ SInv(u, b, l) /\ Same(s, u) /\ u.core.wd = s.core.wd
        /\ u.core.power => u.core.loaded
    BY ResumeKeeps DEF Same, Resumes
  <2>2. /\ SInv(w, b, l) /\ Same(s, w) /\ w.core.wd = s.core.wd
        /\ w.core.power => w.core.loaded
    <3> HIDE DEF u
    <3>1. QED
      BY <2>1, WriteKeeps DEF Same
  <2>3. /\ SInv(x, b, l) /\ ~x.core.power /\ x.core.wd = s.core.wd
        /\ x.core.state = s.core.state /\ x.core.skip = s.core.skip
        /\ x.irq.wake = s.irq.wake
    <3> HIDE DEF w
    <3>1. QED
      BY <2>2, UnloadKeeps DEF Same
  <2>4. Deinit(s, r, h) = [x EXCEPT !.core.state = IF @ = "INIT_WAIT" THEN @
                                                   ELSE "DEINIT"]
    BY <1>2 DEF Deinit, CoreDeinit
  <2> HIDE DEF x
  <2>5. QED
    BY <2>3, <2>4 DEF SInv, SType, CoreType, CoreStates, Balanced, Owes, HwAgrees,
                      Settled
<1>3. QED
  BY <1>1, <1>2

LEMMA FailKeeps ==
  ASSUME NEW s, NEW b \in BOOLEAN, NEW l \in BOOLEAN, SInv(s, b, l)
  PROVE  LET t == Fail(s)
         IN /\ SInv(t, b, l) /\ t.core.state \in {"ERROR", "DEINIT"}
            /\ t.core.state = "DEINIT" <=> s.core.state = "DEINIT"
            /\ t.core.power = s.core.power /\ t.core.wd = s.core.wd
            /\ t.core.loaded = s.core.loaded /\ t.core.skip = s.core.skip
            /\ t.irq = s.irq
BY DEF SInv, SType, CoreType, CoreStates, Balanced, Owes, HwAgrees, Fail, Valid

LEMMA BootedKeeps ==
  ASSUME Flagged, NEW s, NEW b \in BOOLEAN, NEW l \in BOOLEAN,
         SInv(s, b, l), ~s.core.power,
         ~s.core.wd \/ ~b \/ l, NEW h \in BOOLEAN
  PROVE  LET t == Booted(s, h)
         IN /\ SInv(t, b, l) /\ t.core.state = "INIT_WAIT" /\ t.core.loaded
            /\ t.core.power /\ ~t.core.wd
            /\ t.core.skip = s.core.skip /\ t.irq.wake = s.irq.wake
<1> DEFINE c  == [s.core EXCEPT !.state = "INIT_WAIT", !.fwctrl = FALSE,
                                !.handoff = FALSE]
           v  == [s EXCEPT !.core = c]
           s0 == [s EXCEPT !.core.state = "INIT_WAIT", !.core.fwctrl = FALSE,
                           !.core.handoff = FALSE, !.cmds = << >>]
           p  == PowerOn(s0)
           d  == [p.core EXCEPT !.loaded = TRUE]
           s1 == [p EXCEPT !.core.loaded = TRUE]
           w  == Write(s1, "sys_init")
<1>1. /\ c \in CoreType /\ c.power = s.core.power /\ c.wd = s.core.wd
      /\ c.state = "INIT_WAIT" /\ c.skip = s.core.skip
  BY DEF SInv, SType, CoreType, CoreStates
<1>2. SInv(v, b, l) /\ v.core = c /\ v.irq = s.irq
  <2> HIDE DEF c
  <2>1. QED
    BY <1>1, CoreKeeps
<1>3. SInv(s0, b, l) /\ s0.core = c /\ s0.irq = s.irq
  <2>1. /\ SType(v) /\ s0 = [v EXCEPT !.cmds = << >>]
    BY <1>2 DEF SInv, SType
  <2> HIDE DEF s0, v, c
  <2>2. << >> \in CmdType
    BY DEF CmdType
  <2>3. /\ SType(s0) /\ s0.core = v.core /\ s0.irq = v.irq /\ s0.hw = v.hw
        /\ s0.cmds = << >>
    BY <2>1, <2>2 DEF SType
  <2>4. Balanced(s0, b, l)
    BY <1>2, <2>3 DEF SInv, Balanced, Owes
  <2>5. HwAgrees(s0)
    BY <1>2, <2>3 DEF SInv, HwAgrees
  <2>6. QED
    BY <1>2, <2>3, <2>4, <2>5 DEF SInv
<1> HIDE DEF c, v, s0
<1>4. /\ SInv(p, b, l) /\ Same(s0, p) /\ p.core.power /\ ~p.core.wd
  BY <1>1, <1>3, PowerOnKeeps
<1> HIDE DEF p
<1>5. /\ d \in CoreType /\ d.power = p.core.power /\ d.wd = p.core.wd
      /\ d.state = p.core.state /\ d.skip = p.core.skip /\ d.loaded = TRUE
  BY <1>4 DEF SInv, SType, CoreType
<1>6. s1 = [p EXCEPT !.core = d]
  BY <1>4 DEF SInv, SType
<1> DEFINE u == [p EXCEPT !.core = d]
<1> HIDE DEF d, s1
<1>7. SInv(u, b, l) /\ u.core = d /\ u.irq = p.irq
  BY <1>4, <1>5, CoreKeeps
<1> HIDE DEF u
<1>8. SInv(w, b, l) /\ w.core = d /\ w.irq = p.irq
  BY <1>6, <1>7, WriteKeeps DEF u
<1>9. Booted(s, h) = GiveControl(w, h)
  BY DEF Booted, w, s1, p, s0
<1> HIDE DEF w
<1>10. /\ w.core.state = "INIT_WAIT" /\ w.core.loaded = TRUE
       /\ w.core.power = p.core.power /\ w.core.wd = p.core.wd
       /\ w.core.skip = s.core.skip /\ w.irq.wake = s.irq.wake
  BY <1>1, <1>3, <1>4, <1>5, <1>8 DEF Same
<1> DEFINE t == GiveControl(w, h)
<1>11. /\ SInv(t, b, l) /\ Same(w, t) /\ t.core.power = w.core.power
       /\ t.core.wd = w.core.wd
  BY <1>8, GiveControlKeeps
<1> HIDE DEF t
<1>12. QED
  BY <1>4, <1>9, <1>10, <1>11 DEF Same, t

LEMMA PreparePcKeeps ==
  ASSUME NEW s, NEW b \in BOOLEAN, NEW l \in BOOLEAN,
         SInv(s, b, l), s.core.power, NEW a
  PROVE  LET t == PreparePc(s, a)
         IN SInv(t, b, l) /\ t.core = s.core /\ t.irq = s.irq
<1>1. CASE s.hw.fw = "ready" \/ ~IdleFw(s)
  BY <1>1 DEF PreparePc
<1>2. CASE ~(s.hw.fw = "ready" \/ ~IdleFw(s))
  <2> DEFINE f == IF a = "no" THEN "run" ELSE "ready"
             k == [s.hw EXCEPT !.fw = f]
             v == Schedule(s)
             t == PreparePc(s, a)
  <2>1. /\ SInv(v, b, l) /\ v.core = s.core /\ v.irq = s.irq /\ v.hw = s.hw
        /\ v.cmds = s.cmds
    BY TimerKeeps DEF Schedule, SInv, SType
  <2>2. s.hw.fw = "run" /\ s.hw \in HwType /\ s.cmds = << >>
    BY <1>2 DEF IdleFw, SInv, SType
  <2>3. k \in HwType /\ k.line = s.hw.line
    BY <2>2 DEF HwType
  <2>4. t = [v EXCEPT !.hw = k]
    BY <1>2, <2>1 DEF PreparePc, SInv, SType
  <2> HIDE DEF v, t, k
  <2>5. SType(t) /\ t.core = v.core /\ t.irq = v.irq /\ t.hw = k /\ t.cmds = v.cmds
    <3>1. SType(v)
      BY <2>1 DEF SInv
    <3>2. QED
      BY <2>3, <2>4, <3>1 DEF SType
  <2>6. HwAgrees(t)
    BY <2>1, <2>2, <2>3, <2>5 DEF SInv, HwAgrees
  <2>7. QED
    BY <2>1, <2>5, <2>6 DEF t, SInv, Balanced, Owes
<1>3. QED
  BY <1>1, <1>2

\* A collapse never hits a hung firmware: it does not become ready.
LEMMA CollapseKeeps ==
  ASSUME Flagged, NEW s, NEW b \in BOOLEAN, NEW l \in BOOLEAN,
         SInv(s, b, l), Settled(s), NEW a, NEW f
  PROVE  LET t == Collapse(s, a, f)
         IN SInv(t, b, l) /\ Settled(t) /\ Same(s, t) /\ t.core.wd = s.core.wd
<1>1. CASE ~(s.core.power /\ Valid(s.core))
  <2>1. Collapse(s, a, f) = IF CollapseRc(s, a, f) = "ok"
                            THEN PowerOff(PreparePc(s, a)) ELSE s
    BY <1>1 DEF Collapse
  <2>2. CASE s.core.power
    BY <1>1, <2>1, <2>2 DEF CollapseRc, Same
  <2>3. CASE ~s.core.power
    <3>1. PreparePc(s, a) = s
      BY <2>3 DEF PreparePc, IdleFw, SInv, HwAgrees
    <3>2. Collapse(s, a, f) = s
      BY <2>1, <2>3, <3>1 DEF PowerOff
    <3>3. QED
      BY <3>2 DEF Same
  <2>4. QED
    BY <2>2, <2>3 DEF SInv, SType, CoreType
<1>2. CASE s.core.power /\ Valid(s.core)
  <2> DEFINE t == PreparePc(s, a)
  <2>1. SInv(t, b, l) /\ t.core = s.core /\ t.irq = s.irq
    BY <1>2, PreparePcKeeps
  <2>2. Collapse(s, a, f) = IF CollapseRc(s, a, f) = "ok" THEN PowerOff(t) ELSE t
    BY <1>2 DEF Collapse
  <2> HIDE DEF t
  <2>3. CASE CollapseRc(s, a, f) # "ok"
    BY <2>1, <2>2, <2>3 DEF Settled, Same
  <2>4. CASE CollapseRc(s, a, f) = "ok"
    <3>1. Prepared(s, a)
      BY <1>2, <2>4 DEF CollapseRc
    <3>2. ~s.core.wd
      BY <1>2, <3>1 DEF Prepared, IdleFw, SInv, HwAgrees
    <3>3. QED
      BY <2>1, <2>2, <2>4, <3>2, PowerOffKeeps DEF Settled, Same
  <2>5. QED
    BY <2>3, <2>4
<1>3. QED
  BY <1>1, <1>2

\* The work is done, whatever came of it.
LEMMA DoneKeeps ==
  ASSUME NEW s, NEW b \in BOOLEAN, NEW l \in BOOLEAN, SInv(s, b, l)
  PROVE  SInv(Done(s), b, l) /\ Done(s).core = s.core /\ Done(s).irq = s.irq
BY DEF SInv, SType, PmType, Balanced, Owes, HwAgrees, Done

\* The skip count of a core: nothing else depends on it.
Skips(s, n) == [s EXCEPT !.core.skip = n]

LEMMA SkipKeeps ==
  ASSUME NEW s, NEW b \in BOOLEAN, NEW l \in BOOLEAN,
         SInv(s, b, l), NEW n \in 0..MaxSkip
  PROVE  LET t == Skips(s, n)
         IN /\ SInv(t, b, l) /\ (Settled(s) => Settled(t))
            /\ t.core.state = s.core.state /\ t.core.power = s.core.power
            /\ t.core.loaded = s.core.loaded /\ t.core.wd = s.core.wd
            /\ t.irq = s.irq
<1> DEFINE c == [s.core EXCEPT !.skip = n]
           u == [s EXCEPT !.core = c]
           t == Skips(s, n)
<1>1. /\ c \in CoreType /\ c.power = s.core.power /\ c.wd = s.core.wd
      /\ c.state = s.core.state /\ c.loaded = s.core.loaded
  BY DEF SInv, SType, CoreType
<1>2. t = u
  BY DEF SInv, SType, Skips
<1> HIDE DEF c
<1>3. SInv(u, b, l) /\ u.core = c /\ u.irq = s.irq
  BY <1>1, CoreKeeps
<1> HIDE DEF t, u
<1>4. /\ SInv(t, b, l) /\ (Settled(s) => Settled(t))
      /\ t.core.state = s.core.state /\ t.core.power = s.core.power
      /\ t.core.loaded = s.core.loaded /\ t.core.wd = s.core.wd
      /\ t.irq = s.irq
  BY <1>1, <1>2, <1>3 DEF Settled
<1>5. QED
  BY <1>4 DEF t

LEMMA AfterTryKeeps ==
  ASSUME NEW s, NEW b \in BOOLEAN, NEW l \in BOOLEAN,
         SInv(s, b, l), Settled(s), NEW rc,
         s.core.skip < MaxSkip
  PROVE  LET t == AfterTry(s, rc)
         IN /\ SInv(t, b, l) /\ Settled(t)
            /\ t.core.state = s.core.state /\ t.core.wd = s.core.wd
            /\ t.irq = s.irq
<1> DEFINE z == Skips(s, 0)
           n == s.core.skip + 1
           y == Skips(s, n)
<1>1. 0 \in 0..MaxSkip /\ n \in 0..MaxSkip
  BY PowerAssumption DEF SInv, SType, CoreType
<1>2. /\ SInv(z, b, l) /\ Settled(z) /\ z.core.state = s.core.state
      /\ z.core.wd = s.core.wd /\ z.irq = s.irq
  BY <1>1, SkipKeeps
<1>3. /\ SInv(y, b, l) /\ Settled(y) /\ y.core.state = s.core.state
      /\ y.core.wd = s.core.wd /\ y.irq = s.irq
  <2> HIDE DEF n
  <2>1. QED
    BY <1>1, SkipKeeps
<1>4. AfterTry(s, rc) \in {Cancel(z), Schedule(z), Schedule(y), s}
  BY DEF AfterTry, Skips
<1> HIDE DEF z, y
<1>5. QED
  BY <1>2, <1>3, <1>4, TimerKeeps DEF Settled

LEMMA ClearKeeps ==
  ASSUME NEW s, NEW b \in BOOLEAN, NEW l \in BOOLEAN,
         SInv(s, b, l), b = TRUE, s.core.power
  PROVE  LET t == Clear(s)
         IN SInv(t, b, l) /\ Same(s, t) /\ t.core.power
<1> DEFINE c == [s.core EXCEPT !.wd = s.core.wd \/ "A2HWD" \in s.hw.line]
           k == [s.hw EXCEPT !.line = s.hw.line \ {"A2H"}]
           t == Clear(s)
<1>1. /\ c \in CoreType /\ c.power = s.core.power /\ c.state = s.core.state
      /\ c.loaded = s.core.loaded /\ c.skip = s.core.skip
      /\ c.wd = (s.core.wd \/ "A2HWD" \in s.hw.line)
  BY DEF SInv, SType, CoreType
<1>2. k \in HwType /\ k.fw = s.hw.fw /\ k.line \subseteq s.hw.line
  BY DEF SInv, SType, HwType
<1>3. t = [s EXCEPT !.core = c, !.hw = k]
  BY DEF SInv, SType, Clear
<1> HIDE DEF c, k, t
<1>4. SType(t) /\ t.core = c /\ t.hw = k /\ t.irq = s.irq /\ t.cmds = s.cmds
  <2>1. SType(s)
    BY DEF SInv
  <2>2. QED
    BY <1>1, <1>2, <1>3, <2>1 DEF SType
<1>5. HwAgrees(t)
  BY <1>1, <1>2, <1>4 DEF SInv, HwAgrees
<1>6. Balanced(t, b, l)
  BY <1>1, <1>4 DEF SInv, Balanced, Owes
<1>7. QED
  BY <1>1, <1>4, <1>5, <1>6 DEF t, SInv, Same

-----------------------------------------------------------------------------
(* The actions.                                                            *)

LEMMA InitIInv == Init => Inv
<1> SUFFICES ASSUME Init PROVE Inv
  OBVIOUS
<1>1. /\ core \in CoreType /\ core.power = FALSE /\ core.wd = FALSE
      /\ irq \in IrqType /\ irq.depth = 1 /\ irq.wake = FALSE
      /\ hw \in HwType /\ hw.fw = "off" /\ hw.line = {}
      /\ cmds \in CmdType /\ pm \in PmType /\ msgs \in Seq(Kinds)
      /\ thread = "idle" /\ crossed = FALSE
  BY PowerAssumption DEF Init, CoreType, CoreStates, IrqType, HwType, CmdType,
                         PmType
<1>2. SType(Now) /\ HwAgrees(Now) /\ Settled(Now)
  BY <1>1 DEF SType, Now, HwAgrees, Settled
<1>3. Balanced(Now, InFlight, crossed)
  BY <1>1 DEF Balanced, Owes, Now, InFlight
<1>4. ThreadAgrees(crossed)
  BY <1>1 DEF ThreadAgrees
<1>5. QED
  BY <1>1, <1>2, <1>3, <1>4 DEF Inv, IInv, SInv, Threads

\* A section that ends in a record with the invariant.
LEMMA Sectioned ==
  ASSUME NEW s, NEW b \in BOOLEAN, NEW l \in BOOLEAN,
         SInv(s, b, l), Settled(s), Becomes(s),
         InFlight' = b
  PROVE  SInv(Now, InFlight, l)' /\ Settled(Now)'
BY DEF SInv, SType, Balanced, Owes, HwAgrees, Settled, Becomes, Now

LEMMA Booleans == InFlight \in BOOLEAN /\ InFlight' \in BOOLEAN
BY DEF InFlight

\* Most sections leave the thread, and whether it is due, as they are.
LEMMA LockedStep ==
  ASSUME NEW l \in BOOLEAN,
         IInv(l), NEW s, SInv(s, InFlight, l), Settled(s), Becomes(s),
         UNCHANGED thread, msgs' \in Seq(Kinds), s.irq.wake = irq.wake,
         s.core.wd => core.wd,
         thread = "wd_error" /\ s.core.wd => s.core.state \in {"ERROR", "DEINIT"}
  PROVE  IInv(l)'
<1>1. InFlight' = InFlight
  BY DEF InFlight, Becomes
<1>2. SInv(Now, InFlight, l)' /\ Settled(Now)'
  BY <1>1, Sectioned, Booleans
<1>3. ThreadAgrees(l)'
  BY DEF IInv, ThreadAgrees, Becomes
<1>4. QED
  BY <1>2, <1>3 DEF IInv

\* What the actions may rely on.
LEMMA Facts ==
  ASSUME NEW l \in BOOLEAN, IInv(l)
  PROVE  /\ SInv(Now, InFlight, l) /\ Settled(Now) /\ InFlight \in BOOLEAN
         /\ Now.core = core /\ Now.irq = irq /\ Now.hw = hw
         /\ Now.cmds = cmds /\ Now.pm = pm
         /\ core \in CoreType /\ irq \in IrqType /\ hw \in HwType
         /\ Resumes(Now) => ~core.wd
BY DEF IInv, Now, SInv, SType, Settled, Resumes, Valid, InFlight

\* Outcomes are what the lemmas ask for.
LEMMA OutcomesFit ==
  ASSUME NEW r \in Outcomes(Now)
  PROVE  r \in Faults \cup {"ok"} /\ (r = "ok" => core.loaded)
BY DEF Outcomes, Faults, Now

LEMMA HandoffsFit == Handoffs \subseteq BOOLEAN
BY DEF Handoffs

\* A failed core is taken down whatever came before.
LEMMA FailDeinitKeeps ==
  ASSUME Flagged, NEW s, NEW b \in BOOLEAN, NEW l \in BOOLEAN, SInv(s, b, l),
         s.core.power => s.core.loaded,
         s.core.state = "DEINIT" => ~s.core.power
  PROVE  LET t == Deinit(Fail(s), "ok", FALSE)
         IN /\ SInv(t, b, l) /\ Settled(t) /\ t.core.wd = s.core.wd
            /\ t.core.skip = s.core.skip /\ t.irq.wake = s.irq.wake
            /\ t.core.state = "DEINIT"
<1> DEFINE u == Fail(s)
<1>1. /\ SInv(u, b, l) /\ u.core.state \in {"ERROR", "DEINIT"}
      /\ u.core.state = "DEINIT" <=> s.core.state = "DEINIT"
      /\ u.core.power = s.core.power /\ u.core.wd = s.core.wd
      /\ u.core.loaded = s.core.loaded /\ u.core.skip = s.core.skip
      /\ u.irq = s.irq
  BY FailKeeps
<1> HIDE DEF u
<1>2. ~Resumes(u) /\ ~Valid(u.core)
  BY <1>1 DEF Resumes, Valid
<1> DEFINE t == Deinit(u, "ok", FALSE)
<1>3. /\ SInv(t, b, l) /\ Settled(t) /\ t.core.wd = u.core.wd
      /\ t.core.skip = u.core.skip /\ t.irq.wake = u.irq.wake
      /\ ~t.core.power
      /\ u.core.state # "INIT_WAIT" => t.core.state = "DEINIT"
      /\ t.core.state # "INIT"
  <2>1. /\ u.core.power => u.core.loaded
        /\ u.core.state = "DEINIT" => ~u.core.power
        /\ u.core.state # "INIT_WAIT"
    BY <1>1
  <2>2. "ok" \in Faults \cup {"ok"} /\ FALSE \in BOOLEAN
    OBVIOUS
  <2>3. /\ u.core.state = "INIT_WAIT" => ~u.core.wd
        /\ Resumes(u) => ~u.core.wd
        /\ "ok" = "ok" => u.core.loaded \/ ~Valid(u.core)
    BY <1>2, <2>1
  <2>4. SInv(u, b, l)
    BY <1>1
  <2>5. ASSUME NEW r \in Faults \cup {"ok"}, NEW h \in BOOLEAN,
               r = "ok" => u.core.loaded \/ ~Valid(u.core)
        PROVE  LET x == Deinit(u, r, h)
               IN /\ SInv(x, b, l) /\ Settled(x) /\ x.core.wd = u.core.wd
                  /\ x.core.skip = u.core.skip /\ x.irq.wake = u.irq.wake
                  /\ ~x.core.power
                  /\ u.core.state # "INIT_WAIT" => x.core.state = "DEINIT"
                  /\ x.core.state # "INIT"
    BY <2>1, <2>3, <2>4, <2>5, DeinitKeeps, SMT
  <2>6. QED
    BY <2>2, <2>3, <2>5, Zenon
<1> HIDE DEF t
<1>4. QED
  BY <1>1, <1>3 DEF t, u

LEMMA ClientSteps ==
  ASSUME Flagged, NEW l \in BOOLEAN, IInv(l), Crosses => l, Client
  PROVE  IInv(l)'
<1>f. /\ SInv(Now, InFlight, l) /\ Settled(Now)
      /\ InFlight \in BOOLEAN /\ InFlight' \in BOOLEAN
      /\ Now.core = core /\ Now.irq = irq /\ Now.hw = hw
      /\ Now.cmds = cmds /\ Now.pm = pm
      /\ core \in CoreType /\ irq \in IrqType /\ hw \in HwType
      /\ Resumes(Now) => ~core.wd
  BY Facts, Booleans
<1> USE <1>f
<1>1. ASSUME NEW h \in Handoffs, CoreInit(h) PROVE IInv(l)'
  <2>a. ~core.power /\ Becomes(Booted(Now, h)) /\ msgs' = << >>
        /\ UNCHANGED thread
    BY <1>1 DEF CoreInit, Settled
  <2>b. SInv(Now, InFlight, TRUE) /\ h \in BOOLEAN
    BY HandoffsFit DEF SInv, Balanced
  <2>c. ~core'.wd
    BY <2>a, <2>b, BootedKeeps DEF Becomes
  <2>1. ~core.power /\ (~core.wd \/ ~InFlight \/ l) /\ Becomes(Booted(Now, h))
        /\ msgs' = << >> /\ UNCHANGED thread
    BY <2>a, <2>c DEF Crosses
  <2> DEFINE t == Booted(Now, h)
  <2>2. /\ SInv(t, InFlight, l) /\ t.core.state = "INIT_WAIT" /\ t.core.loaded
        /\ t.core.power /\ ~t.core.wd /\ t.irq.wake = irq.wake
    BY <2>1, BootedKeeps, HandoffsFit
  <2>3. Becomes(t)
    BY <2>1
  <2> HIDE DEF t
  <2>4. Settled(t)
    BY <2>2 DEF Settled
  <2>7. msgs' \in Seq(Kinds)
    BY <2>1
  <2>8. QED
    BY <2>1, <2>2, <2>3, <2>4, <2>7, LockedStep
<1>2. ASSUME CoreInitFails PROVE IInv(l)'
  <2>1. /\ core.state = "DEINIT" /\ ~core.power
        /\ msgs' = << >> /\ UNCHANGED thread
    BY <1>2 DEF CoreInitFails, Settled
  <2>2. msgs' \in Seq(Kinds)
    BY <2>1
  <2> DEFINE u == [Now EXCEPT !.core.handoff = FALSE, !.core.fwctrl = FALSE,
                              !.cmds = << >>]
             t == Deinit(Fail(Booted(Now, FALSE)), "ok", FALSE)
  <2>3. CASE Becomes(u)
    <3> DEFINE v == [Now EXCEPT !.core.handoff = FALSE, !.core.fwctrl = FALSE]
    <3>1. /\ SInv(v, InFlight, l) /\ Same(Now, v) /\ v.core.power = core.power
          /\ v.core.wd = core.wd
      BY ForgetKeeps
    <3>2. u = [v EXCEPT !.cmds = << >>] /\ SType(v)
      BY <3>1 DEF SInv, SType
    <3> HIDE DEF u, v
    <3>3. << >> \in CmdType
      BY DEF CmdType
    <3>4. SType(u) /\ u.core = v.core /\ u.irq = v.irq /\ u.hw = v.hw
      BY <3>2, <3>3 DEF SType
    <3>5. SInv(u, InFlight, l) /\ Settled(u)
      BY <2>1, <3>1, <3>4 DEF SInv, Balanced, Owes, HwAgrees, Settled, Same
    <3>6. /\ u.core.wd = core.wd /\ u.irq.wake = irq.wake
          /\ thread = "wd_error" => u.core.state \in {"ERROR", "DEINIT"}
      BY <2>1, <3>1, <3>4 DEF Same
    <3>7. QED
      BY <2>1, <2>2, <2>3, <3>5, <3>6, LockedStep
  <2>4. CASE Becomes(t)
    <3> DEFINE w == Booted(Now, FALSE)
    <3>c. SInv(Now, InFlight, TRUE)
      BY DEF SInv, Balanced
    <3>d. SInv(w, InFlight, TRUE) /\ w.core.state = "INIT_WAIT" /\ w.core.loaded
          /\ ~w.core.wd
      BY <2>1, <3>c, BootedKeeps
    <3>e. ~t.core.wd
      <4> HIDE DEF w
      <4>1. Deinit(Fail(w), "ok", FALSE).core.wd = w.core.wd
        BY <3>d, FailDeinitKeeps, Zenon
      <4> QED
        BY <4>1, <3>d DEF w
    <3>f. ~core.wd \/ ~InFlight \/ l
      BY <2>4, <3>e DEF Becomes, Crosses
    <3>1. /\ SInv(w, InFlight, l) /\ w.core.state = "INIT_WAIT" /\ w.core.loaded
          /\ w.core.power /\ ~w.core.wd /\ w.irq.wake = irq.wake
      BY <2>1, <3>f, BootedKeeps
    <3> HIDE DEF w
    <3> DEFINE x == Deinit(Fail(w), "ok", FALSE)
    <3>a. t = x
      BY DEF w
    <3> HIDE DEF t
    <3>b. /\ SInv(x, InFlight, l) /\ Settled(x) /\ x.core.wd = w.core.wd
          /\ x.irq.wake = w.irq.wake /\ x.core.state = "DEINIT"
      <4>1. /\ w.core.power => w.core.loaded
            /\ w.core.state = "DEINIT" => ~w.core.power
        BY <3>1
      <4>2. QED
        BY <3>1, <4>1, FailDeinitKeeps, Zenon
    <3>2. /\ SInv(t, InFlight, l) /\ Settled(t) /\ t.core.wd = w.core.wd
          /\ t.irq.wake = w.irq.wake /\ t.core.state = "DEINIT"
      BY <3>a, <3>b
    <3> HIDE DEF t
    <3>4. QED
      BY <2>1, <2>2, <2>4, <3>1, <3>2, LockedStep
  <2>5. QED
    BY <1>2, <2>3, <2>4 DEF CoreInitFails
<1>3. ASSUME CoreInitTimesOut PROVE IInv(l)'
  <2> DEFINE t == Deinit(Fail(Now), "ok", FALSE)
  <2>1. Becomes(t) /\ UNCHANGED <<msgs, thread>>
    BY <1>3 DEF CoreInitTimesOut
  <2>2. /\ SInv(t, InFlight, l) /\ Settled(t) /\ t.core.wd = core.wd
        /\ t.irq.wake = irq.wake /\ t.core.state = "DEINIT"
    BY FailDeinitKeeps DEF Settled
  <2> HIDE DEF t
  <2>3. msgs' \in Seq(Kinds)
    BY <2>1 DEF IInv
  <2>4. QED
    BY <2>1, <2>2, <2>3, LockedStep
<1>4. ASSUME NEW r \in Outcomes(Now), NEW h \in Handoffs, ForceDeinit(r, h)
      PROVE  IInv(l)'
  <2> DEFINE t == Deinit(Now, r, h)
  <2>1. /\ Becomes(t) /\ UNCHANGED <<msgs, thread>>
        /\ core.state \in {"INIT", "ERROR"}
    BY <1>4 DEF ForceDeinit
  <2>2. /\ SInv(t, InFlight, l) /\ Settled(t) /\ t.core.wd = core.wd
        /\ t.irq.wake = irq.wake /\ t.core.state = "DEINIT"
    <3>1. /\ r \in Faults \cup {"ok"} /\ h \in BOOLEAN
          /\ r = "ok" => Now.core.loaded \/ ~Valid(Now.core)
      BY OutcomesFit, HandoffsFit
    <3>2. /\ Now.core.power => Now.core.loaded
          /\ Now.core.state = "DEINIT" => ~Now.core.power
          /\ Now.core.state = "INIT_WAIT" => ~Now.core.wd
          /\ Resumes(Now) => ~Now.core.wd
      BY <2>1 DEF Settled
    <3>3. SInv(Now, InFlight, l)
      OBVIOUS
    <3> QED
      BY <2>1, <3>1, <3>2, <3>3, DeinitKeeps
  <2> HIDE DEF t
  <2>3. msgs' \in Seq(Kinds)
    BY <2>1 DEF IInv
  <2>4. QED
    BY <2>1, <2>2, <2>3, LockedStep
<1>5. ASSUME NEW r \in Outcomes(Now), NEW h \in Handoffs, Command(r, h)
      PROVE  IInv(l)'
  <2> DEFINE u == Resume(Now, r, h)
             t == IF ResumeRc(Now, r) THEN Write(u, "cmd") ELSE u
  <2>1. Becomes(t) /\ UNCHANGED <<msgs, thread>> /\ core.state = "INIT"
    BY <1>5 DEF Command
  <2>2. /\ SInv(u, InFlight, l) /\ Same(Now, u) /\ u.core.wd = core.wd
        /\ u.core.power => core.power \/ (Resumes(Now) /\ r = "ok")
        /\ core.power => u = Now
    BY ResumeKeeps, OutcomesFit, HandoffsFit
  <2>3. u.core.power => u.core.loaded
    BY <2>2, OutcomesFit DEF Same, Settled
  <2>4. core.wd => core.power
    BY <2>1 DEF Settled
  <2>5. Settled(u)
    BY <2>1, <2>2, <2>3, <2>4 DEF Same, Settled
  <2> HIDE DEF u
  <2>6. /\ SInv(t, InFlight, l) /\ Settled(t) /\ t.core.wd = core.wd
        /\ t.irq.wake = irq.wake /\ t.core.state = core.state
    BY <2>2, <2>5, WriteKeeps DEF Same, Settled
  <2> HIDE DEF t
  <2>7. /\ msgs' \in Seq(Kinds)
        /\ thread = "wd_error" /\ core.wd => core.state \in {"ERROR", "DEINIT"}
    BY <2>1 DEF IInv, ThreadAgrees
  <2>8. QED
    BY <2>1, <2>6, <2>7, LockedStep
<1>6. ASSUME NEW a \in Answers, NEW f \in Suspends, SystemSuspend(a, f)
      PROVE  IInv(l)'
  <2> DEFINE u == Collapse(Now, a, f)
             t == IF CollapseRc(Now, a, f) = "ok" THEN Cancel(u) ELSE u
  <2>1. Becomes(t) /\ UNCHANGED <<msgs, thread>>
    BY <1>6 DEF SystemSuspend
  <2>2. /\ SInv(u, InFlight, l) /\ Settled(u) /\ Same(Now, u)
        /\ u.core.wd = core.wd
    BY CollapseKeeps
  <2> HIDE DEF u
  <2>3. /\ SInv(t, InFlight, l) /\ Settled(t) /\ t.core.wd = core.wd
        /\ t.irq.wake = irq.wake /\ t.core.state = core.state
    BY <2>2, TimerKeeps DEF Same, Settled
  <2> HIDE DEF t
  <2>4. /\ msgs' \in Seq(Kinds)
        /\ thread = "wd_error" /\ core.wd => core.state \in {"ERROR", "DEINIT"}
    BY <2>1 DEF IInv, ThreadAgrees
  <2>5. QED
    BY <2>1, <2>3, <2>4, LockedStep
<1>7. QED
  BY <1>1, <1>2, <1>3, <1>4, <1>5, <1>6 DEF Client

LEMMA PmSteps ==
  ASSUME Flagged, NEW l \in BOOLEAN, IInv(l), PmStarts \/ PmWork
  PROVE  IInv(l)'
<1>f. /\ SInv(Now, InFlight, l) /\ Settled(Now)
      /\ InFlight \in BOOLEAN /\ InFlight' \in BOOLEAN
      /\ Now.core = core /\ Now.irq = irq /\ Now.hw = hw
      /\ Now.cmds = cmds /\ Now.pm = pm
      /\ core \in CoreType /\ irq \in IrqType /\ hw \in HwType
      /\ Resumes(Now) => ~core.wd
  BY Facts, Booleans
<1> USE <1>f
<1>1. ASSUME PmStarts PROVE IInv(l)'
  BY <1>1 DEF PmStarts, IInv, SInv, SType, PmType, Now, InFlight, Balanced, Owes,
              HwAgrees, Settled, ThreadAgrees
<1>2. ASSUME PmGivesUp PROVE IInv(l)'
  <2> DEFINE z == Skips(Now, 0)
             u == Deinit(Fail(z), "ok", FALSE)
             t == Done(u)
  <2>1. Becomes(t) /\ UNCHANGED <<msgs, thread>>
    BY <1>2 DEF PmGivesUp, Skips
  <2>2. 0 \in 0..MaxSkip
    BY PowerAssumption
  <2>3. /\ SInv(z, InFlight, l) /\ Settled(z) /\ z.core.wd = core.wd /\ z.irq = irq
        /\ z.core.state = core.state /\ z.core.power = core.power
    BY <2>2, SkipKeeps
  <2> HIDE DEF z
  <2>4. /\ SInv(u, InFlight, l) /\ Settled(u) /\ u.core.wd = core.wd
        /\ u.irq.wake = irq.wake /\ u.core.state = "DEINIT"
    BY <2>3, FailDeinitKeeps DEF Settled
  <2> HIDE DEF u
  <2>5. /\ SInv(t, InFlight, l) /\ Settled(t) /\ t.core.wd = core.wd
        /\ t.irq.wake = irq.wake /\ t.core.state = "DEINIT"
    BY <2>4, DoneKeeps DEF Settled
  <2> HIDE DEF t
  <2>6. msgs' \in Seq(Kinds)
    BY <2>1 DEF IInv
  <2>7. QED
    BY <2>1, <2>5, <2>6, LockedStep
<1>3. ASSUME PmFindsDeinit PROVE IInv(l)'
  BY <1>3 DEF PmFindsDeinit, Done, Becomes, IInv, SInv, SType, PmType, Now,
              InFlight, Balanced, Owes, HwAgrees, Settled, ThreadAgrees
<1>4. ASSUME NEW a \in Answers, NEW f \in Suspends, PmTries(a, f) PROVE IInv(l)'
  <2> DEFINE rc == CollapseRc(Now, a, f)
             c == Collapse(Now, a, f)
             u == AfterTry(c, rc)
             t == Done(u)
  <2>1. Becomes(t) /\ UNCHANGED <<msgs, thread>> /\ core.skip < MaxSkip
    BY <1>4 DEF PmTries
  <2>2. /\ SInv(c, InFlight, l) /\ Settled(c) /\ Same(Now, c) /\ c.core.wd = core.wd
    BY CollapseKeeps
  <2> HIDE DEF c, rc
  <2>3. /\ SInv(u, InFlight, l) /\ Settled(u) /\ u.core.state = c.core.state
        /\ u.core.wd = c.core.wd /\ u.irq = c.irq
    BY <2>1, <2>2, AfterTryKeeps DEF Same
  <2> HIDE DEF u
  <2>4. /\ SInv(t, InFlight, l) /\ Settled(t) /\ t.core.wd = core.wd
        /\ t.irq.wake = irq.wake /\ t.core.state = core.state
    BY <2>2, <2>3, DoneKeeps DEF Settled, Same
  <2> HIDE DEF t
  <2>5. /\ msgs' \in Seq(Kinds)
        /\ thread = "wd_error" /\ core.wd => core.state \in {"ERROR", "DEINIT"}
    BY <2>1 DEF IInv, ThreadAgrees
  <2>6. QED
    BY <2>1, <2>4, <2>5, LockedStep
<1>5. QED
  BY <1>1, <1>2, <1>3, <1>4 DEF PmWork

\* A step of the thread inside its run: the core it leaves still agrees.
LEMMA ThreadStep ==
  ASSUME NEW l \in BOOLEAN,
         IInv(l), NEW s, SInv(s, InFlight, l), Settled(s), Becomes(s),
         thread # "idle", thread' \in Threads \ {"idle"}, msgs' \in Seq(Kinds),
         s.irq.wake = irq.wake,
         thread' # "woken",
         s.core.wd => thread' \in {"respond", "wd_error", "quit"},
         thread' = "wd_error" /\ s.core.wd => s.core.state \in {"ERROR", "DEINIT"}
  PROVE  IInv(l)'
<1>1. InFlight' = InFlight
  BY DEF InFlight, Becomes
<1>2. SInv(Now, InFlight, l)' /\ Settled(Now)'
  BY <1>1, Sectioned, Booleans
<1>3. ThreadAgrees(l)'
  BY DEF IInv, ThreadAgrees, Becomes
<1>4. QED
  BY <1>2, <1>3 DEF IInv

LEMMA ThreadSteps ==
  ASSUME Flagged, NEW l \in BOOLEAN, IInv(l), Thread
  PROVE  IInv(l)'
<1>f. /\ SInv(Now, InFlight, l) /\ Settled(Now)
      /\ InFlight \in BOOLEAN /\ InFlight' \in BOOLEAN
      /\ Now.core = core /\ Now.irq = irq /\ Now.hw = hw
      /\ Now.cmds = cmds /\ Now.pm = pm
      /\ core \in CoreType /\ irq \in IrqType /\ hw \in HwType
      /\ Resumes(Now) => ~core.wd
  BY Facts, Booleans
<1> USE <1>f
<1>1. ASSUME ThreadRuns PROVE IInv(l)'
  BY <1>1 DEF ThreadRuns, IInv, SInv, SType, IrqType, Now, InFlight, Balanced, Owes,
              HwAgrees, Settled, ThreadAgrees, Threads
<1>2. ASSUME ThreadFindsWatchdog PROVE IInv(l)'
  <2> DEFINE t == Fail(Now)
  <2>1. /\ Becomes(t) /\ UNCHANGED msgs /\ thread = "respond" /\ core.wd
        /\ thread' = "wd_error"
    BY <1>2 DEF ThreadFindsWatchdog
  <2>2. /\ SInv(t, InFlight, l) /\ t.core.state \in {"ERROR", "DEINIT"}
        /\ t.core.state = "DEINIT" <=> core.state = "DEINIT"
        /\ t.core.power = core.power /\ t.core.wd = core.wd
        /\ t.core.loaded = core.loaded /\ t.irq = irq
    BY FailKeeps
  <2> HIDE DEF t
  <2>3. Settled(t)
    BY <2>2 DEF Settled
  <2>4. msgs' \in Seq(Kinds)
    BY <2>1 DEF IInv
  <2>5. QED
    BY <2>1, <2>2, <2>3, <2>4, ThreadStep DEF Threads
<1>3. ASSUME ThreadStartsReading PROVE IInv(l)'
  <2> DEFINE t == Schedule(Now)
  <2>1. /\ Becomes(t) /\ UNCHANGED msgs /\ thread = "respond" /\ ~core.wd
        /\ thread' = "read"
    BY <1>3 DEF ThreadStartsReading
  <2>2. SInv(t, InFlight, l) /\ t.core = core /\ t.irq = irq
    BY TimerKeeps
  <2> HIDE DEF t
  <2>3. Settled(t) /\ msgs' \in Seq(Kinds)
    BY <2>1, <2>2 DEF Settled, IInv
  <2>4. QED
    BY <2>1, <2>2, <2>3, ThreadStep DEF Threads
<1>4. ASSUME ThreadReads PROVE IInv(l)'
  <2> DEFINE c == [core EXCEPT !.state = IF Head(msgs) = "init_done" THEN "INIT"
                                         ELSE core.state]
             t == [Now EXCEPT !.core = c]
  <2>1. /\ thread = "read" /\ Valid(core) /\ msgs # << >>
        /\ msgs' = Tail(msgs) /\ core' = c
        /\ thread' \in {"error", "noc", "read"}
        /\ UNCHANGED <<irq, hw, cmds, pm>>
    BY <1>4 DEF ThreadReads
  <2>2. /\ c \in CoreType /\ c.power = core.power /\ c.wd = core.wd
        /\ c.loaded = core.loaded /\ c.state \in {core.state, "INIT"}
    BY DEF CoreType, CoreStates
  <2>3. ~core.wd
    BY <2>1 DEF IInv, ThreadAgrees
  <2>4. msgs' \in Seq(Kinds)
    BY <2>1 DEF IInv
  <2> HIDE DEF c
  <2>5. SInv(t, InFlight, l) /\ t.core = c /\ t.irq = irq
    BY <2>2, CoreKeeps
  <2>6. Becomes(t)
    BY <2>1 DEF Becomes, Now
  <2> HIDE DEF t
  <2>7. Settled(t)
    BY <2>1, <2>2, <2>3, <2>5 DEF Settled, Valid
  <2>8. QED
    BY <2>1, <2>2, <2>3, <2>4, <2>5, <2>6, <2>7, ThreadStep DEF Threads
<1>5. ASSUME ThreadStops PROVE IInv(l)'
  <2>1. /\ thread = "read" /\ thread' = "quit" /\ UNCHANGED msgs
        /\ Becomes(Now)
    BY <1>5 DEF ThreadStops, Becomes, Now
  <2>2. ~core.wd /\ msgs' \in Seq(Kinds)
    BY <2>1 DEF IInv, ThreadAgrees
  <2>3. QED
    BY <2>1, <2>2, ThreadStep DEF Threads
<1>6. ASSUME ThreadQuits PROVE IInv(l)'
  <2> DEFINE d == IF core.wd THEN irq.depth ELSE IF irq.depth = 0 THEN 0
                  ELSE irq.depth - 1
             i == [irq EXCEPT !.depth = d]
  <2>1. /\ thread = "quit" /\ irq' = i /\ thread' = "idle"
        /\ UNCHANGED <<core, hw, cmds, msgs, pm>>
    BY <1>6 DEF ThreadQuits, Enable
  <2> DEFINE e == (IF core.wd THEN 1 ELSE 0)
                    + (IF ~core.power /\ ~core.wd THEN 1 ELSE 0)
             off == IF ~core.power /\ ~core.wd THEN 1 ELSE 0
  <2>2. InFlight = TRUE /\ irq.depth \in Nat
        /\ irq.depth <= 1 + off /\ (l \/ irq.depth = 1 + off)
    BY <2>1 DEF IInv, SInv, Balanced, Owes, Now, InFlight, SType, IrqType
  <2>3. l \/ ~irq.wake
    BY <2>1 DEF IInv, ThreadAgrees
  <2>4. d \in Nat /\ d <= e /\ (l \/ d = e)
    BY <2>2
  <2> HIDE DEF d
  <2>5. i \in IrqType /\ i.depth = d /\ i.wake = irq.wake
    BY <2>4 DEF IrqType
  <2> HIDE DEF i
  <2>6. (InFlight' <=> irq.wake) /\ irq.wake \in BOOLEAN
    BY <2>1, <2>5 DEF InFlight, IrqType
  <2>7. SType(Now)' /\ HwAgrees(Now)' /\ Settled(Now)'
    BY <2>1, <2>5 DEF IInv, SInv, SType, HwAgrees, Settled, Now
  <2>8. Balanced(Now, InFlight, l)'
    BY <2>1, <2>3, <2>4, <2>5, <2>6 DEF Balanced, Owes, Now
  <2>9. ThreadAgrees(l)'
    BY <2>1, <2>3, <2>5 DEF IInv, ThreadAgrees, Threads
  <2>10. QED
    BY <2>1, <2>5, <2>7, <2>8, <2>9 DEF IInv, SInv, Threads
<1>7. ASSUME NEW r \in Outcomes(Now), NEW h \in Handoffs, ThreadClears(r, h)
      PROVE  IInv(l)'
  <2> DEFINE u == Resume(Now, r, h)
             t == IF ResumeRc(Now, r) THEN Clear(u) ELSE u
  <2>1. /\ Becomes(t) /\ UNCHANGED msgs /\ thread = "woken"
        /\ thread' = IF ResumeRc(Now, r) THEN "respond" ELSE "quit"
    BY <1>7 DEF ThreadClears
  <2>2. InFlight = TRUE /\ msgs' \in Seq(Kinds)
    BY <2>1 DEF IInv, InFlight
  <2>3. /\ SInv(u, InFlight, l) /\ Same(Now, u) /\ u.core.wd = core.wd
        /\ ResumeRc(Now, r) => u.core.power
        /\ u.core.power => core.power \/ (Resumes(Now) /\ r = "ok")
    BY ResumeKeeps, OutcomesFit, HandoffsFit
  <2>4. u.core.power => u.core.loaded /\ u.core.state # "DEINIT"
    BY <2>3, OutcomesFit DEF Same, Settled, Resumes, Valid
  <2> HIDE DEF u
  <2>5. CASE ResumeRc(Now, r)
    <3>1. SInv(t, InFlight, l) /\ Same(u, t) /\ t.core.power
      BY <2>2, <2>3, <2>5, ClearKeeps
    <3> HIDE DEF t
    <3>2. Settled(t) /\ t.irq.wake = irq.wake
      BY <2>3, <2>4, <2>5, <3>1 DEF Settled, Same
    <3>3. QED
      BY <2>1, <2>2, <2>5, <3>1, <3>2, ThreadStep DEF Threads
  <2>6. CASE ~ResumeRc(Now, r)
    <3>1. t = u
      BY <2>6
    <3> HIDE DEF t
    <3>2. SInv(t, InFlight, l) /\ Settled(t) /\ t.irq.wake = irq.wake
      BY <2>2, <2>3, <2>4, <2>6, <3>1 DEF Settled, Same, ResumeRc
    <3>3. QED
      BY <2>1, <2>2, <2>6, <3>2, ThreadStep DEF Threads
  <2>7. QED
    BY <2>5, <2>6
<1>8. ASSUME NEW r \in Outcomes(Now), NEW h \in Handoffs, ThreadDeinits(r, h)
      PROVE  IInv(l)'
  <2> DEFINE t == Deinit(Now, r, h)
  <2>1. /\ Becomes(t) /\ UNCHANGED msgs /\ thread \in {"wd_error", "error"}
        /\ thread' = IF thread = "error" THEN "read" ELSE "quit"
    BY <1>8 DEF ThreadDeinits
  <2>2. /\ msgs' \in Seq(Kinds)
        /\ core.wd => thread = "wd_error" /\ core.state # "INIT_WAIT"
    BY <2>1 DEF IInv, ThreadAgrees
  <2>3. /\ core.state = "INIT_WAIT" => ~core.wd
        /\ core.power => core.loaded
        /\ core.state = "DEINIT" => ~core.power
    BY <2>2 DEF Settled
  <2>4. /\ SInv(t, InFlight, l) /\ Settled(t) /\ t.core.wd = core.wd
        /\ t.irq.wake = irq.wake
    BY <2>3, DeinitKeeps, OutcomesFit, HandoffsFit
  <2> HIDE DEF t
  <2>5. QED
    BY <2>1, <2>2, <2>4, ThreadStep DEF Threads
<1>9. ASSUME NEW r \in Outcomes(Now), NEW h \in Handoffs, ThreadReadsNoc(r, h)
      PROVE  IInv(l)'
  <2> DEFINE u == Resume(Now, r, h)
             t == IF core.state = "DEINIT" THEN Now ELSE u
  <2>1. /\ Becomes(t) /\ UNCHANGED msgs /\ thread = "noc" /\ thread' = "error"
    BY <1>9 DEF ThreadReadsNoc
  <2>2. msgs' \in Seq(Kinds) /\ ~core.wd
    BY <2>1 DEF IInv, ThreadAgrees
  <2>3. /\ SInv(u, InFlight, l) /\ Same(Now, u) /\ u.core.wd = core.wd
        /\ u.core.power => core.power \/ (Resumes(Now) /\ r = "ok")
    BY ResumeKeeps, OutcomesFit, HandoffsFit
  <2>4. u.core.power => u.core.loaded /\ u.core.state # "DEINIT"
    BY <2>3, OutcomesFit DEF Same, Settled, Resumes, Valid
  <2>5. Settled(u)
    BY <2>2, <2>3, <2>4 DEF Settled
  <2> HIDE DEF u
  <2>6. /\ SInv(t, InFlight, l) /\ Settled(t) /\ ~t.core.wd
        /\ t.irq.wake = irq.wake
    BY <2>2, <2>3, <2>5 DEF Same
  <2> HIDE DEF t
  <2>7. QED
    BY <2>1, <2>2, <2>6, ThreadStep DEF Threads
<1>10. QED
  BY <1>1, <1>2, <1>3, <1>4, <1>5, <1>6, <1>7, <1>8, <1>9 DEF Thread

LEMMA HardIrqStep ==
  ASSUME NEW l \in BOOLEAN, IInv(l), HardIrq
  PROVE  IInv(l)'
<1>1. /\ irq.depth = 0 /\ irq' = [depth |-> 1, wake |-> TRUE]
      /\ UNCHANGED <<core, hw, cmds, msgs, pm, thread>>
  BY DEF HardIrq
<1>2. l \/ (~InFlight /\ ~core.wd /\ core.power)
  BY <1>1, Facts DEF SInv, Balanced, Owes, CoreType
<1>3. QED
  BY <1>1, <1>2 DEF IInv, SInv, SType, IrqType, Now, InFlight, Balanced, Owes,
                    HwAgrees, Settled, ThreadAgrees

\* The firmware moves only the queues, its state and the line.
LEMMA FirmwareStep ==
  ASSUME NEW l \in BOOLEAN, IInv(l), UNCHANGED <<core, irq, pm, thread>>,
         cmds' \in CmdType, msgs' \in Seq(Kinds), hw' \in HwType,
         HwAgrees(Now)'
  PROVE  IInv(l)'
BY DEF IInv, SInv, SType, Now, InFlight, Balanced, Owes, Settled, ThreadAgrees

LEMMA FirmwareSteps ==
  ASSUME NEW l \in BOOLEAN, IInv(l), Firmware
  PROVE  IInv(l)'
<1>f. /\ SInv(Now, InFlight, l) /\ Settled(Now)
      /\ InFlight \in BOOLEAN /\ InFlight' \in BOOLEAN
      /\ Now.core = core /\ Now.irq = irq /\ Now.hw = hw
      /\ Now.cmds = cmds /\ Now.pm = pm
      /\ core \in CoreType /\ irq \in IrqType /\ hw \in HwType
      /\ Resumes(Now) => ~core.wd
  BY Facts, Booleans
<1> USE <1>f
<1>1. cmds \in CmdType /\ msgs \in Seq(Kinds)
  BY DEF IInv, SInv, SType, Now
<1>2. hw.fw = "run" => core.power
  BY DEF SInv, HwAgrees, CoreType
<1>3. CASE FwAnswers
  <2>1. /\ hw.fw = "run" /\ cmds # << >> /\ cmds' = Tail(cmds)
        /\ hw' = [hw EXCEPT !.line = hw.line \cup {"A2H"}]
        /\ \E m \in Kinds : msgs' = Append(msgs, m)
        /\ UNCHANGED <<core, irq, pm, thread>>
    BY <1>3 DEF FwAnswers, Send, Kinds
  <2>2. cmds' \in CmdType /\ msgs' \in Seq(Kinds)
    BY <1>1, <2>1 DEF CmdType
  <2>3. /\ hw' \in HwType /\ hw'.fw = hw.fw /\ hw'.line = hw.line \cup {"A2H"}
    BY <2>1 DEF HwType
  <2>4. HwAgrees(Now)'
    BY <1>2, <2>1, <2>3 DEF SInv, HwAgrees, Now
  <2>5. QED
    BY <2>1, <2>2, <2>3, <2>4, FirmwareStep
<1>4. CASE FwFails
  <2>1. /\ hw.fw = "run" /\ UNCHANGED cmds
        /\ hw' = [fw |-> "hung", line |-> hw.line \cup {"A2H"}]
        /\ \E m \in Kinds : msgs' = Append(msgs, m)
        /\ UNCHANGED <<core, irq, pm, thread>>
    BY <1>4 DEF FwFails, Send, Kinds
  <2>2. msgs' \in Seq(Kinds)
    BY <1>1, <2>1
  <2>3. /\ hw' \in HwType /\ hw'.fw = "hung" /\ hw'.line = hw.line \cup {"A2H"}
    BY <2>1 DEF HwType
  <2>4. HwAgrees(Now)'
    BY <1>2, <2>1, <2>3 DEF SInv, HwAgrees, Now
  <2>5. QED
    BY <1>1, <2>1, <2>2, <2>3, <2>4, FirmwareStep
<1>5. CASE FwHangs \/ FwBarks
  <2>1. /\ hw.fw = "run" /\ UNCHANGED <<core, irq, cmds, msgs, pm, thread>>
        /\ \/ hw' = [hw EXCEPT !.fw = "hung"]
           \/ hw' = [fw |-> "hung", line |-> hw.line \cup {"A2HWD"}]
    BY <1>5 DEF FwHangs, FwBarks
  <2>2. hw' \in HwType /\ hw'.fw = "hung"
    BY <2>1 DEF HwType
  <2>3. HwAgrees(Now)'
    BY <1>2, <2>1, <2>2 DEF SInv, HwAgrees, Now
  <2>4. QED
    BY <1>1, <2>1, <2>2, <2>3, FirmwareStep
<1>6. QED
  BY <1>3, <1>4, <1>5 DEF Firmware

-----------------------------------------------------------------------------
\* The history: what a crossing leaves is over once the core rests powered.
LEMMA NextKeepsInv ==
  ASSUME Flagged, Inv, [Next]_vars
  PROVE  Inv'
<1>1. CASE UNCHANGED vars
  BY <1>1 DEF vars, Inv, IInv, SInv, SType, Now, InFlight, Balanced, Owes,
              HwAgrees, Settled, ThreadAgrees
<1>2. CASE Next
  <2>1. PICK l \in BOOLEAN : l <=> (crossed \/ Crosses)
    OBVIOUS
  <2>2. Steps /\ crossed' \in BOOLEAN /\ (crossed' <=> l /\ ~Resting')
    BY <1>2, <2>1 DEF Next, Record
  <2>3. IInv(l) /\ (Crosses => l)
    BY <2>1 DEF Inv, IInv, SInv, Balanced, ThreadAgrees
  <2>4. IInv(l)'
    BY <2>2, <2>3, HardIrqStep, ThreadSteps, PmSteps, ClientSteps, FirmwareSteps
    DEF Steps
  <2>5. CASE Resting'
    <3>1. IInv(FALSE)'
      BY <2>4, <2>5 DEF Resting, IInv, SInv, SType, IrqType, Balanced, Owes,
                        ThreadAgrees, Now, InFlight
    <3> QED
      BY <2>2, <2>5, <3>1 DEF Inv
  <2>6. CASE ~Resting'
    <3>1. crossed' = l
      BY <2>2, <2>6
    <3> QED
      BY <2>4, <3>1 DEF Inv, IInv, SInv, Balanced, ThreadAgrees
  <2> QED
    BY <2>5, <2>6
<1>3. QED
  BY <1>1, <1>2

(***************************************************************************)
(* Which steps turn the power off and leave the core up.                   *)
(***************************************************************************)
\* A collapse that succeeds asked a firmware without commands.
LEMMA CollapseStrandsNothing ==
  ASSUME Flagged, NEW s, NEW b \in BOOLEAN, NEW l \in BOOLEAN,
         SInv(s, b, l), s.core.power, NEW a, NEW f
  PROVE  LET t == Collapse(s, a, f) IN t.core.power \/ t.cmds = << >>
<1> DEFINE p == PreparePc(s, a)
           t == Collapse(s, a, f)
<1>1. SInv(p, b, l) /\ p.core = s.core
  BY PreparePcKeeps
<1>2. p.cmds = s.cmds
  BY DEF PreparePc, Schedule, SInv, SType
<1>3. CASE CollapseRc(s, a, f) = "ok"
  <2>1. Prepared(s, a) /\ t = PowerOff(p)
    BY <1>3 DEF CollapseRc, Collapse
  <2>2. s.cmds = << >>
    BY <2>1 DEF Prepared, IdleFw, SInv, HwAgrees
  <2> HIDE DEF p
  <2>3. PowerOff(p).cmds = p.cmds
    BY <1>1 DEF PowerOff, SInv, SType
  <2> QED
    BY <1>2, <2>1, <2>2, <2>3
<1>4. CASE CollapseRc(s, a, f) # "ok"
  BY <1>1, <1>4 DEF Collapse
<1> QED
  BY <1>3, <1>4

\* What follows a try keeps the power and the commands.
LEMMA AfterTryMoves ==
  ASSUME NEW s, SType(s), NEW rc
  PROVE  LET t == Done(AfterTry(s, rc))
         IN t.core.power = s.core.power /\ t.cmds = s.cmds
BY DEF SType, CoreType, PmType, Done, AfterTry, Cancel, Schedule

\* Only a collapse turns a core off that stays in INIT: every other step that
\* touches the power ends a deinit.
LEMMA StepStrandsNothing ==
  ASSUME Flagged, NEW l \in BOOLEAN, IInv(l), Steps
  PROVE  core.power /\ ~core'.power /\ core'.loaded /\ core'.state = "INIT"
           => cmds' = << >>
<1> SUFFICES ASSUME core.power, ~core'.power, core'.state = "INIT"
             PROVE  cmds' = << >>
  OBVIOUS
<1>f. /\ SInv(Now, InFlight, l) /\ Settled(Now)
      /\ InFlight \in BOOLEAN /\ InFlight' \in BOOLEAN
      /\ Now.core = core /\ Now.irq = irq /\ Now.hw = hw
      /\ Now.cmds = cmds /\ Now.pm = pm
      /\ core \in CoreType /\ irq \in IrqType /\ hw \in HwType
      /\ Resumes(Now) => ~core.wd
  BY Facts, Booleans
<1> USE <1>f
<1>p. Now.core = core /\ Now.irq = irq /\ Now.cmds = cmds
  BY DEF Now
<1>l. core.power /\ core.loaded /\ core.state # "DEINIT"
  BY <1>p DEF Settled
\* Steps that do not touch the power, and those that end in a deinit.
<1>k. ASSUME core'.power = core.power PROVE FALSE
  BY <1>k
<1>d. ASSUME NEW r \in Faults \cup {"ok"}, NEW h \in BOOLEAN, NEW s,
             SInv(s, InFlight, l), s.core.power => s.core.loaded, s.core.power,
             s.core.state # "DEINIT", s.core.state = "INIT_WAIT" => ~s.core.wd,
             r = "ok" => s.core.loaded \/ ~Valid(s.core)
      PROVE  Deinit(s, r, h).core.state # "INIT"
  BY <1>d, DeinitKeeps DEF Resumes
<1>1. CASE HardIrq
  BY <1>1, <1>k DEF HardIrq
<1>2. CASE Firmware
  BY <1>2, <1>k DEF Firmware, FwAnswers, FwFails, FwHangs, FwBarks, Send
<1>3. CASE PmStarts
  BY <1>3, <1>k DEF PmStarts
<1>4. CASE PmWork
  <2>1. CASE PmGivesUp
    <3> DEFINE z == Skips(Now, 0)
               u == Deinit(Fail(z), "ok", FALSE)
    <3>1. core' = Done(u).core
      BY <2>1 DEF PmGivesUp, Becomes, Skips
    <3>2. 0 \in 0..MaxSkip
      BY PowerAssumption
    <3>3. /\ SInv(z, InFlight, l) /\ Settled(z) /\ z.core.wd = core.wd /\ z.irq = irq
          /\ z.core.state = core.state /\ z.core.power = core.power
      <4>1. /\ SInv(z, InFlight, l) /\ Settled(z)
            /\ z.core.wd = Now.core.wd /\ z.irq = Now.irq
            /\ z.core.state = Now.core.state /\ z.core.power = Now.core.power
        <5>1. SInv(Now, InFlight, l) /\ Settled(Now) /\ InFlight \in BOOLEAN
          OBVIOUS
        <5> QED
          BY ONLY <3>2, <5>1, l \in BOOLEAN, SkipKeeps
      <4> QED
        BY <4>1
    <3> HIDE DEF z
    <3>4. /\ SInv(u, InFlight, l) /\ Settled(u) /\ u.core.wd = core.wd
          /\ u.irq.wake = irq.wake /\ u.core.state = "DEINIT"
      BY <3>3, FailDeinitKeeps DEF Settled
    <3> HIDE DEF u
    <3> QED
      BY <3>1, <3>4, DoneKeeps
  <2>2. CASE PmFindsDeinit
    BY <2>2, <1>l DEF PmFindsDeinit
  <2>3. ASSUME NEW a \in Answers, NEW f \in Suspends, PmTries(a, f)
        PROVE  cmds' = << >>
    <3> DEFINE c == Collapse(Now, a, f)
               t == Done(AfterTry(c, CollapseRc(Now, a, f)))
    <3>1. core' = t.core /\ cmds' = t.cmds
      BY <2>3 DEF PmTries, Becomes
    <3>2. c.core.power \/ c.cmds = << >>
      BY <1>p, CollapseStrandsNothing
    <3>3. SType(c)
      BY CollapseKeeps DEF SInv
    <3> HIDE DEF c
    <3> QED
      BY <3>1, <3>2, <3>3, AfterTryMoves
  <2> QED
    BY <1>4, <2>1, <2>2, <2>3 DEF PmWork
<1>5. CASE Thread
  <2>1. CASE ThreadRuns \/ ThreadStops \/ ThreadQuits
    BY <2>1, <1>k DEF ThreadRuns, ThreadStops, ThreadQuits
  <2>2. CASE ThreadFindsWatchdog
    <3> DEFINE t == Fail(Now)
    <3>1. core' = t.core
      BY <2>2 DEF ThreadFindsWatchdog, Becomes
    <3>2. t.core.power = core.power
      BY <1>p DEF Fail, SInv, SType, CoreType
    <3> QED
      BY <1>k, <3>1, <3>2
  <2>3. CASE ThreadStartsReading
    <3>1. core' = Schedule(Now).core
      BY <2>3 DEF ThreadStartsReading, Becomes
    <3> QED
      BY <1>p, <1>k, <3>1, TimerKeeps
  <2>4. CASE ThreadReads
    <3>1. core'.power = core.power
      BY <2>4 DEF ThreadReads, CoreType
    <3> QED
      BY <3>1
  <2>5. ASSUME NEW r \in Outcomes(Now), NEW h \in Handoffs PROVE Resume(Now, r, h) = Now
    BY <1>p DEF Resume, Resumes
  <2>6. ASSUME NEW r \in Outcomes(Now), NEW h \in Handoffs, ThreadClears(r, h)
        PROVE  FALSE
    <3>1. core' = Clear(Now).core
      BY <2>5, <2>6, <1>p DEF ThreadClears, Becomes, ResumeRc
    <3>2. thread # "idle"
      BY <2>6 DEF ThreadClears
    <3>3. Clear(Now).core.power = core.power
      BY <1>p DEF Clear, SInv, SType, CoreType
    <3> QED
      BY <1>k, <3>1, <3>3
  <2>7. ASSUME NEW r \in Outcomes(Now), NEW h \in Handoffs, ThreadDeinits(r, h)
        PROVE  FALSE
    <3>1. core' = Deinit(Now, r, h).core
      BY <2>7 DEF ThreadDeinits, Becomes
    <3>2. core.state = "INIT_WAIT" => ~core.wd
      BY <2>7 DEF ThreadDeinits, IInv, ThreadAgrees
    <3> QED
      BY <1>p, <1>l, <1>d, <3>1, <3>2, OutcomesFit, HandoffsFit
  <2>8. ASSUME NEW r \in Outcomes(Now), NEW h \in Handoffs, ThreadReadsNoc(r, h)
        PROVE  FALSE
    <3>1. core' = core
      BY <2>5, <2>8, <1>p DEF ThreadReadsNoc, Becomes
    <3> QED
      BY <3>1
  <2> QED
    BY <1>5, <2>1, <2>2, <2>3, <2>4, <2>6, <2>7, <2>8 DEF Thread
<1>6. CASE Client
  <2>1. CASE CoreInitFails \/ \E h \in Handoffs : CoreInit(h)
    BY <2>1, <1>l DEF CoreInitFails, CoreInit
  <2>2. CASE CoreInitTimesOut
    <3> DEFINE t == Deinit(Fail(Now), "ok", FALSE)
    <3>1. core' = t.core
      BY <2>2 DEF CoreInitTimesOut, Becomes
    <3>2. /\ SInv(t, InFlight, l) /\ Settled(t) /\ t.core.wd = core.wd
          /\ t.core.skip = core.skip /\ t.irq.wake = irq.wake
          /\ t.core.state = "DEINIT"
      BY FailDeinitKeeps DEF Settled
    <3> HIDE DEF t
    <3> QED
      BY <3>1, <3>2
  <2>3. ASSUME NEW r \in Outcomes(Now), NEW h \in Handoffs, ForceDeinit(r, h)
        PROVE  FALSE
    <3>1. core' = Deinit(Now, r, h).core /\ core.state \in {"INIT", "ERROR"}
      BY <2>3 DEF ForceDeinit, Becomes
    <3> QED
      BY <1>p, <1>l, <1>d, <3>1, OutcomesFit, HandoffsFit
  <2>4. ASSUME NEW r \in Outcomes(Now), NEW h \in Handoffs, Command(r, h)
        PROVE  FALSE
    <3>1. Resume(Now, r, h) = Now
      BY <1>p DEF Resume, Resumes
    <3>2. core' \in {Now.core, Write(Now, "cmd").core}
      BY <2>4, <3>1 DEF Command, Becomes
    <3>3. Write(Now, "cmd").core = core
      BY <1>p, WriteKeeps
    <3> QED
      BY <1>p, <3>2, <3>3
  <2>5. ASSUME NEW a \in Answers, NEW f \in Suspends, SystemSuspend(a, f)
        PROVE  cmds' = << >>
    <3> DEFINE c == Collapse(Now, a, f)
    <3>1. \E t \in {c, Cancel(c)} : core' = t.core /\ cmds' = t.cmds
      BY <2>5 DEF SystemSuspend, Becomes
    <3>2. c.core.power \/ c.cmds = << >>
      BY <1>p, CollapseStrandsNothing
    <3>3. SType(c)
      BY CollapseKeeps DEF SInv
    <3> HIDE DEF c
    <3> QED
      BY <3>1, <3>2, <3>3 DEF SType, Cancel
  <2> QED
    BY <1>6, <2>1, <2>2, <2>3, <2>4, <2>5 DEF Client
<1> QED
  BY <1>1, <1>2, <1>3, <1>4, <1>5, <1>6 DEF Steps

LEMMA Inductive == Flagged => (Spec => []Inv)
<1> SUFFICES ASSUME Flagged PROVE Spec => []Inv
  OBVIOUS
<1>1. Init => Inv
  BY InitIInv
<1>2. Inv /\ [Next]_vars => Inv'
  BY NextKeepsInv
<1>3. QED
  BY <1>1, <1>2, PTL DEF Spec

(* The types hold, for every bound of the queues and of the tries and for  *)
(* every set of events.                                                    *)
THEOREM TypeCorrect == Flagged => (Spec => []TypeOK)
<1> SUFFICES ASSUME Flagged PROVE Spec => []TypeOK
  OBVIOUS
<1>1. Inv => TypeOK
  BY DEF Inv, IInv, SInv, SType, Now, CoreType, IrqType, HwType, CmdType,
         PmType, TypeOK
<1>2. QED
  BY <1>1, Inductive, PTL

(* No order of commands, collapses, boots, deinits and interrupts takes a  *)
(* disable of the line that is not owed, so none leaves a core that is on  *)
(* deaf; and each that is owed is taken, unless a boot took the watchdog's *)
(* bit from its interrupt and the core has not rested powered since        *)
(* (power_on, power_off, venus_hfi_isr, venus_hfi_isr_handler).            *)
THEOREM LineIsBalanced == Flagged => (Spec => []IrqBalance)
<1> SUFFICES ASSUME Flagged PROVE Spec => []IrqBalance
  OBVIOUS
<1>1. Inv => IrqBalance
  BY DEF Inv, IInv, SInv, Balanced, Owes, Now, Owed, IrqBalance
<1>2. QED
  BY <1>1, Inductive, PTL

(* Whatever is powered has its firmware loaded and a core that will take   *)
(* it down: no path of a deinit forgets the power (__unload_fw, __resume). *)
THEOREM PowerIsOwned == Flagged => (Spec => []PoweredIsLoaded)
<1> SUFFICES ASSUME Flagged PROVE Spec => []PoweredIsLoaded
  OBVIOUS
<1>1. Inv => PoweredIsLoaded
  BY DEF Inv, IInv, Settled, Now, PoweredIsLoaded
<1>2. QED
  BY <1>1, Inductive, PTL

(* A collapse strands nothing: no order of commands, interrupts and works  *)
(* switches off a core that stays up while a command waits for its         *)
(* firmware (__power_collapse, prepare_pc, __cmdq_write).                  *)
THEOREM NothingIsStranded == Flagged => (Spec => NothingStranded)
<1> SUFFICES ASSUME Flagged PROVE Spec => NothingStranded
  OBVIOUS
<1>1. Inv /\ [Next]_vars
        => [core.power /\ ~core'.power /\ core'.loaded /\ core'.state = "INIT"
              => cmds' = << >>]_vars
  BY StepStrandsNothing DEF Inv, Next
<1>2. QED
  BY <1>1, Inductive, PTL DEF Spec, NothingStranded
=============================================================================
