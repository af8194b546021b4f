----------------------------- MODULE CoreProofs -----------------------------
(***************************************************************************)
(* What the threads of the core never do to its lists, its state, its      *)
(* references and what the firmware knows, for any number of sessions and  *)
(* any events.  Three invariants, each with what it needs to be inductive: *)
(*   IInv   the lists and the waits; a session that waits for the core is  *)
(*          known to its client alone;                                     *)
(*   AInv   the types and the references, with an account per session;     *)
(*   FInv   the boot and the sessions the firmware will have met once it   *)
(*          has read the commands before a given one.                      *)
(***************************************************************************)
EXTENDS Core, SequenceTheorems, TLAPS

Labelled == pc \in [Inst -> Labels] /\ core \in CoreStates

PrivateUntilAdded ==
  \A i \in Inst : pc[i] \in {"wait", "rewait", "add"} => i \notin alloc

IInv == Labelled /\ ListsAreSound /\ SomeoneWaits /\ PrivateUntilAdded

\* What a deinit does to the lists and the state of the core.
LEMMA DeinitSound ==
  ASSUME NEW e \in BOOLEAN, Deinit(e), Labelled, ListsAreSound
  PROVE  /\ core' \in CoreStates
         /\ core' = "INIT_WAIT" => core = "INIT_WAIT" /\ ~e
         /\ listed' # {} => core' \in {"INIT", "ERROR"}
         /\ listed' \cap dangling' = {}
         /\ listed' \cup dangling' \subseteq alloc
BY DEF Deinit, Labelled, ListsAreSound, CoreStates, lists

\* A step that moves no list and no core keeps the invariant, when the client
\* it moves neither stops waiting nor enters the wait of a session in use.
LEMMA ClientStep ==
  ASSUME IInv, UNCHANGED <<core, listed, dangling, alloc>>,
         NEW i \in Inst, NEW l \in Labels \ {"wait", "rewait", "add"},
         pc[i] \notin {"wait", "rewait"},
         pc' = [pc EXCEPT ![i] = l]
  PROVE  IInv'
BY DEF IInv, Labelled, ListsAreSound, SomeoneWaits, PrivateUntilAdded, Waits

\* The same for a step that moves no client.
LEMMA OtherStep ==
  ASSUME IInv, UNCHANGED <<core, listed, dangling, alloc, pc>>
  PROVE  IInv'
BY DEF IInv, Labelled, ListsAreSound, SomeoneWaits, PrivateUntilAdded, Waits

LEMMA InitIInv == Init => IInv
BY DEF Init, IInv, Labelled, ListsAreSound, SomeoneWaits, PrivateUntilAdded,
       Labels, CoreStates

\* A deinit that moves no client keeps the invariant.
LEMMA DeinitStep ==
  ASSUME IInv, NEW e \in BOOLEAN, Deinit(e), UNCHANGED <<alloc, pc>>
  PROVE  IInv'
<1>1. /\ core' \in CoreStates
      /\ core' = "INIT_WAIT" => core = "INIT_WAIT"
      /\ ListsAreSound'
  BY DeinitSound DEF IInv, ListsAreSound
<1>2. SomeoneWaits'
  BY <1>1 DEF IInv, SomeoneWaits, Waits
<1>3. QED
  BY <1>1, <1>2 DEF IInv, Labelled, PrivateUntilAdded

-----------------------------------------------------------------------------
LEMMA OpenSteps ==
  ASSUME IInv, NEW i \in Inst, Open(i) \/ Opens(i)
  PROVE  IInv'
<1> USE DEF lists, mem, client, Goto
<1>1. CASE OpenFindsCore(i)
  BY <1>1 DEF OpenFindsCore, Fresh, IInv, Labelled, ListsAreSound, SomeoneWaits,
              PrivateUntilAdded, Waits, Labels
<1>2. CASE OpenBoots(i)
  <2>1. /\ core' = "INIT_WAIT" /\ UNCHANGED <<listed, dangling, alloc>>
        /\ i \notin alloc /\ listed = {}
    BY <1>2 DEF OpenBoots, Fresh, IInv, ListsAreSound
  <2>2. /\ pc' \in [Inst -> Labels] /\ pc'[i] = "wait"
        /\ \A j \in Inst : pc'[j] \in {"wait", "rewait", "add"}
             => j = i \/ pc[j] \in {"wait", "add", "rewait"}
    <3>1. pc' = [j \in Inst |-> IF j = i THEN "wait"
                               ELSE IF pc[j] = "wait" THEN "rewait" ELSE pc[j]]
      BY <1>2 DEF OpenBoots
    <3>2. QED
      BY <3>1 DEF IInv, Labelled, Labels
  <2>3. QED
    BY <2>1, <2>2 DEF IInv, Labelled, ListsAreSound, SomeoneWaits,
                      PrivateUntilAdded, Waits, CoreStates
<1>3. CASE OpenBootFails(i)
  BY <1>3, OtherStep DEF OpenBootFails
<1>4. CASE SessionOpenFails(i) \/ OpenFails(i)
  BY <1>4, ClientStep DEF SessionOpenFails, OpenFails, Labels
<1>5. CASE OpenWaited(i)
  BY <1>5 DEF OpenWaited, IInv, Labelled, ListsAreSound, SomeoneWaits,
              PrivateUntilAdded, Waits, Labels
<1>6. CASE OpenTimesOut(i)
  <2>1. Deinit(TRUE) /\ UNCHANGED alloc /\ pc' = [pc EXCEPT ![i] = "closed"]
    BY <1>6 DEF OpenTimesOut, TimeoutIsError
  <2>2. core' \in CoreStates /\ core' # "INIT_WAIT" /\ ListsAreSound'
    BY <2>1, DeinitSound DEF IInv, ListsAreSound
  <2>3. QED
    BY <2>1, <2>2 DEF IInv, Labelled, SomeoneWaits, PrivateUntilAdded, Labels
<1>7. CASE AddSession(i)
  <2>1. CASE core = "INIT"
    <3>1. /\ pc[i] = "add" /\ listed' = listed \cup {i}
          /\ alloc' = alloc \cup {i} /\ pc' = [pc EXCEPT ![i] = "added"]
          /\ UNCHANGED <<core, dangling>>
      BY <1>7, <2>1 DEF AddSession, AddsOnlyInInit
    <3>2. i \notin dangling
      BY <3>1 DEF IInv, PrivateUntilAdded, ListsAreSound
    <3>3. QED
      BY <2>1, <3>1, <3>2 DEF IInv, Labelled, ListsAreSound, SomeoneWaits,
                              PrivateUntilAdded, Labels
  <2>2. CASE core # "INIT"
    BY <1>7, <2>2, ClientStep DEF AddSession, AddsOnlyInInit, Labels
  <2>3. QED
    BY <2>1, <2>2
<1>8. CASE SessionOpen(i)
  BY <1>8, ClientStep DEF SessionOpen, Labels
<1>9. CASE OpenForcesDeinit(i)
  <2>1. /\ pc[i] = "force" /\ Deinit(FALSE) /\ UNCHANGED alloc
        /\ pc' = [pc EXCEPT ![i] = "undo"]
    BY <1>9 DEF OpenForcesDeinit
  <2>2. /\ core' \in CoreStates /\ ListsAreSound'
        /\ core' = "INIT_WAIT" => core = "INIT_WAIT"
    BY <2>1, DeinitSound DEF IInv, ListsAreSound
  <2>3. QED
    BY <2>1, <2>2 DEF IInv, Labelled, SomeoneWaits, PrivateUntilAdded, Waits,
                      Labels
<1>10. QED
  BY <1>1, <1>2, <1>3, <1>4, <1>5, <1>6, <1>7, <1>8, <1>9 DEF Open, Opens

LEMMA UseSteps ==
  ASSUME IInv, NEW i \in Inst, Ioctl(i) \/ CloseSends(i) \/ Close(i)
  PROVE  IInv'
<1> USE DEF lists, mem, client, Goto
<1>1. CASE Ioctl(i)
  BY <1>1, ClientStep DEF Ioctl, IoctlSends, IoctlUpdates, Labels
<1>2. CASE CloseSends(i)
  BY <1>2, ClientStep DEF CloseSends, Labels
<1>3. CASE CloseTimesOut(i)
  <2>1. /\ pc[i] = "closing" /\ UNCHANGED alloc
        /\ pc' = [pc EXCEPT ![i] = "finish"]
        /\ Deinit(TRUE) \/ UNCHANGED <<core, listed, dangling>>
    BY <1>3 DEF CloseTimesOut
  <2>2. /\ core' \in CoreStates /\ ListsAreSound'
        /\ core' = "INIT_WAIT" => core = "INIT_WAIT"
    BY <2>1, DeinitSound DEF IInv, ListsAreSound, Labelled
  <2>3. QED
    BY <2>1, <2>2 DEF IInv, Labelled, SomeoneWaits, PrivateUntilAdded, Waits,
                      Labels
<1>4. CASE CloseAnswered(i) \/ CloseFinishes(i) \/ ClosePuts(i)
             \/ CloseSchedules(i)
  <2>1. CASE CloseAnswered(i)
    BY <2>1, ClientStep DEF CloseAnswered, Labels
  <2>2. CASE CloseFinishes(i)
    BY <2>2, ClientStep DEF CloseFinishes, Labels
  <2>3. CASE ClosePuts(i)
    BY <2>3, ClientStep DEF ClosePuts, Labels
  <2>4. CASE CloseSchedules(i)
    BY <2>4, ClientStep DEF CloseSchedules, Labels
  <2>5. QED
    BY <1>4, <2>1, <2>2, <2>3, <2>4
<1>5. QED
  BY <1>1, <1>2, <1>3, <1>4 DEF Close

LEMMA ReapSteps ==
  ASSUME IInv, NEW i \in Inst, Reap(i)
  PROVE  IInv'
<1> USE DEF lists, mem, client, Goto
<1>1. CASE Unlist(i)
  BY <1>1 DEF Unlist, IInv, Labelled, ListsAreSound, SomeoneWaits,
              PrivateUntilAdded, Waits
<1>2. CASE Free(i)
  <2>1. /\ i \notin listed /\ UNCHANGED <<core, listed>>
        /\ dangling' = dangling \ {i} /\ alloc' = alloc \ {i}
    BY <1>2 DEF Free
  <2>2. CASE pc[i] = "undo"
    <3>1. pc' = [pc EXCEPT ![i] = "closed"]
      BY <1>2, <2>2 DEF Free
    <3>2. QED
      BY <2>1, <2>2, <3>1 DEF IInv, Labelled, ListsAreSound, SomeoneWaits,
                              PrivateUntilAdded, Waits, Labels
  <2>3. CASE pc[i] # "undo"
    <3>1. pc' = pc
      BY <1>2, <2>3 DEF Free
    <3>2. QED
      BY <2>1, <3>1 DEF IInv, Labelled, ListsAreSound, SomeoneWaits,
                        PrivateUntilAdded, Waits
  <2>4. QED
    BY <2>2, <2>3
<1>3. QED
  BY <1>1, <1>2 DEF Reap

LEMMA IrqSteps ==
  ASSUME IInv, Irq
  PROVE  IInv'
<1> USE DEF lists, mem, client
<1>1. CASE IrqWatchdog
  BY <1>1 DEF IrqWatchdog, Valid, IInv, Labelled, ListsAreSound, SomeoneWaits,
              PrivateUntilAdded, Waits, CoreStates
<1>2. CASE IrqWatchdogDeinit
  BY <1>2, DeinitStep DEF IrqWatchdogDeinit
<1>3. CASE IrqSysInit
  BY <1>3 DEF IrqSysInit, IInv, Labelled, ListsAreSound, SomeoneWaits,
              PrivateUntilAdded, Waits, CoreStates
<1>4. CASE IrqSysError
  BY <1>4, DeinitStep DEF IrqSysError
<1>5. CASE IrqCaches \/ IrqReads \/ IrqDrained \/ IrqReturns
  BY <1>5, OtherStep DEF IrqCaches, IrqReads, IrqDrained, IrqReturns
<1>6. CASE \E i \in Inst : IrqCloseDone(i) \/ IrqPuts(i)
  BY <1>6, OtherStep DEF IrqCloseDone, IrqPuts
<1>7. QED
  BY <1>1, <1>2, <1>3, <1>4, <1>5, <1>6 DEF Irq

LEMMA OtherSteps ==
  ASSUME IInv, \/ UnloadWork \/ PmWorkGivesUp \/ PmFreeze \/ FwAnswers \/ FwBreaks
               \/ \E i \in Inst : FaultTakes(i) \/ FaultPuts(i)
  PROVE  IInv'
<1> USE DEF lists, mem, client
<1>1. CASE UnloadWork
  <2>1. CASE listed = {}
    BY <1>1, <2>1, DeinitStep DEF UnloadWork
  <2>2. CASE listed # {}
    BY <1>1, <2>2, OtherStep DEF UnloadWork
  <2>3. QED
    BY <2>1, <2>2
<1>2. CASE PmWorkGivesUp \/ PmFreeze
  BY <1>2, DeinitStep DEF PmWorkGivesUp, PmFreeze
<1>3. CASE FwAnswers \/ FwBreaks
  BY <1>3, OtherStep DEF FwAnswers, FwBreaks
<1>4. CASE \E i \in Inst : FaultTakes(i) \/ FaultPuts(i)
  BY <1>4, OtherStep DEF FaultTakes, FaultPuts
<1>5. QED
  BY <1>1, <1>2, <1>3, <1>4

LEMMA NextIInv == IInv /\ [Next]_vars => IInv'
<1> SUFFICES ASSUME IInv, [Next]_vars PROVE IInv'
  OBVIOUS
<1>1. CASE UNCHANGED vars
  BY <1>1, OtherStep DEF vars, lists, mem, client
<1>2. CASE Next
  BY <1>2, OpenSteps, UseSteps, ReapSteps, IrqSteps, OtherSteps DEF Next
<1>3. QED
  BY <1>1, <1>2

THEOREM Invariance == Spec => []IInv
BY InitIInv, NextIInv, PTL DEF Spec

(***************************************************************************)
(* Whoever moves a session between the lists or frees it (its client, the  *)
(* interrupt thread, a deinit by any thread), the lists stay disjoint,     *)
(* hold only allocated sessions, and are filled only over a core that is   *)
(* up or failing.                                                          *)
(***************************************************************************)
THEOREM ListsStaySound == Spec => []ListsAreSound
<1>1. IInv => ListsAreSound
  BY DEF IInv
<1>2. QED
  BY <1>1, Invariance, PTL

(***************************************************************************)
(* However opens, timeouts and deinits interleave, INIT_WAIT is never left *)
(* behind without an open that will time it out.                           *)
(***************************************************************************)
THEOREM SomeoneAlwaysWaits == Spec => []SomeoneWaits
<1>1. IInv => SomeoneWaits
  BY DEF IInv
<1>2. QED
  BY <1>1, Invariance, PTL

-----------------------------------------------------------------------------
(***************************************************************************)
(* The types of the variables and the account of the references.  The      *)
(* count is a natural number only because nobody puts what it does not     *)
(* hold, so the two are proved together.  An account says more than        *)
(* HoldersAgree:                                                           *)
(*   - a session that waits for the core is in nobody's hands, and one     *)
(*     that is used is allocated;                                          *)
(*   - a session that an open freed under the interrupt thread keeps a     *)
(*     count its put does not bring to 0;                                  *)
(*   - a session is torn down once nobody holds it, or after an open that  *)
(*     fails, and then only while it is allocated;                         *)
(*   - the interrupt thread holds nothing between two of its runs, and the *)
(*     page fault handler one session at most.                             *)
(***************************************************************************)
Using == {"added", "open", "update", "closing", "finish", "put", "force", "undo"}
One(c) == IF c THEN 1 ELSE 0

Accounted(i) ==
  /\ pc[i] \in {"wait", "rewait", "add"} => i \notin alloc \cup irq.held \cup fault
  /\ pc[i] \in Using => i \in alloc
  /\ i \in alloc => ref[i] = One(pc[i] \notin {"closed", "schedule"})
                               + One(i \in irq.held) + One(i \in fault)
  /\ i \in irq.held /\ i \notin alloc => ref[i] >= 2
  /\ reap[i] # "none" => i \in alloc /\ (pc[i] = "undo" \/ ref[i] = 0)
  /\ i \in alloc /\ ref[i] = 0 => reap[i] # "none"

Accounts ==
  /\ \A i \in Inst : Accounted(i)
  /\ irq.pc \in {"idle", "watchdog"} => irq.held = {}
  /\ \A i, j \in fault : i = j

\* The values of irq and fw.
Irqs == [pc : {"idle", "watchdog", "read", "handle", "drop"},
         held : SUBSET Inst, pkt : Packets \cup {<< >>}, stale : BOOLEAN]
Firmwares == [run : {"off", "on", "hung", "watchdog"}, sessions : SUBSET Inst]

AInv == TypeOK /\ Accounts

\* The packets and commands, and the two threads at rest.
LEMMA Values ==
  /\ <<"sys_init">> \in Packets /\ <<"error">> \in Packets
  /\ \A i \in Inst : <<"close_done", i>> \in Packets
  /\ <<"sys_init">> \in Commands
  /\ \A i \in Inst, t \in {"open", "use", "close"} : <<t, i>> \in Commands
  /\ \A c \in Commands :
       \/ c = <<"sys_init">>
       \/ \E i \in Inst, t \in {"open", "use", "close"} : c = <<t, i>>
  /\ Idle \in Irqs /\ Off \in Firmwares
BY DEF Packets, Commands, Idle, Off, Irqs, Firmwares

LEMMA SeqTypes ==
  ASSUME NEW S, NEW s \in Seq(S), NEW e \in S
  PROVE  Append(s, e) \in Seq(S) /\ <<e>> \in Seq(S)
OBVIOUS

LEMMA InitAInv == Init => AInv
<1> SUFFICES ASSUME Init PROVE AInv
  OBVIOUS
<1>1. TypeOK
  <2>1. irq \in Irqs /\ fw \in Firmwares
    BY Values DEF Init
  <2>2. pc \in [Inst -> Labels] /\ reap \in [Inst -> Reapers]
    BY DEF Init, Labels, Reapers
  <2>3. cmds \in Seq(Commands) /\ msgs \in Seq(Packets)
    BY DEF Init
  <2>4. QED
    BY <2>1, <2>2, <2>3 DEF Init, TypeOK, Irqs, Firmwares, CoreStates
<1>2. Accounts
  BY DEF Init, Accounts, Accounted, Using, Idle
<1>3. QED
  BY <1>1, <1>2 DEF AInv

\* A step that leaves the account of every session alone.
LEMMA AccountsKept ==
  ASSUME Accounts, UNCHANGED <<pc, ref, reap, alloc, fault>>,
         irq'.held = irq.held,
         irq'.pc \in {"idle", "watchdog"} => irq'.held = {}
  PROVE  Accounts'
BY DEF Accounts, Accounted

LEMMA DeinitTyped ==
  ASSUME TypeOK, NEW e \in BOOLEAN, Deinit(e)
  PROVE  /\ core' \in CoreStates /\ loaded' \in BOOLEAN /\ early' \in BOOLEAN
         /\ listed' \subseteq Inst /\ dangling' \subseteq Inst
         /\ state' \in [Inst -> {"OPEN", "STREAMING", "CLOSE", "ERROR"}]
         /\ cmds' \in Seq(Commands)
         /\ fw' \in Firmwares
<1>1. CASE core = "DEINIT"
  BY <1>1 DEF Deinit, TypeOK, lists, Firmwares
<1>2. CASE core # "DEINIT"
  <2>1. /\ core' \in CoreStates /\ loaded' \in BOOLEAN /\ early' \in BOOLEAN
        /\ listed' \subseteq Inst /\ dangling' \subseteq Inst
    BY <1>2 DEF Deinit, TypeOK, CoreStates
  <2>2. state' \in [Inst -> {"OPEN", "STREAMING", "CLOSE", "ERROR"}]
    BY <1>2 DEF Deinit, TypeOK
  <2>3. cmds' \in Seq(Commands)
    BY <1>2 DEF Deinit
  <2>4. fw' \in Firmwares
    BY <1>2, Values DEF Deinit
  <2>5. QED
    BY <2>1, <2>2, <2>3, <2>4
<1>3. QED
  BY <1>1, <1>2

LEMMA OpenAccounts ==
  ASSUME AInv, NEW i \in Inst, Open(i) \/ Opens(i)
  PROVE  AInv'
<1> USE DEF AInv, Irqs, Firmwares, lists, mem, client, Goto, Labels
<1>1. CASE OpenFindsCore(i)
  <2>1. TypeOK'
    BY <1>1 DEF OpenFindsCore, TypeOK
  <2>2. Accounts'
    BY <1>1 DEF OpenFindsCore, TypeOK, Fresh, Accounts, Accounted, Using
  <2>3. QED
    BY <2>1, <2>2
<1>2. CASE OpenBoots(i)
  <2>1. pc' \in [Inst -> Labels]
    BY <1>2 DEF OpenBoots, TypeOK
  <2>2. /\ core' \in CoreStates /\ loaded' \in BOOLEAN /\ early' \in BOOLEAN
        /\ cmds' \in Seq(Commands) /\ msgs' \in Seq(Packets)
        /\ fw' \in Firmwares
    <3>1. << <<"sys_init">> >> \in Seq(Commands)
      BY Values, SeqTypes DEF TypeOK
    <3>2. cmds' \in Seq(Commands)
      BY <1>2, <3>1 DEF OpenBoots
    <3>3. msgs' \in Seq(Packets) /\ fw' \in Firmwares
      BY <1>2 DEF OpenBoots
    <3>4. QED
      BY <1>2, <3>2, <3>3 DEF OpenBoots, CoreStates
  <2>3. irq' \in Irqs
    BY <1>2 DEF OpenBoots, TypeOK
  <2>4. TypeOK'
    BY <1>2, <2>1, <2>2, <2>3 DEF OpenBoots, TypeOK
  <2>5. Accounts'
    BY <1>2 DEF OpenBoots, TypeOK, Fresh, Accounts, Accounted, Using
  <2>6. QED
    BY <2>4, <2>5
<1>3. CASE OpenBootFails(i)
  BY <1>3, AccountsKept DEF OpenBootFails, TypeOK, Accounts
<1>4. CASE OpenWaited(i)
  <2>1. TypeOK'
    BY <1>4 DEF OpenWaited, TypeOK
  <2>2. Accounts'
    BY <1>4 DEF OpenWaited, TypeOK, Accounts, Accounted, Using, Waits
  <2>3. QED
    BY <2>1, <2>2
<1>5. CASE OpenTimesOut(i)
  <2>1. TypeOK'
    BY <1>5, DeinitTyped DEF OpenTimesOut, TypeOK, TimeoutIsError
  <2>2. Accounts'
    BY <1>5 DEF OpenTimesOut, TypeOK, Accounts, Accounted, Using, Waits
  <2>3. QED
    BY <2>1, <2>2
<1>6. CASE AddSession(i)
  <2>1. CASE core = "INIT"
    <3>1. /\ pc[i] = "add" /\ pc' = [pc EXCEPT ![i] = "added"]
          /\ alloc' = alloc \cup {i} /\ ref' = [ref EXCEPT ![i] = 1]
          /\ UNCHANGED <<reap, irq, fault>>
      BY <1>6, <2>1 DEF AddSession, AddsOnlyInInit
    <3>2. TypeOK'
      <4>1. pc' \in [Inst -> Labels] /\ ref' \in [Inst -> Nat]
        BY <3>1 DEF TypeOK
      <4>2. /\ state' \in [Inst -> {"OPEN", "STREAMING", "CLOSE", "ERROR"}]
            /\ listed' \subseteq Inst /\ alloc' \subseteq Inst
            /\ signal' \subseteq Inst
        <5>1. /\ state' = [state EXCEPT ![i] = "OPEN"]
              /\ listed' = listed \cup {i} /\ alloc' = alloc \cup {i}
              /\ signal' = signal \ {i}
          BY <1>6, <2>1 DEF AddSession, AddsOnlyInInit
        <5>2. QED
          BY <5>1 DEF TypeOK
      <4>3. UNCHANGED <<core, loaded, unload, dangling, reap, packet, irq,
                        fault, cmds, msgs, fw, early>>
        BY <1>6 DEF AddSession
      <4>4. QED
        BY <4>1, <4>2, <4>3 DEF TypeOK
    <3>3. Accounted(i)'
      BY <3>1 DEF TypeOK, Accounts, Accounted, Using, One
    <3>4. ASSUME NEW j \in Inst \ {i} PROVE Accounted(j)'
      BY <3>1 DEF TypeOK, Accounts, Accounted, Using
    <3>5. QED
      BY <3>1, <3>2, <3>3, <3>4 DEF Accounts
  <2>2. CASE core # "INIT"
    <3>1. TypeOK'
      BY <1>6, <2>2 DEF AddSession, AddsOnlyInInit, TypeOK
    <3>2. Accounts'
      BY <1>6, <2>2 DEF AddSession, AddsOnlyInInit, TypeOK, Accounts, Accounted, Using
    <3>3. QED
      BY <3>1, <3>2
  <2>3. QED
    BY <2>1, <2>2
<1>7. CASE SessionOpen(i)
  <2>1. Append(cmds, <<"open", i>>) \in Seq(Commands)
    <3>1. <<"open", i>> \in Commands
      BY Values
    <3>2. QED
      BY <3>1, SeqTypes DEF TypeOK
  <2>2. cmds' \in Seq(Commands) /\ packet' \subseteq Inst /\ pc' \in [Inst -> Labels]
    <3>1. cmds' = cmds \/ cmds' = Append(cmds, <<"open", i>>)
      BY <1>7 DEF SessionOpen
    <3>2. cmds' \in Seq(Commands)
      BY <2>1, <3>1 DEF TypeOK
    <3>3. (packet' = packet \/ packet' = packet \cup {i})
          /\ \E l \in Labels : pc' = [pc EXCEPT ![i] = l]
      BY <1>7 DEF SessionOpen
    <3>4. QED
      BY <3>2, <3>3 DEF TypeOK
  <2>3. TypeOK'
    BY <1>7, <2>2 DEF SessionOpen, TypeOK
  <2>4. Accounts'
    BY <1>7 DEF SessionOpen, TypeOK, Accounts, Accounted, Using
  <2>5. QED
    BY <2>3, <2>4
<1>8. CASE SessionOpenFails(i)
  <2>1. TypeOK'
    BY <1>8 DEF SessionOpenFails, TypeOK
  <2>2. Accounts'
    BY <1>8 DEF SessionOpenFails, TypeOK, Accounts, Accounted, Using
  <2>3. QED
    BY <2>1, <2>2
<1>9. CASE OpenForcesDeinit(i)
  <2>1. TypeOK'
    BY <1>9, DeinitTyped DEF OpenForcesDeinit, TypeOK, Reapers
  <2>2. Accounts'
    BY <1>9 DEF OpenForcesDeinit, TypeOK, Accounts, Accounted, Using
  <2>3. QED
    BY <2>1, <2>2
<1>10. CASE OpenFails(i)
  <2>1. TypeOK'
    BY <1>10 DEF OpenFails, TypeOK, Reapers
  <2>2. Accounts'
    BY <1>10 DEF OpenFails, TypeOK, Accounts, Accounted, Using
  <2>3. QED
    BY <2>1, <2>2
<1>11. QED
  BY <1>1, <1>2, <1>3, <1>4, <1>5, <1>6, <1>7, <1>8, <1>9, <1>10 DEF Open, Opens

LEMMA UseAccounts ==
  ASSUME AInv, NEW i \in Inst, Ioctl(i) \/ CloseSends(i) \/ Close(i)
  PROVE  AInv'
<1> USE DEF AInv, Irqs, Firmwares, lists, mem, client, Goto, Labels
<1>1. CASE IoctlSends(i)
  <2>1. TypeOK'
    BY <1>1 DEF IoctlSends, TypeOK, Commands
  <2>2. Accounts'
    BY <1>1 DEF IoctlSends, TypeOK, Accounts, Accounted, Using
  <2>3. QED
    BY <2>1, <2>2
<1>2. CASE IoctlUpdates(i)
  <2>1. TypeOK'
    BY <1>2 DEF IoctlUpdates, TypeOK
  <2>2. Accounts'
    BY <1>2 DEF IoctlUpdates, TypeOK, Accounts, Accounted, Using
  <2>3. QED
    BY <2>1, <2>2
<1>3. CASE CloseSends(i)
  <2>1. Append(cmds, <<"close", i>>) \in Seq(Commands)
    BY DEF TypeOK, Commands
  <2>2. TypeOK'
    BY <1>3, <2>1 DEF CloseSends, TypeOK
  <2>3. Accounts'
    BY <1>3 DEF CloseSends, TypeOK, Accounts, Accounted, Using
  <2>4. QED
    BY <2>2, <2>3
<1>4. CASE CloseAnswered(i)
  <2>1. TypeOK'
    BY <1>4 DEF CloseAnswered, TypeOK
  <2>2. Accounts'
    BY <1>4 DEF CloseAnswered, TypeOK, Accounts, Accounted, Using
  <2>3. QED
    BY <2>1, <2>2
<1>5. CASE CloseTimesOut(i)
  <2>1. TypeOK'
    BY <1>5, DeinitTyped DEF CloseTimesOut, TypeOK
  <2>2. Accounts'
    BY <1>5 DEF CloseTimesOut, TypeOK, Accounts, Accounted, Using
  <2>3. QED
    BY <2>1, <2>2
<1>6. CASE CloseFinishes(i)
  <2>1. TypeOK'
    BY <1>6 DEF CloseFinishes, TypeOK
  <2>2. Accounts'
    BY <1>6 DEF CloseFinishes, TypeOK, Accounts, Accounted, Using
  <2>3. QED
    BY <2>1, <2>2
<1>7. CASE ClosePuts(i)
  <2>1. ref' = [ref EXCEPT ![i] = ref[i] - 1] /\ ref[i] - 1 \in Nat
    <3>1. ref[i] = One(TRUE) + One(i \in irq.held) + One(i \in fault)
      BY <1>7 DEF ClosePuts, Accounts, Accounted, Using, One
    <3>2. QED
      BY <1>7, <3>1 DEF ClosePuts, Put, One
  <2>2. reap' \in [Inst -> Reapers]
    BY <1>7 DEF ClosePuts, Put, TypeOK, Reapers
  <2>3. TypeOK'
    <3>1. ref' \in [Inst -> Nat] /\ pc' \in [Inst -> Labels]
      BY <1>7, <2>1 DEF ClosePuts, TypeOK
    <3>2. QED
      BY <1>7, <2>2, <3>1 DEF ClosePuts, TypeOK
  <2>4. Accounts'
    BY <1>7 DEF ClosePuts, TypeOK, Accounts, Accounted, Using, Put, One
  <2>5. QED
    BY <2>3, <2>4
<1>8. CASE CloseSchedules(i)
  <2>1. TypeOK'
    BY <1>8, CoreAssumption DEF CloseSchedules, TypeOK
  <2>2. Accounts'
    BY <1>8 DEF CloseSchedules, TypeOK, Accounts, Accounted, Using
  <2>3. QED
    BY <2>1, <2>2
<1>9. QED
  BY <1>1, <1>2, <1>3, <1>4, <1>5, <1>6, <1>7, <1>8 DEF Ioctl, Close

LEMMA ReapAccounts ==
  ASSUME AInv, NEW i \in Inst, Reap(i)
  PROVE  AInv'
<1> USE DEF AInv, Irqs, Firmwares, lists, mem, client, Goto, Labels
<1>1. CASE Unlist(i)
  BY <1>1, AccountsKept DEF Unlist, TypeOK, Accounts
<1>2. CASE Free(i)
  <2>1. TypeOK'
    BY <1>2 DEF Free, TypeOK, Reapers
  <2>2. Accounts'
    <3>1. Accounted(i)'
      <4>1. /\ i \notin alloc' /\ reap'[i] = "none"
            /\ UNCHANGED <<ref, irq, fault>>
        BY <1>2 DEF Free, TypeOK
      <4>2. i \in alloc
        BY <1>2 DEF Free, Accounts, Accounted
      <4>3. ref[i] = One(pc[i] \notin {"closed", "schedule"})
                       + One(i \in irq.held) + One(i \in fault)
        BY <4>2 DEF Accounts, Accounted
      <4>4. CASE pc[i] = "undo"
        <5>1. pc'[i] = "closed"
          BY <1>2, <4>4 DEF Free, TypeOK
        <5>2. i \in irq.held => ref[i] >= 2
          BY <4>4, <4>3 DEF One
        <5>3. QED
          BY <4>1, <5>1, <5>2 DEF Accounted, Using
      <4>5. CASE pc[i] # "undo"
        <5>1. pc' = pc /\ i \in alloc /\ ref[i] = 0
          BY <1>2, <4>5 DEF Free, Accounts, Accounted
        <5>2. pc[i] \in {"closed", "schedule"} /\ i \notin irq.held
          BY <4>3, <5>1 DEF One
        <5>3. QED
          BY <4>1, <5>1, <5>2 DEF Accounted, Using
      <4>6. QED
        BY <4>4, <4>5
    <3>2. ASSUME NEW j \in Inst \ {i} PROVE Accounted(j)'
      BY <1>2 DEF Free, TypeOK, Accounts, Accounted, Using
    <3>3. QED
      BY <1>2, <3>1, <3>2 DEF Free, Accounts
  <2>3. QED
    BY <2>1, <2>2
<1>3. QED
  BY <1>1, <1>2 DEF Reap

\* Only sessions in the list, which are allocated, are taken.
LEMMA IrqAccounts ==
  ASSUME AInv, listed \subseteq alloc, Irq
  PROVE  AInv'
<1> USE DEF AInv, Irqs, Firmwares, lists, mem, client
<1>1. CASE IrqCaches
  <2>1. /\ irq' = [irq EXCEPT !.pc = "read", !.held = Ready]
        /\ ref' = [i \in Inst |-> ref[i] + (IF i \in Ready THEN 1 ELSE 0)]
        /\ irq.held = {} /\ Ready \subseteq Inst
        /\ UNCHANGED <<pc, reap, alloc, fault>>
    BY <1>1 DEF IrqCaches, Ready, TypeOK, Accounts
  <2>2. TypeOK'
    <3>1. irq' \in Irqs
      BY <2>1 DEF TypeOK
    <3>2. ref' \in [Inst -> Nat]
      BY <2>1 DEF TypeOK
    <3>3. QED
      BY <1>1, <3>1, <3>2 DEF IrqCaches, TypeOK
  <2>3. irq'.held = Ready /\ irq'.pc = "read"
    BY <2>1 DEF TypeOK
  <2>4. ASSUME NEW i \in Inst PROVE Accounted(i)'
    <3>1. i \in Ready => i \in alloc /\ ref[i] > 0
      BY DEF Ready
    <3>2. ref'[i] = ref[i] + One(i \in Ready)
      BY <2>1 DEF One
    <3>3. QED
      BY <2>1, <2>3, <3>1, <3>2 DEF TypeOK, Accounts, Accounted, Using, One
  <2>5. QED
    BY <2>1, <2>2, <2>3, <2>4 DEF Accounts
<1>2. CASE IrqWatchdog
  BY <1>2, AccountsKept DEF IrqWatchdog, TypeOK, Accounts, CoreStates
<1>3. CASE IrqWatchdogDeinit
  <2>1. Idle \in Irqs
    BY Values
  <2>2. TypeOK'
    BY <1>3, <2>1, DeinitTyped DEF IrqWatchdogDeinit, TypeOK
  <2>3. Accounts'
    BY <1>3, AccountsKept DEF IrqWatchdogDeinit, Idle, Accounts
  <2>4. QED
    BY <2>2, <2>3
<1>4. CASE IrqReads
  <2>1. Head(msgs) \in Packets /\ Tail(msgs) \in Seq(Packets)
    BY <1>4 DEF IrqReads, TypeOK
  <2>2. TypeOK'
    BY <1>4, <2>1 DEF IrqReads, TypeOK
  <2>3. Accounts'
    BY <1>4, AccountsKept DEF IrqReads, TypeOK
  <2>4. QED
    BY <2>2, <2>3
<1>5. CASE IrqSysInit
  <2>1. TypeOK'
    BY <1>5 DEF IrqSysInit, TypeOK, Handled, CoreStates
  <2>2. Accounts'
    BY <1>5, AccountsKept DEF IrqSysInit, Handled, TypeOK
  <2>3. QED
    BY <2>1, <2>2
<1>6. CASE IrqSysError
  <2>1. TypeOK'
    BY <1>6, DeinitTyped DEF IrqSysError, TypeOK, Handled
  <2>2. Accounts'
    BY <1>6, AccountsKept DEF IrqSysError, Handled, TypeOK
  <2>3. QED
    BY <2>1, <2>2
<1>7. CASE IrqDrained
  BY <1>7, AccountsKept DEF IrqDrained, TypeOK
<1>8. CASE IrqReturns
  <2>1. Idle \in Irqs
    BY Values
  <2>2. TypeOK'
    BY <1>8, <2>1 DEF IrqReturns, TypeOK
  <2>3. Accounts'
    BY <1>8, AccountsKept DEF IrqReturns, Idle
  <2>4. QED
    BY <2>2, <2>3
<1>9. ASSUME NEW i \in Inst, IrqCloseDone(i) PROVE AInv'
  <2>1. TypeOK'
    BY <1>9 DEF IrqCloseDone, TypeOK, Handled
  <2>2. Accounts'
    BY <1>9, AccountsKept DEF IrqCloseDone, Handled, TypeOK
  <2>3. QED
    BY <2>1, <2>2
<1>10. ASSUME NEW i \in Inst, IrqPuts(i) PROVE AInv'
  <2>1. ref' = [ref EXCEPT ![i] = ref[i] - 1] /\ ref[i] - 1 \in Nat
    <3>1. CASE i \in alloc
      <4>1. ref[i] = One(pc[i] \notin {"closed", "schedule"}) + One(TRUE) + One(i \in fault)
        BY <1>10, <3>1 DEF IrqPuts, Accounts, Accounted, One
      <4>2. QED
        BY <1>10, <4>1 DEF IrqPuts, Put, One
    <3>2. CASE i \notin alloc
      <4>1. ref[i] >= 2 /\ ref[i] \in Nat
        BY <1>10, <3>2 DEF IrqPuts, Accounts, Accounted, TypeOK
      <4>2. QED
        BY <1>10, <4>1 DEF IrqPuts, Put
    <3>3. QED
      BY <3>1, <3>2
  <2>2. reap' \in [Inst -> Reapers]
    BY <1>10 DEF IrqPuts, Put, TypeOK, Reapers
  <2>3. TypeOK'
    <3>1. ref' \in [Inst -> Nat]
      BY <2>1 DEF TypeOK
    <3>2. irq' \in Irqs
      BY <1>10 DEF IrqPuts, TypeOK, Irqs
    <3>3. QED
      BY <1>10, <2>2, <3>1, <3>2 DEF IrqPuts, TypeOK, Irqs
  <2>4. Accounts'
    BY <1>10 DEF IrqPuts, TypeOK, Accounts, Accounted, Using, Put, One
  <2>5. QED
    BY <2>3, <2>4
<1>11. QED
  BY <1>1, <1>2, <1>3, <1>4, <1>5, <1>6, <1>7, <1>8, <1>9, <1>10 DEF Irq

LEMMA OtherAccounts ==
  ASSUME AInv, listed \subseteq alloc,
         \/ UnloadWork \/ PmWorkGivesUp \/ PmFreeze \/ FwAnswers \/ FwBreaks
         \/ \E i \in Inst : FaultTakes(i) \/ FaultPuts(i)
  PROVE  AInv'
<1> USE DEF AInv, Irqs, Firmwares, lists, mem, client
<1>1. CASE UnloadWork
  <2>1. TypeOK'
    BY <1>1, DeinitTyped DEF UnloadWork, TypeOK
  <2>2. QED
    BY <1>1, <2>1, AccountsKept DEF UnloadWork, Accounts
<1>2. CASE PmWorkGivesUp \/ PmFreeze
  <2>1. TypeOK'
    BY <1>2, DeinitTyped DEF PmWorkGivesUp, PmFreeze, TypeOK
  <2>2. QED
    BY <1>2, <2>1, AccountsKept DEF PmWorkGivesUp, PmFreeze, Accounts
<1>3. CASE FwAnswers
  <2> DEFINE cmd == Head(cmds)
  <2>1. cmd \in Commands /\ Tail(cmds) \in Seq(Commands)
    BY <1>3 DEF FwAnswers, TypeOK
  <2>2. msgs' \in Seq(Packets)
    <3>1. CASE cmd = <<"sys_init">>
      <4>1. msgs' = Append(msgs, <<"sys_init">>)
        BY <1>3, <3>1 DEF FwAnswers
      <4>2. QED
        BY <4>1, Values, SeqTypes DEF TypeOK
    <3>2. ASSUME NEW i \in Inst, cmd = <<"close", i>> PROVE msgs' \in Seq(Packets)
      <4>1. <<"close_done", i>> \in Packets
        BY Values
      <4>2. msgs' = Append(msgs, <<"close_done", i>>)
        BY <1>3, <3>2 DEF FwAnswers
      <4>3. QED
        BY <4>1, <4>2 DEF TypeOK
    <3>3. ASSUME NEW i \in Inst, cmd \in {<<"open", i>>, <<"use", i>>}
          PROVE  msgs' \in Seq(Packets)
      BY <1>3, <3>3 DEF FwAnswers, TypeOK
    <3>4. QED
      BY <2>1, <3>1, <3>2, <3>3, Values
  <2>3. fw' \in Firmwares
    <3>1. CASE cmd = <<"sys_init">>
      BY <1>3, <3>1 DEF FwAnswers, TypeOK, Firmwares
    <3>2. ASSUME NEW i \in Inst, NEW t \in {"open", "use", "close"}, cmd = <<t, i>>
          PROVE  fw' \in Firmwares
      <4>1. cmd[1] = t /\ cmd[2] = i /\ fw \in Firmwares
        BY <3>2 DEF TypeOK
      <4>2. \/ fw' = fw
            \/ fw' = [fw EXCEPT !.sessions = fw.sessions \cup {i}]
            \/ fw' = [fw EXCEPT !.sessions = fw.sessions \ {i}]
        BY <1>3, <4>1 DEF FwAnswers
      <4>3. QED
        BY <4>1, <4>2
    <3>3. QED
      BY <2>1, <3>1, <3>2, Values
  <2>4. TypeOK'
    BY <1>3, <2>1, <2>2, <2>3 DEF FwAnswers, TypeOK, Firmwares
  <2>5. QED
    BY <1>3, <2>4, AccountsKept DEF FwAnswers, Accounts
<1>4. CASE FwBreaks
  <2>1. /\ msgs' = msgs \/ msgs' = Append(msgs, <<"error">>)
        /\ \E r \in {"hung", "watchdog"} : fw' = [fw EXCEPT !.run = r]
    BY <1>4 DEF FwBreaks
  <2>2. msgs' \in Seq(Packets)
    <3>1. <<"error">> \in Packets
      BY Values
    <3>2. Append(msgs, <<"error">>) \in Seq(Packets)
      BY <3>1, SeqTypes DEF TypeOK
    <3>3. QED
      BY <2>1, <3>2 DEF TypeOK
  <2>3. fw' \in Firmwares
    BY <2>1 DEF TypeOK
  <2>4. TypeOK'
    BY <1>4, <2>2, <2>3 DEF FwBreaks, TypeOK
  <2>5. QED
    BY <1>4, <2>4, AccountsKept DEF FwBreaks, Accounts
<1>5. ASSUME NEW i \in Inst, FaultTakes(i) PROVE AInv'
  <2>1. TypeOK'
    BY <1>5 DEF FaultTakes, TypeOK
  <2>2. Accounts'
    BY <1>5 DEF FaultTakes, TypeOK, Accounts, Accounted, Using, One
  <2>3. QED
    BY <2>1, <2>2
<1>6. ASSUME NEW i \in Inst, FaultPuts(i) PROVE AInv'
  <2>1. i \in alloc => ref[i] - 1 \in Nat
    <3>1. i \in alloc => ref[i] = One(pc[i] \notin {"closed", "schedule"})
                                   + One(i \in irq.held) + One(TRUE)
      BY <1>6 DEF FaultPuts, Accounts, Accounted, One
    <3>2. QED
      BY <3>1 DEF One
  <2>2. ref' \in [Inst -> Nat] /\ reap' \in [Inst -> Reapers]
    <3>1. CASE i \in alloc
      <4>1. ref' = [ref EXCEPT ![i] = ref[i] - 1]
        BY <1>6, <3>1 DEF FaultPuts, Put
      <4>2. reap' \in [Inst -> Reapers]
        BY <1>6, <3>1 DEF FaultPuts, Put, TypeOK, Reapers
      <4>3. QED
        BY <2>1, <3>1, <4>1, <4>2 DEF TypeOK
    <3>2. CASE i \notin alloc
      BY <1>6, <3>2 DEF FaultPuts, TypeOK
    <3>3. QED
      BY <3>1, <3>2
  <2>3. TypeOK'
    BY <1>6, <2>2 DEF FaultPuts, TypeOK
  <2>4. Accounts'
    <3>1. fault = {i} /\ fault' = {}
      BY <1>6 DEF FaultPuts, Accounts
    <3>2. CASE i \in alloc
      <4>1. Put(i, "fault") /\ UNCHANGED <<pc, alloc, irq>>
        BY <1>6, <3>2 DEF FaultPuts
      <4>2. Accounted(i)'
        BY <3>1, <3>2, <4>1 DEF TypeOK, Accounts, Accounted, Using, Put, One
      <4>3. ASSUME NEW j \in Inst \ {i} PROVE Accounted(j)'
        BY <3>1, <4>1 DEF TypeOK, Accounts, Accounted, Using, Put
      <4>4. QED
        BY <3>1, <4>1, <4>2, <4>3 DEF Accounts
    <3>3. CASE i \notin alloc
      BY <1>6, <3>1, <3>3 DEF FaultPuts, TypeOK, Accounts, Accounted, Using, One
    <3>4. QED
      BY <3>2, <3>3
  <2>5. QED
    BY <2>3, <2>4
<1>7. QED
  BY <1>1, <1>2, <1>3, <1>4, <1>5, <1>6

LEMMA NextAInv == IInv /\ AInv /\ [Next]_vars => AInv'
<1> SUFFICES ASSUME IInv, AInv, [Next]_vars PROVE AInv'
  OBVIOUS
<1>1. listed \subseteq alloc
  BY DEF IInv, ListsAreSound
<1>2. CASE UNCHANGED vars
  BY <1>2 DEF AInv, TypeOK, Accounts, Accounted, vars, lists, mem, client
<1>3. CASE Next
  BY <1>1, <1>3, OpenAccounts, UseAccounts, ReapAccounts, IrqAccounts,
     OtherAccounts DEF Next
<1>4. QED
  BY <1>2, <1>3

LEMMA AInvHolds == Spec => []AInv
BY Invariance, InitAInv, NextAInv, PTL DEF Spec

(***************************************************************************)
(* The variables of the core have their types; the references of a session *)
(* never go below none, although four threads put them.                    *)
(***************************************************************************)
THEOREM TypesHold == Spec => []TypeOK
<1>1. AInv => TypeOK
  BY DEF AInv
<1>2. QED
  BY <1>1, AInvHolds, PTL

(***************************************************************************)
(* The reference count of a session is the number of its holders, and a    *)
(* session whose file is closed is held or on its way to be freed.         *)
(***************************************************************************)
THEOREM HoldersAlwaysAgree == Spec => []HoldersAgree
<1>1. AInv => HoldersAgree
  <2> SUFFICES ASSUME AInv, NEW i \in alloc
               PROVE  /\ ref[i] = (IF pc[i] \in {"closed", "schedule"} THEN 0 ELSE 1)
                        + (IF i \in irq.held THEN 1 ELSE 0) + (IF i \in fault THEN 1 ELSE 0)
                      /\ pc[i] \in {"closed", "schedule"}
                           => reap[i] # "none" \/ i \in irq.held \cup fault
    BY DEF HoldersAgree, RefsAreHolders, NothingLeaks
  <2>1. Accounted(i)
    BY DEF AInv, TypeOK, Accounts
  <2>2. QED
    BY <2>1 DEF Accounted, One
<1>2. QED
  BY <1>1, AInvHolds, PTL

\* Memory is freed by one action only.
LEMMA OnlyFreeFrees ==
  ASSUME [Next]_vars, NEW i \in alloc \ alloc'
  PROVE  reap[i] # "none"
<1> USE DEF lists, mem, client
<1>1. CASE UNCHANGED vars
  BY <1>1 DEF vars
<1>2. ASSUME NEW j \in Inst, Open(j) \/ Opens(j) PROVE FALSE
  BY <1>2 DEF Open, Opens, OpenFindsCore, OpenBoots, OpenBootFails,
     SessionOpenFails, OpenFails, OpenWaited, OpenTimesOut, AddSession,
     SessionOpen, OpenForcesDeinit
<1>3. ASSUME NEW j \in Inst, Ioctl(j) \/ CloseSends(j) \/ Close(j) PROVE FALSE
  BY <1>3 DEF Ioctl, IoctlSends, IoctlUpdates, CloseSends, Close, CloseAnswered,
     CloseTimesOut, CloseFinishes, ClosePuts, CloseSchedules
<1>4. ASSUME NEW j \in Inst, Reap(j) PROVE reap[i] # "none"
  BY <1>4 DEF Reap, Unlist, Free
<1>5. CASE Irq
  BY <1>5 DEF Irq, IrqCaches, IrqWatchdog, IrqWatchdogDeinit, IrqReads,
     IrqSysInit, IrqSysError, IrqDrained, IrqReturns, IrqCloseDone, IrqPuts
<1>6. CASE \/ UnloadWork \/ PmWorkGivesUp \/ PmFreeze \/ FwAnswers \/ FwBreaks
           \/ \E j \in Inst : FaultTakes(j) \/ FaultPuts(j)
  BY <1>6 DEF UnloadWork, PmWorkGivesUp, PmFreeze, FwAnswers, FwBreaks,
     FaultTakes, FaultPuts
<1>7. QED
  BY <1>1, <1>2, <1>3, <1>4, <1>5, <1>6 DEF Next

(***************************************************************************)
(* No step frees a session in the hands of the interrupt thread or of the  *)
(* page fault handler, but the last of an open that fails.                 *)
(***************************************************************************)
THEOREM HeldIsKept == Spec => OnlyFailedOpenFreesHeld
<1>1. AInv /\ [Next]_vars =>
        [\A i \in alloc \ alloc' : i \in irq.held \cup fault => pc[i] = "undo"]_vars
  <2> SUFFICES ASSUME AInv, [Next]_vars, NEW i \in alloc \ alloc',
                      i \in irq.held \cup fault
               PROVE  pc[i] = "undo"
    OBVIOUS
  <2>1. reap[i] # "none"
    BY OnlyFreeFrees
  <2>2. Accounted(i) /\ ref[i] \in Nat
    BY DEF AInv, TypeOK, Accounts
  <2>3. QED
    BY <2>1, <2>2 DEF Accounted, One
<1>2. QED
  BY <1>1, AInvHolds, PTL DEF Spec, OnlyFailedOpenFreesHeld
-----------------------------------------------------------------------------
(***************************************************************************)
(* The state of the core, the firmware and the two queues.  While the      *)
(* firmware is loaded, its SYS_INIT is in one place at most: among the     *)
(* commands, then among the messages, then in the hand of the interrupt    *)
(* thread; the reply is what makes the core INIT, and it is nowhere once   *)
(* the core is.  A reply left from an earlier boot is stale.               *)
(***************************************************************************)
SysInit   == <<"sys_init">>
Answering == irq.pkt = SysInit /\ ~irq.stale

InitOnce ==
  /\ core = "INIT" => ~In(SysInit, cmds) /\ ~In(SysInit, msgs)
  /\ In(SysInit, cmds) => /\ ~In(SysInit, msgs) /\ ~Answering
                          /\ \A k \in 2..Len(cmds) : cmds[k] # SysInit
  /\ In(SysInit, msgs) => /\ ~Answering
                          /\ \A j, k \in 1..Len(msgs) :
                               msgs[j] = SysInit /\ msgs[k] = SysInit => j = k

Boot ==
  /\ loaded <=> fw.run # "off"
  /\ ~loaded => cmds = << >>
  /\ core \in {"INIT_WAIT", "INIT"} => loaded \/ early
  /\ core = "DEINIT" => ~loaded
  /\ loaded => InitOnce

(***************************************************************************)
(* The firmware will know session i when it has answered the first n       *)
(* commands: it knows it already or one of them opens it, and none closes  *)
(* it afterwards.                                                          *)
(***************************************************************************)
Known(i, n) ==
  \/ i \in fw.sessions /\ \A l \in 1..n : cmds[l] # <<"close", i>>
  \/ \E m \in 1..n : /\ cmds[m] = <<"open", i>>
                     /\ \A l \in (m + 1)..n : cmds[l] # <<"close", i>>

InSession(i) == i \in listed \cap packet /\ pc[i] \in {"open", "update"}

Knows ==
  /\ \A i \in Inst : loaded /\ InSession(i) => Known(i, Len(cmds))
  /\ \A k \in 1..Len(cmds), i \in Inst :
       cmds[k] \in {<<"use", i>>, <<"close", i>>} => Known(i, k - 1)

FInv == Boot /\ Knows

LEMMA InitFInv == Init => FInv
BY DEF Init, FInv, Boot, Knows, InSession, Off

\* A step that leaves the core, its firmware and the queues alone.
LEMMA BootKept ==
  ASSUME Boot, UNCHANGED <<core, loaded, early, cmds, msgs, fw>>,
         Answering' => Answering
  PROVE  Boot'
BY DEF Boot, InitOnce, In

LEMMA BootDeinit ==
  ASSUME Boot, NEW e \in BOOLEAN, Deinit(e)
  PROVE  Boot'
<1>1. CASE core = "DEINIT"
  <2>1. UNCHANGED <<core, loaded, early, cmds, fw>> /\ ~loaded
    BY <1>1 DEF Boot, Deinit
  <2>2. core' = "DEINIT" /\ ~loaded' /\ cmds' = << >> /\ fw'.run = "off"
    BY <1>1, <2>1 DEF Boot
  <2>3. QED
    BY <2>2 DEF Boot
<1>2. CASE core # "DEINIT"
  <2>1. loaded' = FALSE /\ fw' = Off /\ cmds' = << >>
    BY <1>2 DEF Deinit
  <2>2. core' \in {"INIT_WAIT", "INIT"} => early'
    BY <1>2 DEF Deinit
  <2>3. QED
    BY <2>1, <2>2 DEF Boot, Off
<1>3. QED
  BY <1>1, <1>2

LEMMA BootSends ==
  ASSUME TypeOK, Boot, loaded, NEW c \in Commands, c # SysInit,
         cmds' = Append(cmds, c),
         UNCHANGED <<core, loaded, early, msgs, fw, irq>>
  PROVE  Boot'
<1>1. /\ Len(cmds') = Len(cmds) + 1 /\ Len(cmds) \in Nat
      /\ \A k \in 1..Len(cmds) : cmds'[k] = cmds[k]
      /\ cmds'[Len(cmds) + 1] = c
  BY DEF TypeOK
<1>2. \A k \in 1..Len(cmds') : cmds'[k] = SysInit => k \in 1..Len(cmds) /\ cmds[k] = SysInit
  BY <1>1
<1>3. In(SysInit, cmds') => In(SysInit, cmds)
  BY <1>1, <1>2 DEF In
<1>4. InitOnce'
  <2>1. InitOnce
    BY DEF Boot
  <2>2. In(SysInit, cmds') => \A k \in 2..Len(cmds') : cmds'[k] # SysInit
    BY <1>1, <1>2, <1>3, <2>1 DEF InitOnce
  <2>3. UNCHANGED <<core, msgs, Answering, In(SysInit, msgs)>>
    BY DEF Answering, In
  <2>4. QED
    BY <1>3, <2>1, <2>2, <2>3 DEF InitOnce
<1>5. QED
  BY <1>4 DEF Boot

\* A step that leaves the commands and the sessions of the firmware alone.
LEMMA KnowsKept ==
  ASSUME Knows, cmds' = cmds, fw'.sessions = fw.sessions, loaded' => loaded,
         \A i \in Inst : InSession(i)' => InSession(i)
  PROVE  Knows'
BY DEF Knows, Known

LEMMA KnowsDeinit ==
  ASSUME Boot, IInv, NEW e \in BOOLEAN, Deinit(e)
  PROVE  Knows'
<1>1. ~loaded' /\ cmds' = << >>
  BY DEF Boot, Deinit
<1>2. QED
  BY <1>1 DEF Knows

LEMMA KnowsSends ==
  ASSUME TypeOK, Knows, NEW i \in Inst, NEW t \in {"open", "use", "close"},
         cmds' = Append(cmds, <<t, i>>), fw' = fw, loaded' => loaded,
         t # "open" => loaded /\ InSession(i),
         InSession(i)' => t \in {"open", "use"},
         \A j \in Inst \ {i} : InSession(j)' => InSession(j)
  PROVE  Knows'
<1>0. PICK n \in Nat : n = Len(cmds)
  BY DEF TypeOK
<1>1. /\ Len(cmds') = n + 1
      /\ \A k \in 1..n : cmds'[k] = cmds[k]
      /\ cmds'[n + 1] = <<t, i>>
  BY <1>0 DEF TypeOK
<1>2. ASSUME NEW j \in Inst, NEW k \in 0..n, Known(j, k) PROVE Known(j, k)'
  <2>1. \A l \in 1..k : cmds'[l] = cmds[l]
    BY <1>1
  <2>2. CASE j \in fw.sessions /\ \A l \in 1..k : cmds[l] # <<"close", j>>
    BY <2>1, <2>2 DEF Known
  <2>3. CASE \E m \in 1..k : /\ cmds[m] = <<"open", j>>
                             /\ \A l \in (m + 1)..k : cmds[l] # <<"close", j>>
    <3>1. PICK m \in 1..k : /\ cmds[m] = <<"open", j>>
                            /\ \A l \in (m + 1)..k : cmds[l] # <<"close", j>>
      BY <2>3
    <3>2. \A l \in (m + 1)..k : cmds'[l] # <<"close", j>>
      <4>1. \A l \in (m + 1)..k : l \in 1..k
        OBVIOUS
      <4>2. QED
        BY <2>1, <3>1, <4>1
    <3>3. QED
      BY <2>1, <3>1, <3>2 DEF Known
  <2>4. QED
    BY <1>2, <2>2, <2>3 DEF Known
<1>3. ASSUME NEW j \in Inst, loaded', InSession(j)' PROVE Known(j, n + 1)'
  <2>1. CASE j = i /\ t = "open"
    BY <1>1, <2>1 DEF Known
  <2>2. CASE j # i \/ t # "open"
    <3>1. Known(j, n)
      BY <1>0, <1>3, <2>2 DEF Knows
    <3>2. t # "close" \/ j # i
      BY <1>3
    <3>3. Known(j, n)'
      BY <1>2, <3>1
    <3>4. cmds'[n + 1] # <<"close", j>>
      BY <1>1, <3>2
    <3>5. \A m \in 1..n : \A l \in (m + 1)..(n + 1) : l = n + 1 \/ l \in (m + 1)..n
      OBVIOUS
    <3>6. \A l \in 1..(n + 1) : l = n + 1 \/ l \in 1..n
      OBVIOUS
    <3>7. 1..n \subseteq 1..(n + 1)
      OBVIOUS
    <3>8. QED
      BY <3>3, <3>4, <3>5, <3>6, <3>7 DEF Known
  <2>3. QED
    BY <2>1, <2>2
<1>4. ASSUME NEW k \in 1..(n + 1), NEW j \in Inst,
             cmds'[k] \in {<<"use", j>>, <<"close", j>>}
      PROVE  Known(j, k - 1)'
  <2>1. CASE k <= n
    <3>1. Known(j, k - 1) /\ k - 1 \in 0..n
      BY <1>0, <1>1, <1>4, <2>1 DEF Knows
    <3>2. QED
      BY <1>2, <3>1
  <2>2. CASE k = n + 1
    <3>1. j = i /\ t # "open"
      BY <1>1, <1>4, <2>2
    <3>2. Known(i, n)
      BY <1>0, <3>1 DEF Knows
    <3>3. QED
      BY <1>1, <1>2, <2>2, <3>1, <3>2
  <2>3. QED
    BY <1>1, <2>1, <2>2
<1>5. QED
  BY <1>1, <1>3, <1>4 DEF Knows

\* No tuple of a session is SYS_INIT or empty.
LEMMA OthersAreNot ==
  /\ \A t, i : <<t, i>> # SysInit
  /\ << >> # SysInit /\ <<"error">> # SysInit
  /\ SysInit \in Commands /\ SysInit \in Packets
BY DEF SysInit, Commands, Packets

\* A message that is not the reply to SYS_INIT.
LEMMA AppendsOther ==
  ASSUME TypeOK, InitOnce, NEW m \in Packets, m # SysInit,
         msgs' = msgs \/ msgs' = Append(msgs, m), UNCHANGED <<core, irq>>,
         \/ ~In(SysInit, cmds')
         \/ cmds' = cmds
  PROVE  InitOnce'
<1>1. PICK n \in Nat : n = Len(msgs)
  BY DEF TypeOK
<1>2. \A k \in 1..Len(msgs') : msgs'[k] = SysInit => k \in 1..n /\ msgs[k] = SysInit
  <2>1. CASE msgs' = msgs
    BY <1>1, <2>1
  <2>2. CASE msgs' = Append(msgs, m)
    <3>1. /\ Len(msgs') = n + 1 /\ msgs'[n + 1] = m
          /\ \A k \in 1..n : msgs'[k] = msgs[k]
      BY <1>1, <2>2 DEF TypeOK
    <3>2. QED
      BY <3>1
  <2>3. QED
    BY <2>1, <2>2
<1>3. In(SysInit, msgs') => In(SysInit, msgs)
  BY <1>1, <1>2 DEF In
<1>4. Answering' = Answering
  BY DEF Answering
<1>5. CASE ~In(SysInit, cmds')
  BY <1>1, <1>2, <1>3, <1>4, <1>5 DEF InitOnce
<1>6. CASE cmds' = cmds
  BY <1>1, <1>2, <1>3, <1>4, <1>6 DEF InitOnce, In
<1>7. QED
  BY <1>5, <1>6

\* The firmware answers the first command.
LEMMA KnowsAnswers ==
  ASSUME Knows, UNCHANGED <<loaded, listed, packet, pc>>,
         NEW n \in Nat, n = Len(cmds), n >= 1, Len(cmds') = n - 1,
         \A k \in 1..(n - 1) : cmds'[k] = cmds[k + 1],
         \A i \in Inst :
            /\ cmds[1] = <<"open", i>> => i \in fw'.sessions
            /\ cmds[1] # <<"close", i>> /\ i \in fw.sessions => i \in fw'.sessions
  PROVE  Knows'
<1>1. ASSUME NEW i \in Inst, NEW k \in 1..n, Known(i, k) PROVE Known(i, k - 1)'
  <2>1. CASE i \in fw.sessions /\ \A l \in 1..k : cmds[l] # <<"close", i>>
    <3>1. i \in fw'.sessions
      BY <2>1
    <3>2. ASSUME NEW l \in 1..(k - 1) PROVE cmds'[l] # <<"close", i>>
      <4>1. l + 1 \in 1..k /\ l \in 1..(n - 1)
        OBVIOUS
      <4>2. QED
        BY <2>1, <4>1
    <3>3. QED
      BY <3>1, <3>2 DEF Known
  <2>2. ASSUME NEW m \in 1..k, cmds[m] = <<"open", i>>,
               \A l \in (m + 1)..k : cmds[l] # <<"close", i>>
        PROVE  Known(i, k - 1)'
    <3>1. ASSUME NEW l \in m..(k - 1) PROVE cmds'[l] # <<"close", i>>
      <4>1. l + 1 \in (m + 1)..k /\ l \in 1..(n - 1)
        OBVIOUS
      <4>2. QED
        BY <2>2, <4>1
    <3>2. CASE m = 1
      BY <2>2, <3>1, <3>2 DEF Known
    <3>3. CASE m # 1
      <4>1. m - 1 \in 1..(k - 1) /\ m - 1 \in 1..(n - 1)
        BY <3>3
      <4>2. cmds'[m - 1] = <<"open", i>>
        BY <2>2, <4>1
      <4>3. \A l \in ((m - 1) + 1)..(k - 1) : l \in m..(k - 1)
        OBVIOUS
      <4>4. QED
        BY <3>1, <4>1, <4>2, <4>3 DEF Known
    <3>4. QED
      BY <3>2, <3>3
  <2>3. QED
    BY <1>1, <2>1, <2>2 DEF Known
<1>2. ASSUME NEW i \in Inst, loaded', InSession(i)' PROVE Known(i, n - 1)'
  <2>1. Known(i, n)
    BY <1>2 DEF Knows, InSession
  <2>2. QED
    BY <1>1, <2>1
<1>3. ASSUME NEW k \in 1..(n - 1), NEW i \in Inst,
             cmds'[k] \in {<<"use", i>>, <<"close", i>>}
      PROVE  Known(i, k - 1)'
  <2>1. cmds[k + 1] \in {<<"use", i>>, <<"close", i>>} /\ k + 1 \in 1..n
    BY <1>3
  <2>2. Known(i, (k + 1) - 1)
    BY <2>1 DEF Knows
  <2>3. QED
    BY <1>1, <2>2
<1>4. QED
  BY <1>2, <1>3 DEF Knows

LEMMA OpenFirmware ==
  ASSUME IInv, TypeOK, FInv, NEW i \in Inst, Open(i) \/ Opens(i)
  PROVE  FInv'
<1> USE DEF FInv, lists, mem, client, Goto
<1>1. CASE OpenFindsCore(i) \/ OpenWaited(i) \/ SessionOpenFails(i) \/ OpenFails(i)
  <2>1. UNCHANGED <<core, loaded, early, cmds, msgs, fw, irq, listed, packet>>
    BY <1>1 DEF OpenFindsCore, OpenWaited, SessionOpenFails, OpenFails
  <2>2. \E l \in {"wait", "add", "closed", "force", "undo"} : pc' = [pc EXCEPT ![i] = l]
    BY <1>1 DEF OpenFindsCore, OpenWaited, SessionOpenFails, OpenFails
  <2>3. \A j \in Inst : InSession(j)' => InSession(j)
    BY <2>1, <2>2 DEF InSession, TypeOK
  <2>4. QED
    BY <2>1, <2>3, BootKept, KnowsKept DEF Answering
<1>2. CASE OpenBoots(i)
  <2>1. listed' = {} /\ cmds' = << SysInit >> /\ msgs' = << >>
    BY <1>2 DEF OpenBoots, IInv, ListsAreSound, SysInit
  <2>2. core' = "INIT_WAIT" /\ loaded' = TRUE /\ fw'.run = "on"
    BY <1>2 DEF OpenBoots
  <2>3. ~Answering'
    <3>1. irq'.pkt = irq.pkt /\ irq'.stale = (irq.pkt # << >>)
      BY <1>2 DEF OpenBoots, TypeOK
    <3>2. QED
      BY <3>1, OthersAreNot DEF Answering
  <2>4. InitOnce'
    BY <2>1, <2>2, <2>3 DEF InitOnce, In
  <2>5. Boot'
    BY <2>2, <2>4 DEF Boot
  <2>6. Knows'
    BY <2>1, OthersAreNot DEF Knows, InSession
  <2>7. QED
    BY <2>5, <2>6
<1>3. CASE OpenBootFails(i)
  <2>1. ~loaded /\ UNCHANGED <<core, loaded, early, cmds, fw, listed, packet, pc>>
    BY <1>3 DEF OpenBootFails, Boot
  <2>2. QED
    BY <2>1, KnowsKept DEF Boot, InSession
<1>4. CASE OpenTimesOut(i) \/ OpenForcesDeinit(i)
  BY <1>4, BootDeinit, KnowsDeinit DEF OpenTimesOut, OpenForcesDeinit, TimeoutIsError
<1>5. CASE AddSession(i)
  <2>1. UNCHANGED <<core, loaded, early, cmds, msgs, fw, irq, packet>>
    BY <1>5 DEF AddSession
  <2>2. /\ listed' \subseteq listed \cup {i}
        /\ \E l \in {"added", "closed"} : pc' = [pc EXCEPT ![i] = l]
    BY <1>5 DEF AddSession
  <2>3. \A j \in Inst : InSession(j)' => InSession(j)
    BY <2>1, <2>2 DEF InSession, TypeOK
  <2>4. QED
    BY <2>1, <2>3, BootKept, KnowsKept DEF Answering
<1>6. CASE SessionOpen(i)
  <2>1. UNCHANGED <<core, loaded, early, msgs, fw, irq, listed>> /\ pc[i] = "added"
    BY <1>6 DEF SessionOpen
  <2>2. CASE Validate(i) /\ Valid /\ loaded
    <3>1. /\ packet' = packet \cup {i} /\ pc' = [pc EXCEPT ![i] = "open"]
          /\ cmds' = Append(cmds, <<"open", i>>)
      BY <1>6, <2>2 DEF SessionOpen
    <3>2. \A j \in Inst \ {i} : InSession(j)' => InSession(j)
      BY <2>1, <3>1 DEF InSession, TypeOK
    <3>3. Boot'
      BY <2>1, <2>2, <3>1, BootSends, OthersAreNot, Values
    <3>4. Knows'
      BY <2>1, <3>1, <3>2, KnowsSends
    <3>5. QED
      BY <3>3, <3>4
  <2>3. CASE ~(Validate(i) /\ Valid /\ loaded)
    <3>1. UNCHANGED <<packet, cmds>> /\ pc' = [pc EXCEPT ![i] = "force"]
      BY <1>6, <2>3 DEF SessionOpen
    <3>2. \A j \in Inst : InSession(j)' => InSession(j)
      BY <2>1, <3>1 DEF InSession, TypeOK
    <3>3. QED
      BY <2>1, <3>1, <3>2, BootKept, KnowsKept DEF Answering
  <2>4. QED
    BY <2>2, <2>3
<1>7. QED
  BY <1>1, <1>2, <1>3, <1>4, <1>5, <1>6 DEF Open, Opens

LEMMA UseFirmware ==
  ASSUME IInv, TypeOK, FInv, NEW i \in Inst, Ioctl(i) \/ CloseSends(i) \/ Close(i)
  PROVE  FInv'
<1> USE DEF FInv, lists, mem, client, Goto
<1>1. ASSUME NEW t \in {"use", "close"}, pc[i] = "open", CanSend(i),
             cmds' = Append(cmds, <<t, i>>),
             UNCHANGED <<core, loaded, early, msgs, fw, irq, listed, packet>>,
             pc' = [pc EXCEPT ![i] = IF t = "use" THEN "update" ELSE "closing"]
      PROVE  FInv'
  <2>1. loaded /\ InSession(i)
    BY <1>1 DEF CanSend, Validate, InSession
  <2>2. /\ InSession(i)' => t = "use"
        /\ \A j \in Inst \ {i} : InSession(j)' => InSession(j)
    BY <1>1 DEF InSession, TypeOK
  <2>3. Boot'
    BY <1>1, <2>1, BootSends, OthersAreNot, Values
  <2>4. Knows'
    BY <1>1, <2>1, <2>2, KnowsSends
  <2>5. QED
    BY <2>3, <2>4
<1>2. CASE IoctlSends(i)
  BY <1>1, <1>2 DEF IoctlSends
<1>3. CASE CloseSends(i)
  <2>1. CASE CanSend(i)
    BY <1>1, <1>3, <2>1 DEF CloseSends
  <2>2. CASE ~CanSend(i)
    <3>1. /\ UNCHANGED <<core, loaded, early, cmds, msgs, fw, irq, listed, packet>>
          /\ pc' = [pc EXCEPT ![i] = "finish"]
      BY <1>3, <2>2 DEF CloseSends
    <3>2. \A j \in Inst : InSession(j)' => InSession(j)
      BY <3>1 DEF InSession, TypeOK
    <3>3. QED
      BY <3>1, <3>2, BootKept, KnowsKept DEF Answering
  <2>3. QED
    BY <2>1, <2>2
<1>4. CASE CloseTimesOut(i)
  <2>1. CASE i \in listed
    BY <1>4, <2>1, BootDeinit, KnowsDeinit DEF CloseTimesOut
  <2>2. CASE i \notin listed
    <3>1. /\ UNCHANGED <<core, loaded, early, cmds, msgs, fw, irq, listed, packet>>
          /\ pc' = [pc EXCEPT ![i] = "finish"]
      BY <1>4, <2>2 DEF CloseTimesOut
    <3>2. \A j \in Inst : InSession(j)' => InSession(j)
      BY <3>1 DEF InSession, TypeOK
    <3>3. QED
      BY <3>1, <3>2, BootKept, KnowsKept DEF Answering
  <2>3. QED
    BY <2>1, <2>2
<1>5. CASE \/ IoctlUpdates(i) \/ CloseAnswered(i) \/ CloseFinishes(i)
           \/ ClosePuts(i) \/ CloseSchedules(i)
  <2>1. /\ UNCHANGED <<core, loaded, early, cmds, msgs, fw, irq, listed>>
        /\ packet' \subseteq packet
    BY <1>5 DEF IoctlUpdates, CloseAnswered, CloseFinishes, ClosePuts, CloseSchedules
  <2>2. \E l \in {"open", "finish", "put", "schedule", "closed"} :
          /\ pc' = [pc EXCEPT ![i] = l]
          /\ l = "open" => pc[i] = "update"
    BY <1>5 DEF IoctlUpdates, CloseAnswered, CloseFinishes, ClosePuts, CloseSchedules
  <2>3. \A j \in Inst : InSession(j)' => InSession(j)
    BY <2>1, <2>2 DEF InSession, TypeOK
  <2>4. QED
    BY <2>1, <2>3, BootKept, KnowsKept DEF Answering
<1>6. QED
  BY <1>2, <1>3, <1>4, <1>5 DEF Ioctl, Close

LEMMA ReapFirmware ==
  ASSUME IInv, TypeOK, FInv, NEW i \in Inst, Reap(i)
  PROVE  FInv'
<1> USE DEF FInv, lists, mem, client, Goto
<1>1. /\ UNCHANGED <<core, loaded, early, cmds, msgs, fw, irq, packet>>
      /\ listed' \subseteq listed
      /\ pc' = pc \/ pc' = [pc EXCEPT ![i] = "closed"]
  BY DEF Reap, Unlist, Free
<1>2. \A j \in Inst : InSession(j)' => InSession(j)
  BY <1>1 DEF InSession, TypeOK
<1>3. QED
  BY <1>1, <1>2, BootKept, KnowsKept DEF Answering

LEMMA IrqFirmware ==
  ASSUME IInv, TypeOK, FInv, Irq
  PROVE  FInv'
<1> USE DEF FInv, lists, mem, client
<1>1. CASE \/ IrqCaches \/ IrqDrained \/ IrqReturns
           \/ \E i \in Inst : IrqCloseDone(i) \/ IrqPuts(i)
  <2>1. UNCHANGED <<core, loaded, early, cmds, msgs, fw, listed, packet, pc>>
    BY <1>1 DEF IrqCaches, IrqDrained, IrqReturns, IrqCloseDone, IrqPuts
  <2>2. irq'.pkt = << >> \/ (irq'.pkt = irq.pkt /\ irq'.stale = irq.stale)
    <3>1. CASE IrqCaches \/ IrqDrained
      BY <3>1 DEF IrqCaches, IrqDrained, TypeOK
    <3>2. CASE IrqReturns
      BY <3>2 DEF IrqReturns, Idle
    <3>3. ASSUME NEW i \in Inst, IrqCloseDone(i) PROVE irq'.pkt = << >>
      BY <3>3 DEF IrqCloseDone, Handled, TypeOK
    <3>4. ASSUME NEW i \in Inst, IrqPuts(i)
          PROVE  irq'.pkt = irq.pkt /\ irq'.stale = irq.stale
      BY <3>4 DEF IrqPuts, TypeOK
    <3>5. QED
      BY <1>1, <3>1, <3>2, <3>3, <3>4
  <2>3. QED
    BY <2>1, <2>2, OthersAreNot, BootKept, KnowsKept DEF Answering, InSession
<1>2. CASE IrqWatchdog
  <2>1. /\ UNCHANGED <<loaded, early, cmds, msgs, fw, listed, packet, pc>>
        /\ core' \in {core, "ERROR"} /\ loaded
        /\ irq'.pkt = irq.pkt /\ irq'.stale = irq.stale
    BY <1>2 DEF IrqWatchdog, TypeOK
  <2>2. Boot'
    BY <2>1 DEF Boot, InitOnce, In, Answering
  <2>3. QED
    BY <2>1, <2>2, KnowsKept DEF InSession
<1>3. CASE IrqWatchdogDeinit \/ IrqSysError
  BY <1>3, BootDeinit, KnowsDeinit DEF IrqWatchdogDeinit, IrqSysError
<1>4. CASE IrqReads
  <2>1. /\ UNCHANGED <<core, loaded, early, cmds, fw, listed, packet, pc>>
        /\ msgs' = Tail(msgs) /\ msgs # << >>
        /\ irq'.pkt = Head(msgs) /\ irq'.stale = FALSE
    BY <1>4 DEF IrqReads, TypeOK
  <2>2. PICK n \in Nat : n = Len(msgs)
    BY DEF TypeOK
  <2>3. /\ n >= 1 /\ Len(msgs') = n - 1
        /\ \A k \in 1..(n - 1) : msgs'[k] = msgs[k + 1]
        /\ Head(msgs) = msgs[1]
    BY <2>1, <2>2 DEF TypeOK
  <2>4. In(SysInit, msgs') \/ Answering' => In(SysInit, msgs)
    BY <2>1, <2>2, <2>3 DEF In, Answering
  <2>5. /\ In(SysInit, msgs) /\ Answering' /\ loaded => ~In(SysInit, msgs')
    BY <2>1, <2>2, <2>3 DEF Boot, InitOnce, In, Answering
  <2>6. In(SysInit, msgs') /\ loaded =>
          \A j, k \in 1..(n - 1) : msgs'[j] = SysInit /\ msgs'[k] = SysInit => j = k
    <3>1. SUFFICES ASSUME In(SysInit, msgs'), loaded, NEW j \in 1..(n - 1),
                          NEW k \in 1..(n - 1), msgs'[j] = SysInit, msgs'[k] = SysInit
                   PROVE  j = k
      OBVIOUS
    <3>2. /\ j + 1 \in 1..n /\ k + 1 \in 1..n
          /\ msgs[j + 1] = SysInit /\ msgs[k + 1] = SysInit
      BY <2>3, <3>1
    <3>3. j + 1 = k + 1
      BY <2>2, <2>4, <3>1, <3>2 DEF Boot, InitOnce
    <3>4. QED
      BY <3>3
  <2>7. Boot'
    <3>1. ASSUME loaded PROVE InitOnce'
      <4>1. InitOnce
        BY <3>1 DEF Boot
      <4>2. In(SysInit, cmds)' = In(SysInit, cmds)
        BY <2>1 DEF In
      <4>3. QED
        BY <2>1, <2>3, <2>4, <2>5, <2>6, <3>1, <4>1, <4>2 DEF InitOnce
    <3>2. QED
      BY <2>1, <3>1 DEF Boot
  <2>8. QED
    BY <2>1, <2>7, KnowsKept DEF InSession
<1>5. CASE IrqSysInit
  <2>1. /\ UNCHANGED <<loaded, early, cmds, msgs, fw, listed, packet, pc>>
        /\ irq.pkt = SysInit /\ irq'.pkt = << >>
        /\ core' = IF ~irq.stale /\ core = "INIT_WAIT" THEN "INIT" ELSE core
    BY <1>5 DEF IrqSysInit, Handled, ReplyMatches, TypeOK, SysInit
  <2>2. ~Answering'
    BY <2>1, OthersAreNot DEF Answering
  <2>3. Boot'
    <3>1. CASE core' = core
      BY <2>1, <2>2, <3>1, BootKept
    <3>2. CASE core' # core
      <4>1. Answering /\ core = "INIT_WAIT" /\ core' = "INIT"
        BY <2>1, <3>2 DEF Answering
      <4>2. loaded => ~In(SysInit, cmds) /\ ~In(SysInit, msgs)
        BY <4>1 DEF Boot, InitOnce
      <4>3. loaded => InitOnce'
        BY <2>1, <4>2 DEF InitOnce, In
      <4>4. QED
        BY <2>1, <4>1, <4>3 DEF Boot
    <3>3. QED
      BY <3>1, <3>2
  <2>4. QED
    BY <2>1, <2>3, KnowsKept DEF InSession
<1>6. QED
  BY <1>1, <1>2, <1>3, <1>4, <1>5 DEF Irq

LEMMA OtherFirmware ==
  ASSUME IInv, TypeOK, FInv,
         \/ UnloadWork \/ PmWorkGivesUp \/ PmFreeze \/ FwAnswers \/ FwBreaks
         \/ \E i \in Inst : FaultTakes(i) \/ FaultPuts(i)
  PROVE  FInv'
<1> USE DEF FInv, lists, mem, client
<1>1. CASE UnloadWork
  <2>1. CASE listed = {}
    BY <1>1, <2>1, BootDeinit, KnowsDeinit DEF UnloadWork
  <2>2. CASE listed # {}
    BY <1>1, <2>2, BootKept, KnowsKept DEF UnloadWork, Answering, InSession
  <2>3. QED
    BY <2>1, <2>2
<1>2. CASE PmWorkGivesUp \/ PmFreeze
  BY <1>2, BootDeinit, KnowsDeinit DEF PmWorkGivesUp, PmFreeze
<1>3. CASE \E i \in Inst : FaultTakes(i) \/ FaultPuts(i)
  BY <1>3, BootKept, KnowsKept DEF FaultTakes, FaultPuts, Answering, InSession
<1>4. CASE FwAnswers
  <2>1. UNCHANGED <<core, loaded, early, listed, packet, pc, irq>>
    BY <1>4 DEF FwAnswers
  <2>2. PICK cmd \in Commands : cmd = Head(cmds)
    BY <1>4 DEF FwAnswers, TypeOK
  <2>3. PICK n \in Nat : n = Len(cmds)
    BY DEF TypeOK
  <2>4. /\ n >= 1 /\ Len(cmds') = n - 1 /\ cmds[1] = cmd
        /\ \A k \in 1..(n - 1) : cmds'[k] = cmds[k + 1]
    BY <1>4, <2>2, <2>3 DEF FwAnswers, TypeOK
  <2>5. loaded /\ InitOnce /\ fw'.run = "on"
    BY <1>4 DEF FwAnswers, Boot, TypeOK
  <2>6. ~In(SysInit, cmds')
    <3>1. SUFFICES ASSUME NEW k \in 1..(n - 1), cmds'[k] = SysInit PROVE FALSE
      BY <2>4 DEF In
    <3>2. cmds[k + 1] = SysInit /\ k + 1 \in 2..n
      BY <2>4, <3>1
    <3>3. QED
      BY <2>3, <2>5, <3>2 DEF InitOnce, In
  <2>7. CASE cmd = SysInit
    <3>1. msgs' = Append(msgs, SysInit) /\ fw' = fw
      BY <1>4, <2>2, <2>7 DEF FwAnswers, SysInit
    <3>2. In(SysInit, cmds)
      BY <2>3, <2>4, <2>7 DEF In
    <3>3. core # "INIT" /\ ~In(SysInit, msgs) /\ ~Answering
      BY <2>5, <3>2 DEF InitOnce
    <3>4. PICK m \in Nat : m = Len(msgs)
      BY DEF TypeOK
    <3>5. /\ Len(msgs') = m + 1 /\ \A k \in 1..m : msgs'[k] = msgs[k]
      BY <3>1, <3>4, OthersAreNot DEF TypeOK
    <3>6. \A k \in 1..(m + 1) : msgs'[k] = SysInit => k = m + 1
      BY <3>3, <3>4, <3>5 DEF In
    <3>7. InitOnce'
      BY <2>1, <2>6, <3>3, <3>5, <3>6 DEF InitOnce, Answering
    <3>8. Boot'
      BY <2>1, <2>5, <3>7 DEF Boot
    <3>9. \A i \in Inst : cmd # <<"open", i>> /\ cmd # <<"close", i>>
      BY <2>7, OthersAreNot
    <3>10. fw'.sessions = fw.sessions
      BY <3>1
    <3>11. QED
      BY <2>1, <2>3, <2>4, <3>8, <3>9, <3>10, KnowsAnswers
  <2>8. ASSUME NEW i \in Inst, NEW t \in {"open", "use", "close"}, cmd = <<t, i>>
        PROVE  FInv'
    <3>1. cmd[1] = t /\ cmd[2] = i /\ cmd # SysInit
      BY <2>8, OthersAreNot
    <3>2. msgs' = msgs \/ msgs' = Append(msgs, <<"close_done", i>>)
      BY <1>4, <2>2, <3>1 DEF FwAnswers
    <3>3. fw'.sessions = CASE t = "open" -> fw.sessions \cup {i}
                           [] t = "close" -> fw.sessions \ {i}
                           [] OTHER -> fw.sessions
      BY <1>4, <2>2, <3>1 DEF FwAnswers, TypeOK
    <3>4. InitOnce'
      BY <2>1, <2>5, <2>6, <3>2, OthersAreNot, Values, AppendsOther
    <3>5. Boot'
      BY <2>1, <2>5, <3>4 DEF Boot
    <3>6. \A j \in Inst :
            /\ cmd = <<"open", j>> => j \in fw'.sessions
            /\ cmd # <<"close", j>> /\ j \in fw.sessions => j \in fw'.sessions
      BY <2>8, <3>3
    <3>7. QED
      BY <2>1, <2>3, <2>4, <3>5, <3>6, KnowsAnswers
  <2>9. QED
    BY <2>2, <2>7, <2>8, Values DEF SysInit
<1>5. CASE FwBreaks
  <2>1. /\ UNCHANGED <<core, loaded, early, cmds, listed, packet, pc, irq>>
        /\ msgs' = msgs \/ msgs' = Append(msgs, <<"error">>)
        /\ fw'.sessions = fw.sessions /\ fw.run # "off" /\ fw'.run # "off"
    BY <1>5 DEF FwBreaks, TypeOK
  <2>2. loaded /\ InitOnce /\ (In(SysInit, cmds') => In(SysInit, cmds))
    BY <2>1 DEF Boot, In
  <2>3. InitOnce'
    BY <2>1, <2>2, OthersAreNot, Values, AppendsOther
  <2>4. Boot'
    BY <2>1, <2>2, <2>3 DEF Boot
  <2>5. QED
    BY <2>1, <2>4, KnowsKept DEF InSession
<1>6. QED
  BY <1>1, <1>2, <1>3, <1>4, <1>5

LEMMA NextFInv == IInv /\ TypeOK /\ FInv /\ [Next]_vars => FInv'
<1> SUFFICES ASSUME IInv, TypeOK, FInv, [Next]_vars PROVE FInv'
  OBVIOUS
<1>1. CASE UNCHANGED vars
  BY <1>1, BootKept, KnowsKept DEF FInv, vars, lists, mem, client, Answering, InSession
<1>2. CASE Next
  BY <1>2, OpenFirmware, UseFirmware, ReapFirmware, IrqFirmware, OtherFirmware DEF Next
<1>3. QED
  BY <1>1, <1>2

LEMMA FInvHolds == Spec => []FInv
BY Invariance, TypesHold, InitFInv, NextFInv, PTL DEF Spec

(***************************************************************************)
(* The core is INIT only over a firmware whose SYS_INIT was answered, and  *)
(* no session outlives a reload: the firmware that runs knows every open   *)
(* session of the list, and gets a command of a session only after its     *)
(* open.  The reply is read without core->lock, any thread may deinit the  *)
(* core meanwhile, and the next open may boot it again.                    *)
(***************************************************************************)
THEOREM FirmwareAlwaysAgrees == Spec => []FirmwareAgrees
<1>1. TypeOK /\ FInv => InitMeansBooted
  <2> SUFFICES ASSUME TypeOK, FInv PROVE InitMeansBooted
    OBVIOUS
  <2>1. core = "INIT" /\ loaded => ~In(SysInit, cmds) /\ ~In(SysInit, msgs)
    BY DEF FInv, Boot, InitOnce
  <2>2. In(SysInit, cmds \o msgs) => In(SysInit, cmds) \/ In(SysInit, msgs)
    <3>1. PICK m \in Nat, n \in Nat : m = Len(cmds) /\ n = Len(msgs)
      BY DEF TypeOK
    <3>2. /\ Len(cmds \o msgs) = m + n
          /\ \A k \in 1..(m + n) :
               (cmds \o msgs)[k] = IF k <= m THEN cmds[k] ELSE msgs[k - m]
      BY <3>1, ConcatProperties DEF TypeOK
    <3>3. ASSUME NEW k \in 1..(m + n), (cmds \o msgs)[k] = SysInit
          PROVE  In(SysInit, cmds) \/ In(SysInit, msgs)
      <4>1. CASE k <= m
        BY <3>1, <3>2, <3>3, <4>1 DEF In
      <4>2. CASE k > m
        <5>1. k - m \in 1..n /\ msgs[k - m] = SysInit
          BY <3>2, <3>3, <4>2
        <5>2. QED
          BY <3>1, <5>1 DEF In
      <4>3. QED
        BY <4>1, <4>2
    <3>4. QED
      BY <3>2, <3>3 DEF In
  <2>3. QED
    BY <2>1, <2>2 DEF InitMeansBooted, FInv, Boot, SysInit
<1>2. TypeOK /\ FInv => FirmwareKnowsSessions
  <2> SUFFICES ASSUME TypeOK, FInv PROVE FirmwareKnowsSessions
    OBVIOUS
  <2>1. PICK n \in Nat : n = Len(cmds)
    BY DEF TypeOK
  <2>2. ASSUME NEW i \in listed \cap packet, fw.run # "off", pc[i] \in {"open", "update"}
        PROVE  i \in fw.sessions \/ In(<<"open", i>>, cmds)
    <3>1. Known(i, n)
      BY <2>1, <2>2 DEF FInv, Boot, Knows, InSession, TypeOK
    <3>2. QED
      BY <2>1, <3>1 DEF Known, In
  <2>3. ASSUME NEW k \in 1..n, cmds[k][1] \in {"use", "close"}
        PROVE  cmds[k][2] \in fw.sessions \/ In(<<"open", cmds[k][2]>>, SubSeq(cmds, 1, k - 1))
    <3>1. PICK i \in Inst : cmds[k] \in {<<"use", i>>, <<"close", i>>}
      <4>1. cmds[k] \in Commands
        BY <2>1 DEF TypeOK
      <4>2. cmds[k] # <<"sys_init">>
        BY <2>3
      <4>3. QED
        BY <2>3, <4>1, <4>2, Values
    <3>2. Known(i, k - 1) /\ cmds[k][2] = i
      BY <2>1, <3>1 DEF FInv, Knows
    <3>3. /\ Len(SubSeq(cmds, 1, k - 1)) = k - 1
          /\ \A m \in 1..(k - 1) : SubSeq(cmds, 1, k - 1)[m] = cmds[m]
      BY <2>1 DEF TypeOK
    <3>4. QED
      BY <3>2, <3>3 DEF Known, In
  <2>4. QED
    BY <2>1, <2>2, <2>3 DEF FirmwareKnowsSessions
<1>3. QED
  BY <1>1, <1>2, TypesHold, FInvHolds, PTL DEF FirmwareAgrees
=============================================================================
