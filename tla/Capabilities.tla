---------------------------- MODULE Capabilities ----------------------------
(***************************************************************************)
(* The controls of a session and the capabilities behind them              *)
(* (msm_vidc_control.c).                                                    *)
(*                                                                         *)
(* A capability may have children, whose values depend on its own.  Once   *)
(* per session the capabilities are sorted, parents first, into caps_list  *)
(* (msm_vidc_prepare_dependency_list), by which they are adjusted when     *)
(* buffers are requested and told to the firmware when the stream goes on. *)
(* A control that is set while the session streams adjusts the capability  *)
(* and, level by level, its children, and tells the firmware those whose   *)
(* values have changed.                                                    *)
(*                                                                         *)
(* All of it is done under inst->lock: there is one handler at a time, and *)
(* an action is one turn of one of its loops.  The adjust and set          *)
(* functions of a capability are abstract: adjust may change the value,    *)
(* change those of other capabilities beside it, or fail; set may fail,    *)
(* and whether it finds anything to send is its own affair.                *)
(***************************************************************************)
EXTENDS Naturals, Sequences, SequencesExt

CONSTANTS
  Cap,        \* the capabilities a table may name
  Config,     \* the tables of the sessions there may be
  Busy,       \* the platforms whose sessions do all they can: adjust and
              \* set functions fail, or change nothing, and the client stops
              \* and starts again.  The others stream, set one control
              \* after the other, each with a new value, until one fails,
              \* and close
  GopSize,    \* capability GOP_SIZE: the same value again is ignored
  LineCount   \* capability EARLY_NOTIFY_LINE_COUNT: has its children
              \* adjusted even then

\* A table: the platform, domain and codec it is for; the capabilities, in the
\* order of their ids, and their children; those that have an adjust or a set
\* function, and those that may be set while streaming; beside: the other
\* capabilities an adjust function may change; accepted: the platform is
\* probed without an error.
ASSUME CapAssumption == \A t \in Config :
  /\ t.caps \in Seq(Cap) /\ IsInjective(t.caps)
  /\ DOMAIN t.kids = ToSet(t.caps)
  /\ \A c \in DOMAIN t.kids : t.kids[c] \in Seq(Cap)
  /\ t.adjust \subseteq ToSet(t.caps) /\ t.set \subseteq ToSet(t.caps)
  /\ t.dynamic \subseteq ToSet(t.caps)
  /\ t.beside \in [t.adjust -> SUBSET ToSet(t.caps)]
  /\ t.accepted \in BOOLEAN

VARIABLES
  pc,         \* what the session is doing: a handler's loop, or "rest"
  inst,       \* inst->capabilities, a copy of one of the tables
  bufs,       \* the master port has buffers
  streaming,  \* the master port streams
  caps,       \* inst->caps_list
  prepared,   \* inst->caps_list_prepared
  opt, leaf,  \* opt_list and leaf_list
  count,      \* nodes: num_nodes; left: tmp_count
  walk,       \* what a loop over a list has before it
  behind,     \* the part of children_list its loop has left behind
  fw,         \* inst->firmware_list
  unset,      \* history: capabilities whose set function has not been
              \* called since their own control or adjust changed them
  aside,      \* history: the same of those the adjust function of another
              \* has changed
  stale,      \* history: the codec has changed since caps_list was made
  failed      \* history: a control has failed since the stream went on

session == <<inst, bufs, streaming, caps, prepared, stale>>
sort    == <<opt, leaf, count>>
lists   == <<walk, behind, fw>>
known   == <<unset, aside>>
vars    == <<pc, session, sort, lists, known, failed>>

Valid     == ToSet(inst.caps)                    \* is_valid_cap
Kids(c)   == ToSet(inst.kids[c])
IsLeaf(c) == inst.kids[c] = << >>

NoCount == [nodes |-> 0, left |-> 0]

Init ==
  /\ pc = "probe"
  /\ inst \in Config
  /\ bufs = FALSE /\ streaming = FALSE
  /\ caps = << >> /\ prepared = FALSE
  /\ opt = << >> /\ leaf = << >> /\ count = NoCount
  /\ walk = << >> /\ behind = << >> /\ fw = << >>
  /\ unset = Valid /\ aside = {} /\ stale = FALSE /\ failed = FALSE

\* The probe reads the tables; no device is registered if it fails.
Probe ==
  /\ pc = "probe"
  /\ pc' = IF inst.accepted THEN "rest" ELSE "absent"
  /\ UNCHANGED <<session, sort, lists, known, failed>>

-----------------------------------------------------------------------------
(* The sort.                                                               *)

\* queue_setup of either port.
Prepare ==
  /\ pc = "rest" /\ ~streaming /\ ~prepared
  /\ walk' = inst.caps /\ pc' = "list"
  /\ UNCHANGED <<session, sort, behind, fw, known, failed>>

\* add_node, in the order of the ids: list_add, at the head.
AddNode ==
  /\ pc = "list" /\ walk # << >>
  /\ walk' = Tail(walk)
  /\ IF IsLeaf(Head(walk))
     THEN leaf' = <<Head(walk)>> \o leaf /\ UNCHANGED opt
     ELSE opt' = <<Head(walk)>> \o opt /\ UNCHANGED leaf
  /\ UNCHANGED <<pc, session, count, behind, fw, known, failed>>

NodesAdded ==
  /\ pc = "list" /\ walk = << >>
  /\ count' = [nodes |-> Len(opt), left |-> Len(opt)]
  /\ pc' = "sort"
  /\ UNCHANGED <<session, opt, leaf, lists, known, failed>>

\* The loop takes the head of opt_list: the one it took before has gone to
\* leaf_list or to the tail, and the next had been read before that.
Entry    == Head(opt)
\* Mutant: children the session does not have are not waited for.
IsReadyOfOwn == Kids(Entry) \cap Valid \subseteq ToSet(leaf)
IsReady      == Kids(Entry) \subseteq ToSet(leaf)    \* is_all_childrens_visited

\* A round ends when as many entries have been seen as there were at its
\* beginning; LoopDetected: it has moved none.  total: tmp_count_total.
\* Mutants: every round is taken for one without progress, or none is.
RoundEnds                  == count.left = 1
LoopDetectedAlways(total)  == RoundEnds
LoopDetectedNever(total)   == FALSE
LoopDetected(total)        == RoundEnds /\ count.nodes = total
Counted(total) == IF RoundEnds THEN [nodes |-> total, left |-> total]
                               ELSE [count EXCEPT !.left = @ - 1]

\* Mutant: the entry goes to the tail of leaf_list.
EntryIsReadyLast ==
  /\ pc = "sort" /\ opt # << >> /\ IsReady
  /\ opt' = Tail(opt) /\ leaf' = Append(leaf, Entry)
  /\ count' = Counted(Len(opt) - 1)
  /\ pc' = IF LoopDetected(Len(opt) - 1) THEN "refused" ELSE "sort"
  /\ UNCHANGED <<session, lists, known, failed>>

EntryIsReady ==
  /\ pc = "sort" /\ opt # << >> /\ IsReady
  /\ opt' = Tail(opt) /\ leaf' = <<Entry>> \o leaf
  /\ count' = Counted(Len(opt) - 1)
  /\ pc' = IF LoopDetected(Len(opt) - 1) THEN "refused" ELSE "sort"
  /\ UNCHANGED <<session, lists, known, failed>>

\* Of a list of one the loop has no next entry: it ends with opt_list not
\* empty.
EntryWaits ==
  /\ pc = "sort" /\ opt # << >> /\ ~IsReady
  /\ opt' = Append(Tail(opt), Entry)
  /\ count' = Counted(Len(opt))
  /\ pc' = IF LoopDetected(Len(opt)) \/ Len(opt) = 1 THEN "refused" ELSE "sort"
  /\ UNCHANGED <<leaf, session, lists, known, failed>>

\* list_replace_init to caps_list.
SortEnds ==
  /\ pc = "sort" /\ opt = << >>
  /\ caps' = leaf /\ prepared' = TRUE /\ stale' = FALSE
  /\ leaf' = << >> /\ count' = NoCount
  /\ pc' = "rest"
  /\ UNCHANGED <<inst, bufs, streaming, opt, lists, known, failed>>

\* -EINVAL: both lists are freed, and the buffers are not had.
Refuse ==
  /\ pc = "refused"
  /\ opt' = << >> /\ leaf' = << >> /\ count' = NoCount
  /\ pc' = "rest"
  /\ UNCHANGED <<session, lists, known, failed>>

-----------------------------------------------------------------------------
(* Buffers and streams.                                                    *)

MayFail == inst.platform \in Busy

\* What adjust may do to a value: change it or leave it; and to the values of
\* others.
Changes == {TRUE} \cup {x \in {FALSE} : MayFail}
SideEffects(c) ==
  IF c \notin inst.adjust THEN {{}}
  ELSE IF MayFail THEN SUBSET inst.beside[c] ELSE {inst.beside[c]}

\* The values change and the set functions have yet to be called, or the one
\* of c has been.
Changed(c, changed, others) ==
  /\ unset' = IF changed THEN unset \cup {c} ELSE unset
  /\ aside' = aside \cup others
IsSet(c) ==
  IF c \in inst.set THEN unset' = unset \ {c} /\ aside' = aside \ {c}
                    ELSE UNCHANGED known

\* queue_setup of the master port, with the list prepared.
AdjustAll ==
  /\ pc = "rest" /\ prepared /\ ~bufs /\ ~streaming
  /\ walk' = caps /\ pc' = "adjust"
  /\ UNCHANGED <<session, sort, behind, fw, known, failed>>

AdjustOne ==
  /\ pc = "adjust" /\ walk # << >>
  /\ walk' = Tail(walk)
  /\ \E changed \in Changes, others \in SideEffects(Head(walk)) :
       Changed(Head(walk), changed /\ Head(walk) \in inst.adjust, others)
  /\ UNCHANGED <<pc, session, sort, behind, fw, failed>>

AdjustFails ==
  /\ pc = "adjust" /\ walk # << >>
  /\ MayFail /\ Head(walk) \in inst.adjust
  /\ walk' = << >> /\ pc' = "rest"
  /\ UNCHANGED <<session, sort, behind, fw, known, failed>>

Adjusted ==
  /\ pc = "adjust" /\ walk = << >>
  /\ bufs' = TRUE /\ pc' = "rest"
  /\ UNCHANGED <<inst, streaming, caps, prepared, stale, sort, lists, known, failed>>

FreeBufs ==
  /\ pc = "rest" /\ bufs /\ ~streaming /\ MayFail
  /\ bufs' = FALSE
  /\ UNCHANGED <<pc, inst, streaming, caps, prepared, stale, sort, lists, known, failed>>

\* streamon of the master port.
SetAll ==
  /\ pc = "rest" /\ bufs /\ ~streaming
  /\ walk' = caps /\ pc' = "set"
  /\ UNCHANGED <<session, sort, behind, fw, known, failed>>

SetOne ==
  /\ pc = "set" /\ walk # << >>
  /\ walk' = Tail(walk)
  /\ IsSet(Head(walk))
  /\ UNCHANGED <<pc, session, sort, behind, fw, failed>>

SetFails ==
  /\ pc = "set" /\ walk # << >>
  /\ MayFail /\ Head(walk) \in inst.set
  /\ walk' = << >> /\ pc' = "rest"
  /\ UNCHANGED <<session, sort, behind, fw, known, failed>>

StreamOn ==
  /\ pc = "set" /\ walk = << >>
  /\ streaming' = TRUE /\ failed' = FALSE /\ pc' = "rest"
  /\ UNCHANGED <<inst, bufs, caps, prepared, stale, sort, lists, known>>

StreamOff ==
  /\ pc = "rest" /\ streaming /\ MayFail
  /\ streaming' = FALSE
  /\ UNCHANGED <<pc, inst, bufs, caps, prepared, stale, sort, lists, known, failed>>

\* s_fmt with another codec: the capabilities are copied from the table of
\* that codec, caps_list and caps_list_prepared stay.
codec_change ==
  /\ pc = "rest" /\ ~bufs /\ ~streaming /\ MayFail
  /\ inst' \in {t \in Config : t.platform = inst.platform /\ t.domain = inst.domain}
  /\ inst'.codec # inst.codec
  /\ unset' = Valid' /\ aside' = {} /\ stale' = TRUE
  /\ UNCHANGED <<pc, bufs, streaming, caps, prepared, sort, lists, failed>>

\* The session is closed and another one opened: caps_list is freed, and
\* caps_list_prepared is FALSE.
Reopen ==
  /\ pc = "rest"
  /\ inst' \in {t \in Config : t.platform = inst.platform}
  /\ bufs' = FALSE /\ streaming' = FALSE /\ failed' = FALSE
  /\ caps' = << >> /\ prepared' = FALSE /\ stale' = FALSE
  /\ unset' = Valid' /\ aside' = {}
  /\ UNCHANGED <<pc, sort, lists>>

-----------------------------------------------------------------------------
(* Controls.                                                               *)

\* msm_vidc_update_static_property: the value is stored.  (A few of them store
\* the value of a second capability too, which is another step here.)
StaticControl(c) ==
  /\ pc = "rest" /\ ~streaming /\ MayFail
  /\ Changed(c, TRUE, {})
  /\ UNCHANGED <<pc, session, sort, lists, failed>>

\* list_add of entries one after the other: the last comes first.
Pushed(new, list) == Reverse(new) \o list
AddToFw(c)        == IF c \in ToSet(fw) THEN fw ELSE <<c>> \o fw

\* msm_vidc_adjust_dynamic_property, up to the loop over the children.  A
\* capability without an adjust function takes the client's value.
DynamicControl(c, changed, others) ==
  /\ pc = "rest" /\ streaming /\ c \in inst.dynamic
  /\ MayFail \/ ~failed
  /\ changed \/ c # GopSize
  /\ fw' = AddToFw(c)
  /\ Changed(c, changed, others)
  /\ IF changed \/ c = LineCount
     THEN walk' = Pushed(inst.kids[c], << >>) /\ pc' = "kids"
     ELSE UNCHANGED walk /\ pc' = "tell"
  /\ UNCHANGED <<session, sort, behind, failed>>

\* The error path of a control: both lists are freed, the values stay.
Fails ==
  /\ walk' = << >> /\ behind' = << >> /\ fw' = << >>
  /\ failed' = TRUE /\ pc' = "rest"
  /\ UNCHANGED <<session, sort, known>>

DynamicControlFails ==
  /\ pc = "rest" /\ streaming /\ MayFail
  /\ inst.dynamic \cap inst.adjust # {}
  /\ Fails

Kid    == Head(walk)
InKids == pc = "kids" /\ walk # << >>

KidUnchanged ==
  /\ InKids /\ Kid \in inst.adjust /\ FALSE \in Changes
  /\ walk' = Tail(walk)
  /\ \E others \in SideEffects(Kid) : Changed(Kid, FALSE, others)
  /\ UNCHANGED <<pc, session, sort, behind, fw, failed>>

\* The children of a child go to the head of children_list.  What its adjust
\* function has changed beside it is put in no list.
\* Mutant: the child is not put in firmware_list.
KidChangedUnlisted ==
  /\ InKids /\ Kid \in inst.adjust
  /\ walk' = Tail(walk)
  /\ behind' = Pushed(inst.kids[Kid], behind)
  /\ \E others \in SideEffects(Kid) : Changed(Kid, TRUE, others)
  /\ UNCHANGED <<pc, session, sort, fw, failed>>

KidChanged ==
  /\ InKids /\ Kid \in inst.adjust
  /\ walk' = Tail(walk)
  /\ behind' = Pushed(inst.kids[Kid], behind)
  /\ fw' = AddToFw(Kid)
  /\ \E others \in SideEffects(Kid) : Changed(Kid, TRUE, others)
  /\ UNCHANGED <<pc, session, sort, failed>>

\* "child cap must have ajdust function", or its adjust function fails.
KidFails ==
  /\ InKids /\ (MayFail \/ Kid \notin inst.adjust)
  /\ Fails

\* "expecting children_list to be empty"
KidsEnd ==
  /\ pc = "kids" /\ walk = << >>
  /\ IF behind = << >>
     THEN pc' = "tell" /\ UNCHANGED <<session, sort, lists, known, failed>>
     ELSE Fails

\* msm_vidc_set_dynamic_property
TellOne ==
  /\ pc = "tell" /\ fw # << >>
  /\ fw' = Tail(fw)
  /\ IsSet(Head(fw))
  /\ UNCHANGED <<pc, session, sort, walk, behind, failed>>

TellFails ==
  /\ pc = "tell" /\ fw # << >> /\ MayFail /\ Head(fw) \in inst.set
  /\ Fails

ControlEnds ==
  /\ pc = "tell" /\ fw = << >>
  /\ pc' = "rest"
  /\ UNCHANGED <<session, sort, lists, known, failed>>

-----------------------------------------------------------------------------
\* What a handler that has begun does next.
Goes ==
  \/ AddNode \/ NodesAdded \/ EntryIsReady \/ EntryWaits \/ SortEnds \/ Refuse
  \/ AdjustOne \/ AdjustFails \/ Adjusted \/ SetOne \/ SetFails \/ StreamOn
  \/ KidUnchanged \/ KidChanged \/ KidFails \/ KidsEnd
  \/ TellOne \/ TellFails \/ ControlEnds

Client ==
  \/ Prepare \/ AdjustAll \/ FreeBufs \/ SetAll \/ StreamOff \/ codec_change
  \/ Reopen \/ DynamicControlFails
  \/ \E c \in Valid : \/ StaticControl(c)
                      \/ \E changed \in Changes, others \in SideEffects(c) :
                           DynamicControl(c, changed, others)

Next == Probe \/ Goes \/ Client

\* A handler does not stop half way.
Spec == Init /\ [][Next]_vars /\ WF_vars(Goes)

-----------------------------------------------------------------------------
(* Properties.                                                             *)

Handlers == {"probe", "absent", "rest", "list", "sort", "refused", "adjust", "set",
             "kids", "tell"}

(* The values of the variables.                                            *)
TypeOK ==
  /\ pc \in Handlers /\ inst \in Config /\ stale \in BOOLEAN
  /\ bufs \in BOOLEAN /\ streaming \in BOOLEAN /\ prepared \in BOOLEAN
  /\ failed \in BOOLEAN
  /\ caps \in Seq(Cap) /\ opt \in Seq(Cap) /\ leaf \in Seq(Cap)
  /\ count \in [nodes : Nat, left : Nat]
  /\ walk \in Seq(Cap) /\ behind \in Seq(Cap) /\ fw \in Seq(Cap)
  /\ unset \subseteq Cap /\ aside \subseteq Cap

\* Every child of a capability comes after it.
Sorted(list, kids) ==
  \A m \in 1..Len(list) : \A k \in ToSet(kids[list[m]]) :
    \E n \in (m + 1)..Len(list) : list[n] = k

(* What the header says of caps_list, for whatever table: it has every     *)
(* capability of the session, once, and the parents at the front, unless   *)
(* the codec has changed since it was made; and leaf_list is so at every   *)
(* turn of the sort.                                                       *)
ParentsFirst ==
  /\ Sorted(leaf, inst.kids) /\ IsInjective(leaf)
  /\ prepared /\ ~stale =>
       Sorted(caps, inst.kids) /\ IsInjective(caps) /\ ToSet(caps) = Valid

(* The sort gives up for a reason only: the capabilities it is left with   *)
(* cannot be sorted by anyone, as each has a child among them or one the   *)
(* session does not have.                                                  *)
RefusedIsReal ==
  pc = "refused" =>
    /\ opt # << >> /\ ToSet(opt) \cup ToSet(leaf) = Valid
    /\ \A c \in ToSet(opt) : \E k \in Kids(c) : k \in ToSet(opt) \/ k \notin Valid

(* Between two calls nothing is left in the lists of a control for the     *)
(* next one, also after errors; and while a session streams whose controls *)
(* have all succeeded, the set function of every capability that its own   *)
(* control or its adjust function has changed has been called since, by    *)
(* the walk of caps_list or from firmware_list, unless the codec has       *)
(* changed since the list was made.  Not said of a capability that the     *)
(* adjust function of another has changed: those are aside, in no list,    *)
(* and HEVC_TIER, that the one of LEVEL changes                            *)
(* (msm_vidc_platform.c:1073), may stay so.                                *)
ChangesAreSet ==
  pc = "rest" =>
    /\ fw = << >> /\ walk = << >> /\ behind = << >>
    /\ streaming /\ ~failed /\ ~stale => unset \cap inst.set = {}

(* Every call comes to an end, the sort of a table with a loop as well.    *)
CallsEnd == pc \notin {"probe", "absent", "rest"} ~> pc = "rest"

(* The loop over children_list reaches all that is put into it: the code   *)
(* expects the list to be empty then.                                      *)
ChildrenReached == pc = "kids" /\ walk = << >> => behind = << >>
=============================================================================
