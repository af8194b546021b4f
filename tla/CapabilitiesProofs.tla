------------------------- MODULE CapabilitiesProofs -------------------------
(***************************************************************************)
(* The sort of the capabilities and what the firmware is told of them, for *)
(* every table and not only those of the platforms: any graph of children, *)
(* loops included, and any adjust and set functions.                       *)
(***************************************************************************)
EXTENDS Capabilities, Integers, SequenceTheorems, TLAPS

USE DEF known

-----------------------------------------------------------------------------
(* Lists: their first entry, and an entry added at either end.             *)

LEMMA EmptyList ==
  << >> \in Seq(Cap) /\ ToSet(<< >>) = {} /\ IsInjective(<< >>)
BY DEF ToSet, IsInjective

LEMMA HeadAndTail ==
  ASSUME NEW s \in Seq(Cap), s # << >>
  PROVE  /\ Head(s) \in Cap /\ Tail(s) \in Seq(Cap)
         /\ ToSet(s) = {Head(s)} \cup ToSet(Tail(s))
         /\ Len(s) \in Nat \ {0} /\ Len(Tail(s)) = Len(s) - 1
         /\ IsInjective(s) => IsInjective(Tail(s)) /\ Head(s) \notin ToSet(Tail(s))
<1>1. PICK n \in Nat : n + 1 = Len(s)
  BY LenProperties, EmptySeq
<1>2. /\ Tail(s) \in Seq(Cap) /\ Len(Tail(s)) = n
      /\ \A k \in 1..n : Tail(s)[k] = s[k + 1]
      /\ Head(s) = s[1] /\ s[1] \in Cap
  BY <1>1
<1>3. DOMAIN s = 1..(n + 1) /\ DOMAIN Tail(s) = 1..n
  BY <1>1, <1>2
<1>4. ToSet(s) = {Head(s)} \cup ToSet(Tail(s))
  <2>1. ASSUME NEW k \in 1..(n + 1) PROVE s[k] \in {Head(s)} \cup ToSet(Tail(s))
    <3>1. CASE k = 1
      BY <1>2, <3>1
    <3>2. CASE k # 1
      <4>1. k - 1 \in 1..n /\ (k - 1) + 1 = k
        BY <3>2
      <4>2. Tail(s)[k - 1] = s[k]
        BY <1>2, <4>1
      <4>3. QED
        BY <1>3, <4>1, <4>2 DEF ToSet
    <3>3. QED
      BY <3>1, <3>2
  <2>2. ASSUME NEW k \in 1..n PROVE Tail(s)[k] \in ToSet(s)
    BY <1>2, <1>3 DEF ToSet
  <2>3. Head(s) \in ToSet(s)
    BY <1>2, <1>3 DEF ToSet
  <2>4. QED
    BY <1>3, <2>1, <2>2, <2>3 DEF ToSet
<1>5. ASSUME IsInjective(s)
      PROVE  IsInjective(Tail(s)) /\ Head(s) \notin ToSet(Tail(s))
  <2>1. \A j, k \in 1..(n + 1) : s[j] = s[k] => j = k
    BY <1>3, <1>5 DEF IsInjective
  <2>2. ASSUME NEW j \in 1..n, NEW k \in 1..n, Tail(s)[j] = Tail(s)[k] PROVE j = k
    <3>1. s[j + 1] = s[k + 1] /\ j + 1 \in 1..(n + 1) /\ k + 1 \in 1..(n + 1)
      BY <1>2, <2>2
    <3>2. j + 1 = k + 1
      BY <2>1, <3>1
    <3>3. QED
      BY <3>2
  <2>3. ASSUME NEW k \in 1..n PROVE Tail(s)[k] # Head(s)
    <3>1. k + 1 \in 1..(n + 1) /\ 1 \in 1..(n + 1) /\ k + 1 # 1
      OBVIOUS
    <3>2. QED
      BY <1>2, <2>1, <3>1
  <2>4. QED
    BY <1>3, <2>2, <2>3 DEF IsInjective, ToSet
<1>6. QED
  BY <1>1, <1>2, <1>4, <1>5

\* Both are lists s with entry e before or after them.
LEMMA AddedAtHead ==
  ASSUME NEW s \in Seq(Cap), NEW e \in Cap
  PROVE  /\ <<e>> \o s \in Seq(Cap) /\ ToSet(<<e>> \o s) = {e} \cup ToSet(s)
         /\ Len(<<e>> \o s) = Len(s) + 1 /\ (<<e>> \o s)[1] = e
         /\ \A k \in 1..Len(s) : (<<e>> \o s)[k + 1] = s[k]
         /\ IsInjective(s) /\ e \notin ToSet(s) => IsInjective(<<e>> \o s)
<1> DEFINE t == <<e>> \o s
<1>1. PICK n \in Nat : n = Len(s)
  OBVIOUS
<1>2. <<e>> \in Seq(Cap) /\ Len(<<e>>) = 1 /\ <<e>>[1] = e
  OBVIOUS
<1>3. /\ t \in Seq(Cap) /\ Len(t) = n + 1 /\ t[1] = e
      /\ \A k \in 1..(n + 1) : t[k] = IF k <= 1 THEN <<e>>[k] ELSE s[k - 1]
  BY <1>1, <1>2, ConcatProperties
<1>4. ASSUME NEW k \in 1..n PROVE t[k + 1] = s[k]
  <2>1. k + 1 \in 1..(n + 1) /\ ~(k + 1 <= 1) /\ (k + 1) - 1 = k
    OBVIOUS
  <2>2. QED
    BY <1>3, <2>1
<1>5. DOMAIN t = 1..(n + 1) /\ DOMAIN s = 1..n
  BY <1>1, <1>3
<1>6. \A k \in 1..(n + 1) : k = 1 \/ (k - 1 \in 1..n /\ t[k] = s[k - 1])
  BY <1>3
<1>7. ToSet(t) = {e} \cup ToSet(s)
  <2>1. \A k \in 1..(n + 1) : t[k] \in {e} \cup ToSet(s)
    BY <1>3, <1>5, <1>6 DEF ToSet
  <2>2. \A k \in 1..n : s[k] \in ToSet(t)
    <3>1. \A k \in 1..n : k + 1 \in 1..(n + 1)
      OBVIOUS
    <3>2. QED
      BY <1>4, <1>5, <3>1 DEF ToSet
  <2>3. e \in ToSet(t)
    BY <1>3, <1>5 DEF ToSet
  <2>4. QED
    BY <1>5, <2>1, <2>2, <2>3 DEF ToSet
<1>8. ASSUME IsInjective(s), e \notin ToSet(s) PROVE IsInjective(t)
  <2>1. /\ \A j, k \in 1..n : s[j] = s[k] => j = k
        /\ \A k \in 1..n : s[k] # e
    BY <1>5, <1>8 DEF IsInjective, ToSet
  <2>2. ASSUME NEW j \in 1..(n + 1), NEW k \in 1..(n + 1), t[j] = t[k] PROVE j = k
    <3>1. CASE j = 1
      BY <1>3, <1>6, <2>1, <2>2, <3>1
    <3>2. CASE k = 1
      BY <1>3, <1>6, <2>1, <2>2, <3>2
    <3>3. CASE j # 1 /\ k # 1
      <4>1. j - 1 \in 1..n /\ k - 1 \in 1..n /\ s[j - 1] = s[k - 1]
        BY <1>6, <2>2, <3>3
      <4>2. j - 1 = k - 1
        BY <2>1, <4>1
      <4>3. QED
        BY <4>2
    <3>4. QED
      BY <3>1, <3>2, <3>3
  <2>3. QED
    BY <1>5, <2>2 DEF IsInjective
<1>9. QED
  BY <1>1, <1>3, <1>4, <1>7, <1>8

LEMMA AddedAtTail ==
  ASSUME NEW s \in Seq(Cap), NEW e \in Cap
  PROVE  /\ Append(s, e) \in Seq(Cap) /\ ToSet(Append(s, e)) = {e} \cup ToSet(s)
         /\ Len(Append(s, e)) = Len(s) + 1
         /\ Append(s, e)[Len(s) + 1] = e
         /\ \A k \in 1..Len(s) : Append(s, e)[k] = s[k]
         /\ IsInjective(s) /\ e \notin ToSet(s) => IsInjective(Append(s, e))
<1> DEFINE t == Append(s, e)
<1>1. PICK n \in Nat : n = Len(s)
  OBVIOUS
<1>2. /\ t \in Seq(Cap) /\ Len(t) = n + 1 /\ t[n + 1] = e
      /\ \A k \in 1..n : t[k] = s[k]
      /\ DOMAIN t = 1..(n + 1) /\ DOMAIN s = 1..n
  BY <1>1
<1>3. \A k \in 1..(n + 1) : k = n + 1 \/ k \in 1..n
  OBVIOUS
<1>4. ToSet(t) = {e} \cup ToSet(s)
  <2>1. \A k \in 1..(n + 1) : t[k] \in {e} \cup ToSet(s)
    BY <1>2, <1>3 DEF ToSet
  <2>2. \A k \in 1..n : s[k] \in ToSet(t)
    BY <1>2 DEF ToSet
  <2>3. e \in ToSet(t)
    BY <1>2 DEF ToSet
  <2>4. QED
    BY <1>2, <2>1, <2>2, <2>3 DEF ToSet
<1>5. ASSUME IsInjective(s), e \notin ToSet(s) PROVE IsInjective(t)
  <2>1. /\ \A j, k \in 1..n : s[j] = s[k] => j = k
        /\ \A k \in 1..n : s[k] # e
    BY <1>2, <1>5 DEF IsInjective, ToSet
  <2>2. ASSUME NEW j \in 1..(n + 1), NEW k \in 1..(n + 1), t[j] = t[k] PROVE j = k
    BY <1>2, <1>3, <2>1, <2>2
  <2>3. QED
    BY <1>2, <2>2 DEF IsInjective
<1>6. QED
  BY <1>1, <1>2, <1>4, <1>5

LEMMA PushedList ==
  ASSUME NEW new \in Seq(Cap), NEW list \in Seq(Cap)
  PROVE  Pushed(new, list) \in Seq(Cap)
<1>1. Reverse(new) \in Seq(Cap)
  <2>1. PICK n \in Nat : n = Len(new)
    OBVIOUS
  <2>2. \A i \in 1..n : new[(n - i) + 1] \in Cap
    BY <2>1
  <2>3. [i \in 1..n |-> new[(n - i) + 1]] \in Seq(Cap)
    BY <2>2
  <2>4. QED
    BY <2>1, <2>3 DEF Reverse
<1>2. QED
  BY <1>1 DEF Pushed

LEMMA InSet ==
  ASSUME NEW s \in Seq(Cap)
  PROVE  ToSet(s) \subseteq Cap /\ (ToSet(s) = {} => s = << >>)
<1>1. \A i \in DOMAIN s : s[i] \in Cap
  OBVIOUS
<1>2. s # << >> => Head(s) \in ToSet(s)
  BY HeadAndTail
<1>3. QED
  BY <1>1, <1>2 DEF ToSet
-----------------------------------------------------------------------------
(* The invariant.                                                          *)

Sorting == {"list", "sort", "refused"}

\* Every capability of the session is in one of the lists of the sort, once;
\* leaf_list is sorted at every turn, and caps_list is until the codec changes.
Order ==
  /\ Sorted(leaf, inst.kids) /\ IsInjective(leaf)
  /\ prepared /\ ~stale =>
       Sorted(caps, inst.kids) /\ IsInjective(caps) /\ ToSet(caps) = Valid
  /\ pc \notin Sorting => opt = << >> /\ leaf = << >>
  /\ pc \in Sorting =>
       /\ ToSet(walk) \cup ToSet(opt) \cup ToSet(leaf) = Valid
       /\ ToSet(walk) \cap ToSet(opt) = {} /\ ToSet(walk) \cap ToSet(leaf) = {}
       /\ ToSet(opt) \cap ToSet(leaf) = {}
       /\ IsInjective(walk) /\ IsInjective(opt)
  /\ pc = "list" => \A c \in ToSet(leaf) : IsLeaf(c)

\* Of a round that has moved no entry yet, the entries seen are at the end of
\* opt_list, and each of them still waits for a child.
Waiting(c) == ~(Kids(c) \subseteq ToSet(leaf))

Rounds ==
  /\ pc = "sort" =>
       /\ Len(opt) <= count.nodes /\ count.left <= Len(opt)
       /\ opt # << >> => count.left >= 1
       /\ count.nodes = Len(opt) =>
            \A k \in (count.left + 1)..Len(opt) : Waiting(opt[k])
  /\ pc = "refused" => opt # << >> /\ \A c \in ToSet(opt) : Waiting(c)

\* What has yet to be set is still in the list of a loop that sets it, and
\* each handler leaves the lists of the others empty.
Owed == unset \cap inst.set

Told ==
  /\ unset \subseteq Valid /\ aside \subseteq Valid
  /\ pc \notin {"list", "adjust", "set", "kids"} => walk = << >>
  /\ pc # "kids" => behind = << >>
  /\ pc \notin {"kids", "tell"} => fw = << >>
  /\ bufs => prepared
  /\ pc = "adjust" => prepared
  /\ pc \in Sorting \cup {"probe", "adjust", "set"} => ~streaming
  /\ pc \in {"kids", "tell"} => streaming
  /\ ~stale =>
       /\ pc = "set" => Owed \subseteq ToSet(walk)
       /\ pc \in {"kids", "tell"} /\ ~failed => Owed \subseteq ToSet(fw)
       /\ pc = "rest" /\ streaming /\ ~failed => Owed = {}

IInv == TypeOK /\ Order /\ Rounds /\ Told

LEMMA Table ==
  ASSUME inst \in Config
  PROVE  /\ inst.caps \in Seq(Cap) /\ IsInjective(inst.caps) /\ Valid \subseteq Cap
         /\ \A c \in Valid : inst.kids[c] \in Seq(Cap)
         /\ inst.adjust \subseteq Valid /\ inst.set \subseteq Valid
         /\ inst.dynamic \subseteq Valid
         /\ \A c \in Valid : \A others \in SideEffects(c) : others \subseteq Valid
<1>1. /\ inst.adjust \subseteq Valid
      /\ \A c \in inst.adjust : inst.beside[c] \subseteq Valid
  BY CapAssumption DEF Valid
<1>2. \A c \in Valid : \A others \in SideEffects(c) : others \subseteq Valid
  BY <1>1 DEF SideEffects
<1>3. QED
  BY <1>2, CapAssumption, InSet DEF Valid

LEMMA InitIInv == Init => IInv
<1> SUFFICES ASSUME Init PROVE IInv
  OBVIOUS
<1>1. Valid \subseteq Cap
  BY Table DEF Init
<1>2. TypeOK
  BY <1>1, EmptyList DEF Init, TypeOK, Handlers, NoCount
<1>3. Order /\ Rounds /\ Told
  BY EmptyList DEF Init, Order, Rounds, Told, Sorting, Sorted
<1>4. QED
  BY <1>2, <1>3 DEF IInv

\* A step outside the sort that keeps its lists.
LEMMA OrderKept ==
  ASSUME Order, UNCHANGED <<inst, caps, prepared, stale, opt, leaf>>,
         pc \notin Sorting, pc' \notin Sorting
  PROVE  Order' /\ Rounds'
<1>1. pc' \notin {"list", "sort", "refused"}
  BY DEF Sorting
<1>2. Order'
  BY <1>1 DEF Order, Sorted, IsLeaf, Valid, Sorting
<1>3. Rounds'
  BY <1>1 DEF Rounds
<1>4. QED
  BY <1>2, <1>3

-----------------------------------------------------------------------------
(* The turns of the sort.                                                  *)

\* An entry whose children are in the list goes before them.
LEMMA SortedPush ==
  ASSUME NEW s \in Seq(Cap), NEW e \in Cap, NEW kids, Sorted(s, kids),
         ToSet(kids[e]) \subseteq ToSet(s)
  PROVE  Sorted(<<e>> \o s, kids)
<1> DEFINE t == <<e>> \o s
<1>1. PICK n \in Nat : n = Len(s)
  OBVIOUS
<1>2. /\ Len(t) = n + 1 /\ t[1] = e
      /\ \A k \in 1..n : t[k + 1] = s[k]
  BY <1>1, AddedAtHead
<1> SUFFICES Sorted(t, kids)
  OBVIOUS
<1> HIDE DEF t
<1>3. SUFFICES ASSUME NEW m \in 1..(n + 1), NEW k \in ToSet(kids[t[m]])
               PROVE  \E j \in (m + 1)..(n + 1) : t[j] = k
  BY <1>2 DEF Sorted
<1>4. CASE m = 1
  <2>1. PICK j \in 1..n : s[j] = k
    <3>1. k \in ToSet(s)
      BY <1>2, <1>3, <1>4
    <3>2. DOMAIN s = 1..n
      BY <1>1
    <3>3. QED
      BY <3>1, <3>2 DEF ToSet
  <2>2. j + 1 \in (m + 1)..(n + 1) /\ t[j + 1] = k
    BY <1>2, <1>4, <2>1
  <2>3. QED
    BY <2>2
<1>5. CASE m # 1
  <2>1. m - 1 \in 1..n /\ t[m] = s[m - 1]
    <3>1. m - 1 \in 1..n /\ (m - 1) + 1 = m
      BY <1>5
    <3>2. QED
      BY <1>2, <3>1
  <2>2. PICK j \in ((m - 1) + 1)..n : s[j] = k
    BY <1>1, <1>3, <2>1 DEF Sorted
  <2>3. j \in 1..n /\ j + 1 \in (m + 1)..(n + 1)
    BY <2>1
  <2>4. QED
    BY <1>2, <2>2, <2>3
<1>6. QED
  BY <1>4, <1>5

LEMMA PrepareStep ==
  ASSUME IInv, Prepare
  PROVE  IInv'
<1> USE DEF session, lists
<1>1. /\ UNCHANGED <<inst, bufs, streaming, caps, prepared, stale, opt, leaf,
                     count, behind, fw, unset, aside, failed>>
      /\ pc = "rest" /\ ~streaming /\ walk' = inst.caps /\ pc' = "list"
  BY DEF Prepare, sort
<1>2. /\ inst.caps \in Seq(Cap) /\ IsInjective(inst.caps)
      /\ opt = << >> /\ leaf = << >> /\ ToSet(inst.caps) = Valid
  BY <1>1, Table DEF IInv, TypeOK, Order, Sorting, Valid
<1>3. TypeOK'
  BY <1>1, <1>2 DEF IInv, TypeOK, Handlers
<1>4. Order'
  BY <1>1, <1>2, EmptyList DEF IInv, Order, Sorting, Sorted, Valid, IsLeaf
<1>5. Rounds' /\ Told'
  BY <1>1 DEF IInv, Rounds, Told, Sorting, Valid, Owed
<1>6. QED
  BY <1>3, <1>4, <1>5 DEF IInv

LEMMA AddNodeStep ==
  ASSUME IInv, AddNode
  PROVE  IInv'
<1> DEFINE c == Head(walk)
<1>1. /\ UNCHANGED <<pc, inst, bufs, streaming, caps, prepared, stale,
                     count, behind, fw, unset, aside, failed>>
      /\ pc = "list" /\ walk # << >> /\ walk' = Tail(walk)
      /\ \/ IsLeaf(c) /\ leaf' = <<c>> \o leaf /\ opt' = opt
         \/ ~IsLeaf(c) /\ opt' = <<c>> \o opt /\ leaf' = leaf
  BY DEF AddNode, session
<1>2. /\ c \in Cap /\ Tail(walk) \in Seq(Cap)
      /\ ToSet(walk) = {c} \cup ToSet(Tail(walk))
      /\ IsInjective(Tail(walk)) /\ c \notin ToSet(Tail(walk))
      /\ c \notin ToSet(opt) /\ c \notin ToSet(leaf)
  BY <1>1, HeadAndTail DEF IInv, TypeOK, Order, Sorting
<1>3. CASE IsLeaf(c) /\ leaf' = <<c>> \o leaf /\ opt' = opt
  <2>1. /\ leaf' \in Seq(Cap) /\ ToSet(leaf') = {c} \cup ToSet(leaf)
        /\ IsInjective(leaf')
    BY <1>2, <1>3, AddedAtHead DEF IInv, TypeOK, Order
  <2>2. TypeOK'
    BY <1>1, <1>2, <1>3, <2>1 DEF IInv, TypeOK
  <2>3. ToSet(inst.kids[c]) = {}
    BY <1>3, EmptyList DEF IsLeaf
  <2>4. Sorted(leaf', inst.kids)
    BY <1>2, <1>3, <2>3, SortedPush DEF IInv, TypeOK, Order
  <2>5. Order'
    BY <1>1, <1>2, <1>3, <2>1, <2>4 DEF IInv, Order, Sorting, Valid, IsLeaf
  <2>6. QED
    BY <1>1, <2>2, <2>5 DEF IInv, Rounds, Told, Sorting, Valid, Owed
<1>4. CASE ~IsLeaf(c) /\ opt' = <<c>> \o opt /\ leaf' = leaf
  <2>1. /\ opt' \in Seq(Cap) /\ ToSet(opt') = {c} \cup ToSet(opt)
        /\ IsInjective(opt')
    BY <1>1, <1>2, <1>4, AddedAtHead DEF IInv, TypeOK, Order, Sorting
  <2>2. TypeOK'
    BY <1>1, <1>2, <1>4, <2>1 DEF IInv, TypeOK
  <2>3. Order'
    BY <1>1, <1>2, <1>4, <2>1 DEF IInv, Order, Sorting, Valid, IsLeaf
  <2>4. QED
    BY <1>1, <2>2, <2>3 DEF IInv, Rounds, Told, Sorting, Valid, Owed
<1>5. QED
  BY <1>1, <1>3, <1>4

LEMMA NodesAddedStep ==
  ASSUME IInv, NodesAdded
  PROVE  IInv'
<1>1. /\ UNCHANGED <<inst, bufs, streaming, caps, prepared, stale, opt, leaf,
                     walk, behind, fw, unset, aside, failed>>
      /\ pc = "list" /\ walk = << >> /\ pc' = "sort"
      /\ count' = [nodes |-> Len(opt), left |-> Len(opt)]
  BY DEF NodesAdded, session, lists
<1>2. Len(opt) \in Nat /\ (opt # << >> => Len(opt) >= 1)
  BY HeadAndTail DEF IInv, TypeOK
<1>3. TypeOK'
  BY <1>1, <1>2 DEF IInv, TypeOK, Handlers
<1>4. Order'
  BY <1>1 DEF IInv, Order, Sorting, Sorted, Valid
<1>5. Rounds'
  BY <1>1, <1>2 DEF Rounds
<1>6. QED
  BY <1>1, <1>3, <1>4, <1>5 DEF IInv, Told, Sorting, Valid, Owed

LEMMA EntryIsReadyStep ==
  ASSUME IInv, EntryIsReady
  PROVE  IInv'
<1>1. /\ UNCHANGED <<inst, bufs, streaming, caps, prepared, stale,
                     walk, behind, fw, unset, aside, failed>>
      /\ pc = "sort" /\ opt # << >> /\ Kids(Entry) \subseteq ToSet(leaf)
      /\ opt' = Tail(opt) /\ leaf' = <<Entry>> \o leaf
      /\ count' = Counted(Len(opt) - 1)
      /\ pc' = IF LoopDetected(Len(opt) - 1) THEN "refused" ELSE "sort"
  BY DEF EntryIsReady, IsReady, session, lists
<1>2. PICK n \in Nat : n + 1 = Len(opt)
  <2>1. Len(opt) \in Nat \ {0}
    BY <1>1, HeadAndTail DEF IInv, TypeOK
  <2>2. Len(opt) - 1 \in Nat /\ (Len(opt) - 1) + 1 = Len(opt)
    BY <2>1
  <2>3. QED
    BY <2>2
<1>3. /\ Entry \in Cap /\ opt' \in Seq(Cap) /\ Len(opt') = n
      /\ ToSet(opt) = {Entry} \cup ToSet(opt')
      /\ IsInjective(opt') /\ Entry \notin ToSet(opt')
      /\ Entry \notin ToSet(leaf) /\ walk = << >>
  BY <1>1, <1>2, HeadAndTail DEF IInv, TypeOK, Order, Told, Sorting, Entry
<1>4. /\ leaf' \in Seq(Cap) /\ ToSet(leaf') = {Entry} \cup ToSet(leaf)
      /\ IsInjective(leaf') /\ Sorted(leaf', inst.kids)
  BY <1>1, <1>3, AddedAtHead, SortedPush DEF IInv, TypeOK, Order, Kids
<1>5. PICK nodes \in Nat, left \in Nat :
        /\ count = [nodes |-> nodes, left |-> left]
        /\ n + 1 <= nodes /\ left <= n + 1 /\ left >= 1
  BY <1>1, <1>2 DEF IInv, TypeOK, Rounds
<1>6. pc' = "sort"
  BY <1>1, <1>2, <1>5 DEF LoopDetected
<1>7. \/ left = 1 /\ count' = [nodes |-> n, left |-> n]
      \/ left # 1 /\ count' = [nodes |-> nodes, left |-> left - 1]
  BY <1>1, <1>2, <1>5 DEF Counted, RoundEnds
<1>8. TypeOK'
  <2>1. count' \in [nodes : Nat, left : Nat]
    BY <1>5, <1>7
  <2>2. QED
    BY <1>1, <1>3, <1>4, <1>6, <2>1 DEF IInv, TypeOK, Handlers
<1>9. Order'
  BY <1>1, <1>3, <1>4, <1>6 DEF IInv, Order, Sorting, Valid
<1>10. Rounds'
  <2>1. opt' # << >> => n # 0
    BY <1>3, HeadAndTail
  <2>2. CASE left = 1
    BY <1>3, <1>6, <1>7, <2>1, <2>2 DEF Rounds
  <2>3. CASE left # 1
    BY <1>3, <1>5, <1>6, <1>7, <2>1, <2>3 DEF Rounds
  <2>4. QED
    BY <2>2, <2>3
<1>11. Told'
  BY <1>1, <1>6 DEF IInv, Told, Sorting, Valid
<1>12. QED
  BY <1>8, <1>9, <1>10, <1>11 DEF IInv

LEMMA EntryWaitsStep ==
  ASSUME IInv, EntryWaits
  PROVE  IInv'
<1>1. /\ UNCHANGED <<inst, bufs, streaming, caps, prepared, stale, leaf,
                     walk, behind, fw, unset, aside, failed>>
      /\ pc = "sort" /\ opt # << >> /\ Waiting(Entry)
      /\ opt' = Append(Tail(opt), Entry)
      /\ count' = Counted(Len(opt))
      /\ pc' = IF LoopDetected(Len(opt)) \/ Len(opt) = 1 THEN "refused" ELSE "sort"
  BY DEF EntryWaits, IsReady, Waiting, session, lists
<1>2. PICK n \in Nat : n + 1 = Len(opt)
  <2>1. Len(opt) \in Nat \ {0}
    BY <1>1, HeadAndTail DEF IInv, TypeOK
  <2>2. Len(opt) - 1 \in Nat /\ (Len(opt) - 1) + 1 = Len(opt)
    BY <2>1
  <2>3. QED
    BY <2>2
<1>3. /\ Entry \in Cap /\ Tail(opt) \in Seq(Cap) /\ Len(Tail(opt)) = n
      /\ ToSet(opt) = {Entry} \cup ToSet(Tail(opt))
      /\ IsInjective(Tail(opt)) /\ Entry \notin ToSet(Tail(opt))
      /\ walk = << >>
  BY <1>1, <1>2, HeadAndTail DEF IInv, TypeOK, Order, Told, Sorting, Entry
<1>4. /\ opt' \in Seq(Cap) /\ ToSet(opt') = ToSet(opt) /\ Len(opt') = n + 1
      /\ IsInjective(opt') /\ opt'[n + 1] = Entry
      /\ \A k \in 1..n : opt'[k] = opt[k + 1]
  <2>1. \A k \in 1..n : Tail(opt)[k] = opt[k + 1]
    BY <1>1, <1>2 DEF IInv, TypeOK
  <2>2. QED
    BY <1>1, <1>3, <2>1, AddedAtTail
<1>5. PICK nodes \in Nat, left \in Nat :
        /\ count = [nodes |-> nodes, left |-> left]
        /\ n + 1 <= nodes /\ left <= n + 1 /\ left >= 1
        /\ nodes = n + 1 => \A k \in (left + 1)..(n + 1) : Waiting(opt[k])
  BY <1>1, <1>2 DEF IInv, TypeOK, Rounds
<1>6. \/ left = 1 /\ count' = [nodes |-> n + 1, left |-> n + 1]
      \/ left # 1 /\ count' = [nodes |-> nodes, left |-> left - 1]
  BY <1>1, <1>2, <1>5 DEF Counted, RoundEnds
<1>7. \A c : Waiting(c)' <=> Waiting(c)
  BY <1>1 DEF Waiting, Kids
<1>8. nodes = n + 1 => \A k \in left..(n + 1) : Waiting(opt'[k])
  <2>1. SUFFICES ASSUME nodes = n + 1, NEW k \in left..(n + 1) PROVE Waiting(opt'[k])
    OBVIOUS
  <2>2. CASE k = n + 1
    BY <1>1, <1>4, <2>2
  <2>3. CASE k # n + 1
    <3>1. k \in 1..n /\ k + 1 \in (left + 1)..(n + 1)
      BY <1>5, <2>3
    <3>2. QED
      BY <1>4, <1>5, <2>1, <3>1
  <2>4. QED
    BY <2>2, <2>3
<1>9. pc' \in {"sort", "refused"}
  BY <1>1
<1>10. pc' = "refused" => \A k \in 1..(n + 1) : Waiting(opt'[k])
  <2>1. CASE n = 0
    <3>1. \A k \in 1..(n + 1) : k = n + 1
      BY <2>1
    <3>2. QED
      BY <1>1, <1>4, <3>1
  <2>2. CASE n # 0 /\ pc' = "refused"
    <3>1. left = 1 /\ nodes = n + 1
      BY <1>1, <1>2, <1>5, <2>2 DEF LoopDetected, RoundEnds
    <3>2. QED
      BY <1>8, <3>1
  <2>3. QED
    BY <2>1, <2>2
<1>11. opt' # << >> /\ DOMAIN opt' = 1..(n + 1)
  BY <1>4
<1>12. TypeOK'
  <2>1. count' \in [nodes : Nat, left : Nat]
    BY <1>5, <1>6
  <2>2. QED
    BY <1>1, <1>4, <1>9, <2>1 DEF IInv, TypeOK, Handlers
<1>13. Order'
  BY <1>1, <1>4, <1>9 DEF IInv, Order, Sorting, Valid
<1>14. Rounds'
  <2>1. CASE pc' = "refused"
    BY <1>7, <1>10, <1>11, <2>1 DEF Rounds, ToSet
  <2>2. CASE pc' = "sort" /\ left = 1
    BY <1>4, <1>6, <2>2 DEF Rounds
  <2>3. CASE pc' = "sort" /\ left # 1
    <3>1. count'.nodes = nodes /\ count'.left = left - 1
      BY <1>6, <2>3
    <3>2. \A k \in ((left - 1) + 1)..(n + 1) : k \in left..(n + 1)
      BY <1>5
    <3>3. QED
      BY <1>4, <1>5, <1>7, <1>8, <2>3, <3>1, <3>2 DEF Rounds
  <2>4. QED
    BY <1>9, <2>1, <2>2, <2>3
<1>15. Told'
  BY <1>1, <1>9 DEF IInv, Told, Sorting, Valid
<1>16. QED
  BY <1>12, <1>13, <1>14, <1>15 DEF IInv

LEMMA SortEndsStep ==
  ASSUME IInv, SortEnds
  PROVE  IInv'
<1>1. /\ UNCHANGED <<inst, bufs, streaming, opt, walk, behind, fw, unset, aside, failed>>
      /\ pc = "sort" /\ opt = << >> /\ pc' = "rest"
      /\ caps' = leaf /\ prepared' = TRUE /\ stale' = FALSE
      /\ leaf' = << >> /\ count' = NoCount
  BY DEF SortEnds, lists
<1>2. walk = << >> /\ ~streaming
  BY <1>1 DEF IInv, Told, Sorting
<1>3. TypeOK'
  BY <1>1, EmptyList DEF IInv, TypeOK, Handlers, NoCount
<1>4. Order'
  <2>1. ToSet(leaf) = Valid /\ IsInjective(leaf) /\ Sorted(leaf, inst.kids)
    BY <1>1, <1>2, EmptyList DEF IInv, Order, Sorting
  <2>2. Sorted(<< >>, inst.kids)
    BY DEF Sorted
  <2>3. QED
    BY <1>1, <2>1, <2>2, EmptyList DEF Order, Sorting, Valid
<1>5. Rounds' /\ Told'
  BY <1>1, <1>2 DEF IInv, Rounds, Told, Sorting, Valid
<1>6. QED
  BY <1>3, <1>4, <1>5 DEF IInv

LEMMA RefuseStep ==
  ASSUME IInv, Refuse
  PROVE  IInv'
<1>1. /\ UNCHANGED <<inst, bufs, streaming, caps, prepared, stale,
                     walk, behind, fw, unset, aside, failed>>
      /\ pc = "refused" /\ pc' = "rest"
      /\ opt' = << >> /\ leaf' = << >> /\ count' = NoCount
  BY DEF Refuse, session, lists
<1>2. walk = << >> /\ ~streaming
  BY <1>1 DEF IInv, Told, Sorting
<1>3. TypeOK'
  BY <1>1, EmptyList DEF IInv, TypeOK, Handlers, NoCount
<1>4. Order'
  BY <1>1, EmptyList DEF IInv, Order, Sorting, Sorted, Valid
<1>5. Rounds' /\ Told'
  BY <1>1, <1>2 DEF IInv, Rounds, Told, Sorting, Valid
<1>6. QED
  BY <1>3, <1>4, <1>5 DEF IInv

-----------------------------------------------------------------------------
(* The turns of the other loops, and the client.                           *)

LEMMA AdjustSteps ==
  ASSUME IInv, AdjustAll \/ AdjustOne \/ AdjustFails \/ Adjusted
  PROVE  IInv'
<1>1. /\ UNCHANGED <<inst, streaming, caps, prepared, stale, opt, leaf, count,
                     behind, fw, failed>>
      /\ pc \in {"rest", "adjust"} /\ pc' \in {"rest", "adjust"}
      /\ pc \notin Sorting /\ pc' \notin Sorting
  BY DEF AdjustAll, AdjustOne, AdjustFails, Adjusted, session, sort, lists, Sorting
<1>2. Order' /\ Rounds'
  BY <1>1, OrderKept DEF IInv
<1>3. /\ ~streaming /\ prepared /\ bufs' \in BOOLEAN
      /\ walk' \in Seq(Cap) /\ (pc' = "rest" => walk' = << >>)
  <2>1. ~streaming /\ prepared /\ bufs' \in BOOLEAN
    BY DEF IInv, TypeOK, Told, Sorting, AdjustAll, AdjustOne, AdjustFails,
       Adjusted, session
  <2>2. \/ walk' = caps /\ pc' # "rest"
        \/ walk # << >> /\ walk' = Tail(walk) /\ pc' # "rest"
        \/ walk' = << >>
    BY DEF AdjustAll, AdjustOne, AdjustFails, Adjusted, lists
  <2>3. walk # << >> => Tail(walk) \in Seq(Cap)
    BY HeadAndTail DEF IInv, TypeOK
  <2>4. QED
    BY <2>1, <2>2, <2>3, EmptyList DEF IInv, TypeOK
<1>4. unset' \subseteq Valid /\ aside' \subseteq Valid
  <2>1. CASE AdjustOne
    <3>1. PICK changed \in Changes, others \in SideEffects(Head(walk)) :
            Changed(Head(walk), changed /\ Head(walk) \in inst.adjust, others)
      BY <2>1 DEF AdjustOne
    <3>2. others \subseteq Valid
      BY <3>1, Table DEF IInv, TypeOK, SideEffects
    <3>3. QED
      BY <3>1, <3>2, Table DEF Changed, IInv, TypeOK, Told
  <2>2. CASE ~AdjustOne
    BY <2>2 DEF IInv, Told, AdjustAll, AdjustFails, Adjusted
  <2>3. QED
    BY <2>1, <2>2
<1>5. TypeOK'
  BY <1>1, <1>3, <1>4, Table DEF IInv, TypeOK, Handlers
<1>6. Told'
  BY <1>1, <1>3, <1>4 DEF IInv, Told, Sorting, Valid
<1>7. QED
  BY <1>2, <1>5, <1>6 DEF IInv

LEMMA SetSteps ==
  ASSUME IInv, SetAll \/ SetOne \/ SetFails \/ StreamOn
  PROVE  IInv'
<1>1. /\ UNCHANGED <<inst, bufs, caps, prepared, stale, opt, leaf, count,
                     behind, fw>>
      /\ pc \in {"rest", "set"} /\ pc' \in {"rest", "set"}
      /\ pc \notin Sorting /\ pc' \notin Sorting /\ ~streaming
  BY DEF SetAll, SetOne, SetFails, StreamOn, session, sort, lists, Sorting, IInv, Told
<1>2. Order' /\ Rounds'
  BY <1>1, OrderKept DEF IInv
<1>3. /\ walk' \in Seq(Cap) /\ (pc' = "rest" => walk' = << >>)
      /\ streaming' \in BOOLEAN /\ failed' \in BOOLEAN
      /\ pc' = "set" => ~streaming'
  <2>1. \/ walk' = caps /\ pc' # "rest"
        \/ walk # << >> /\ walk' = Tail(walk) /\ pc' # "rest"
        \/ walk' = << >>
    BY DEF SetAll, SetOne, SetFails, StreamOn, lists
  <2>2. walk # << >> => Tail(walk) \in Seq(Cap)
    BY HeadAndTail DEF IInv, TypeOK
  <2>3. /\ streaming' \in BOOLEAN /\ failed' \in BOOLEAN
        /\ pc' = "set" => ~streaming'
    <3>1. streaming \in BOOLEAN /\ failed \in BOOLEAN
      BY DEF IInv, TypeOK
    <3>2. CASE StreamOn
      BY <3>2 DEF StreamOn
    <3>3. CASE SetAll \/ SetOne \/ SetFails
      BY <1>1, <3>1, <3>3 DEF SetAll, SetOne, SetFails, session
    <3>4. QED
      BY <3>2, <3>3
  <2>4. QED
    BY <2>1, <2>2, <2>3, EmptyList DEF IInv, TypeOK
<1>4. unset' \subseteq unset /\ aside' \subseteq aside
  BY DEF SetAll, SetOne, SetFails, StreamOn, IsSet
<1>5. ~stale /\ pc' = "set" => Owed' \subseteq ToSet(walk')
  <2>1. CASE SetAll
    BY <2>1 DEF SetAll, IInv, Told, Order, Owed
  <2>2. CASE SetOne
    BY <1>1, <2>2, HeadAndTail DEF SetOne, IsSet, IInv, TypeOK, Told, Owed
  <2>3. CASE SetFails \/ StreamOn
    BY <2>3 DEF SetFails, StreamOn
  <2>4. QED
    BY <2>1, <2>2, <2>3
<1>6. ~stale /\ pc' = "rest" /\ streaming' => Owed' = {}
  <2>1. CASE StreamOn
    BY <1>1, <2>1, EmptyList DEF StreamOn, IInv, Told, Owed
  <2>2. CASE ~StreamOn
    BY <1>1, <2>2 DEF SetAll, SetOne, SetFails, session
  <2>3. QED
    BY <2>1, <2>2
<1>7. TypeOK'
  BY <1>1, <1>3, <1>4 DEF IInv, TypeOK, Handlers
<1>8. Told'
  BY <1>1, <1>3, <1>4, <1>5, <1>6 DEF IInv, Told, Sorting, Valid
<1>9. QED
  BY <1>2, <1>7, <1>8 DEF IInv

LEMMA ClientSteps ==
  ASSUME IInv, \/ Probe \/ FreeBufs \/ StreamOff \/ codec_change \/ Reopen
               \/ \E c \in Valid : StaticControl(c)
  PROVE  IInv'
<1>1. /\ UNCHANGED <<opt, leaf, count, walk, behind, fw>>
      /\ pc \in {"probe", "rest"} /\ pc' \in {"rest", "absent"}
      /\ pc' = "absent" => ~streaming'
      /\ pc \notin Sorting /\ pc' \notin Sorting
  <2>1. CASE \E c \in Valid : StaticControl(c)
    BY <2>1 DEF StaticControl, session, sort, lists, Sorting
  <2>2. CASE Probe \/ FreeBufs \/ StreamOff \/ codec_change \/ Reopen
    BY <2>2 DEF Probe, FreeBufs, StreamOff, codec_change, Reopen, session, sort, lists,
       Sorting, IInv, Told
  <2>3. QED
    BY <2>1, <2>2
<1>2. opt = << >> /\ leaf = << >> /\ walk = << >> /\ behind = << >> /\ fw = << >>
  BY <1>1 DEF IInv, Order, Told
<1>3. /\ inst' \in Config /\ bufs' \in BOOLEAN /\ streaming' \in BOOLEAN
      /\ prepared' \in BOOLEAN /\ stale' \in BOOLEAN /\ failed' \in BOOLEAN
      /\ caps' \in Seq(Cap)
  BY EmptyList DEF IInv, TypeOK, Probe, FreeBufs, StreamOff, codec_change, Reopen,
     StaticControl, session
<1>4. unset' \subseteq Valid' /\ aside' \subseteq Valid'
  BY DEF IInv, Told, Probe, FreeBufs, StreamOff, codec_change, Reopen,
     StaticControl, Changed, session, Valid
<1>5. Valid' \subseteq Cap
  BY <1>3, CapAssumption, InSet DEF Valid
<1>6. TypeOK'
  BY <1>1, <1>3, <1>4, <1>5 DEF IInv, TypeOK, Handlers
<1>7. Order' /\ Rounds'
  <2>1. \/ stale' \/ ~prepared'
        \/ UNCHANGED <<inst, caps, prepared, stale>>
    BY DEF Probe, FreeBufs, StreamOff, codec_change, Reopen, StaticControl, session
  <2>2. Sorted(<< >>, inst'.kids)
    BY DEF Sorted
  <2>3. CASE stale' \/ ~prepared'
    BY <1>1, <1>2, <2>2, <2>3, EmptyList DEF Order, Rounds, Sorting
  <2>4. CASE UNCHANGED <<inst, caps, prepared, stale>>
    BY <1>1, <2>4, OrderKept DEF IInv
  <2>5. QED
    BY <2>1, <2>3, <2>4
<1>8. bufs' => prepared'
  BY DEF IInv, Told, Probe, FreeBufs, StreamOff, codec_change, Reopen,
     StaticControl, session
<1>9. ~streaming' \/ (pc = "rest" /\ UNCHANGED <<unset, aside, inst, streaming, failed, stale>>)
  BY DEF IInv, Told, Probe, FreeBufs, StreamOff, codec_change, Reopen,
     StaticControl, session
<1>10. Told'
  BY <1>1, <1>2, <1>4, <1>8, <1>9 DEF IInv, Told, Sorting, Owed
<1>11. QED
  BY <1>6, <1>7, <1>10 DEF IInv

\* The error path of a control.
LEMMA FailsStep ==
  ASSUME IInv, Fails, pc \notin Sorting
  PROVE  IInv'
<1>1. /\ UNCHANGED <<inst, bufs, streaming, caps, prepared, stale, opt, leaf,
                     count, unset, aside>>
      /\ walk' = << >> /\ behind' = << >> /\ fw' = << >>
      /\ failed' = TRUE /\ pc' = "rest" /\ pc' \notin Sorting
  BY DEF Fails, session, sort, Sorting
<1>2. Order' /\ Rounds'
  BY <1>1, OrderKept DEF IInv
<1>3. TypeOK'
  BY <1>1, EmptyList DEF IInv, TypeOK, Handlers
<1>4. Told'
  BY <1>1 DEF IInv, Told, Sorting, Valid
<1>5. QED
  BY <1>2, <1>3, <1>4 DEF IInv

LEMMA ToFw ==
  ASSUME TypeOK, NEW c \in Cap
  PROVE  AddToFw(c) \in Seq(Cap) /\ ToSet(AddToFw(c)) = {c} \cup ToSet(fw)
<1>1. fw \in Seq(Cap)
  BY DEF TypeOK
<1>2. CASE c \in ToSet(fw)
  BY <1>1, <1>2 DEF AddToFw
<1>3. CASE c \notin ToSet(fw)
  BY <1>1, <1>3, AddedAtHead DEF AddToFw
<1>4. QED
  BY <1>2, <1>3

LEMMA DynamicControlStep ==
  ASSUME IInv, NEW c \in Valid, NEW changed \in BOOLEAN,
         NEW others \in SideEffects(c), DynamicControl(c, changed, others)
  PROVE  IInv'
<1>1. /\ UNCHANGED <<inst, bufs, streaming, caps, prepared, stale, opt, leaf,
                     count, behind, failed>>
      /\ pc = "rest" /\ streaming /\ pc' \in {"kids", "tell"}
      /\ pc \notin Sorting /\ pc' \notin Sorting
      /\ fw' = AddToFw(c) /\ unset' \subseteq unset \cup {c}
      /\ aside' = aside \cup others
  BY DEF DynamicControl, Changed, session, sort, Sorting
<1>2. Order' /\ Rounds'
  BY <1>1, OrderKept DEF IInv
<1>3. /\ c \in Cap /\ inst.kids[c] \in Seq(Cap) /\ Valid \subseteq Cap
      /\ others \subseteq Valid
  BY Table DEF IInv, TypeOK
<1>4. fw' \in Seq(Cap) /\ ToSet(fw') = {c} \cup ToSet(fw)
  BY <1>1, <1>3, ToFw DEF IInv
<1>5. walk' \in Seq(Cap) /\ (pc' = "tell" => walk' = << >>)
  <2>1. \/ walk' = Pushed(inst.kids[c], << >>) /\ pc' = "kids"
        \/ walk' = walk
    BY DEF DynamicControl
  <2>2. walk = << >>
    BY <1>1 DEF IInv, Told
  <2>3. QED
    BY <1>3, <2>1, <2>2, PushedList, EmptyList
<1>6. TypeOK'
  BY <1>1, <1>3, <1>4, <1>5 DEF IInv, TypeOK, Handlers
<1>7. ~stale /\ ~failed => Owed' \subseteq ToSet(fw')
  BY <1>1, <1>4 DEF IInv, Told, Owed
<1>8. Told'
  BY <1>1, <1>3, <1>5, <1>7 DEF IInv, Told, Sorting, Valid
<1>9. QED
  BY <1>2, <1>6, <1>8 DEF IInv

LEMMA KidSteps ==
  ASSUME IInv, KidUnchanged \/ KidChanged
  PROVE  IInv'
<1>1. /\ UNCHANGED <<pc, inst, bufs, streaming, caps, prepared, stale, opt, leaf,
                     count, failed>>
      /\ pc = "kids" /\ pc \notin Sorting
      /\ walk # << >> /\ walk' = Tail(walk) /\ Kid \in inst.adjust
  BY DEF KidUnchanged, KidChanged, InKids, session, sort, Sorting
<1>2. Order' /\ Rounds'
  BY <1>1, OrderKept DEF IInv
<1>3. walk' \in Seq(Cap)
  BY <1>1, HeadAndTail DEF IInv, TypeOK
<1>4. Kid \in Valid /\ Kid \in Cap /\ inst.kids[Kid] \in Seq(Cap) /\ Valid \subseteq Cap
  BY <1>1, Table DEF IInv, TypeOK
<1>5. /\ behind' \in Seq(Cap) /\ fw' \in Seq(Cap) /\ aside' \subseteq Valid
      /\ \/ unset' = unset /\ fw' = fw
         \/ unset' = unset \cup {Kid} /\ ToSet(fw') = {Kid} \cup ToSet(fw)
  <2>1. PICK others \in SideEffects(Kid) :
          Changed(Kid, FALSE, others) \/ Changed(Kid, TRUE, others)
    BY DEF KidUnchanged, KidChanged
  <2>2. others \subseteq Valid
    BY <1>4, <2>1, Table DEF IInv, TypeOK
  <2>3. aside' \subseteq Valid
    BY <2>1, <2>2 DEF Changed, IInv, Told
  <2>4. CASE KidUnchanged
    BY <2>3, <2>4 DEF KidUnchanged, Changed, IInv, TypeOK
  <2>5. CASE KidChanged
    BY <1>4, <2>3, <2>5, ToFw, PushedList DEF KidChanged, Changed, IInv, TypeOK
  <2>6. QED
    BY <2>4, <2>5
<1>6. TypeOK'
  BY <1>1, <1>3, <1>4, <1>5 DEF IInv, TypeOK
<1>7. ~stale /\ ~failed => Owed' \subseteq ToSet(fw')
  BY <1>1, <1>5 DEF IInv, Told, Owed
<1>8. Told'
  BY <1>1, <1>4, <1>5, <1>7 DEF IInv, Told, Sorting, Valid
<1>9. QED
  BY <1>2, <1>6, <1>8 DEF IInv

LEMMA TellSteps ==
  ASSUME IInv, \/ TellOne \/ ControlEnds
               \/ pc = "kids" /\ walk = << >> /\ behind = << >> /\ KidsEnd
  PROVE  IInv'
<1>1. /\ UNCHANGED <<inst, bufs, streaming, caps, prepared, stale, opt, leaf,
                     count, walk, behind, failed>>
      /\ pc \in {"kids", "tell"} /\ pc' \in {"tell", "rest"}
      /\ pc \notin Sorting /\ pc' \notin Sorting
  BY DEF TellOne, ControlEnds, KidsEnd, session, sort, lists, Sorting
<1>2. Order' /\ Rounds'
  BY <1>1, OrderKept DEF IInv
<1>3. /\ fw' \in Seq(Cap) /\ (pc' = "rest" => fw' = << >>)
      /\ unset' \subseteq unset /\ aside' \subseteq aside
      /\ ~stale /\ ~failed => Owed' \subseteq ToSet(fw')
  <2>1. CASE TellOne
    <3>1. /\ fw # << >> /\ fw' = Tail(fw) /\ pc' = "tell"
          /\ unset' = IF Head(fw) \in inst.set THEN unset \ {Head(fw)} ELSE unset
          /\ aside' \subseteq aside
      BY <2>1 DEF TellOne, IsSet
    <3>2. Tail(fw) \in Seq(Cap) /\ ToSet(fw) = {Head(fw)} \cup ToSet(Tail(fw))
      BY <3>1, HeadAndTail DEF IInv, TypeOK
    <3>3. QED
      BY <1>1, <3>1, <3>2 DEF IInv, Told, Owed
  <2>2. CASE ~TellOne
    <3>1. /\ fw' = fw /\ UNCHANGED <<unset, aside>>
          /\ pc' = "rest" => fw = << >>
      BY <2>2 DEF ControlEnds, KidsEnd, lists
    <3>2. QED
      BY <1>1, <3>1 DEF IInv, TypeOK, Told, Owed
  <2>3. QED
    BY <2>1, <2>2
<1>4. walk = << >> /\ behind = << >>
  BY <1>1 DEF TellOne, ControlEnds, IInv, Told
<1>5. TypeOK'
  BY <1>1, <1>3 DEF IInv, TypeOK, Handlers
<1>6. Told'
  BY <1>1, <1>3, <1>4, EmptyList DEF IInv, Told, Sorting, Valid
<1>7. QED
  BY <1>2, <1>5, <1>6 DEF IInv

LEMMA NextIInv == IInv /\ [Next]_vars => IInv'
<1> SUFFICES ASSUME IInv, [Next]_vars PROVE IInv'
  OBVIOUS
<1>1. CASE UNCHANGED vars
  BY <1>1 DEF vars, session, sort, lists, IInv, TypeOK, Order, Rounds, Told, Waiting,
     Sorted, Valid, Kids, IsLeaf, Owed
<1>2. CASE Goes
  <2>1. CASE KidFails \/ TellFails \/ (KidsEnd /\ behind # << >>)
    BY <2>1, FailsStep DEF KidFails, TellFails, KidsEnd, InKids, Sorting
  <2>2. CASE KidsEnd /\ behind = << >>
    BY <2>2, TellSteps DEF KidsEnd
  <2>3. QED
    BY <1>2, <2>1, <2>2, AddNodeStep, NodesAddedStep, EntryIsReadyStep, EntryWaitsStep,
       SortEndsStep, RefuseStep, AdjustSteps, SetSteps, KidSteps, TellSteps DEF Goes
<1>3. CASE Client
  <2>1. CASE DynamicControlFails
    BY <2>1, FailsStep DEF DynamicControlFails, Sorting
  <2>2. \A changed \in Changes : changed \in BOOLEAN
    BY DEF Changes
  <2>3. QED
    BY <1>3, <2>1, <2>2, PrepareStep, AdjustSteps, SetSteps, ClientSteps,
       DynamicControlStep DEF Client
<1>4. CASE Probe
  BY <1>4, ClientSteps
<1>5. QED
  BY <1>1, <1>2, <1>3, <1>4 DEF Next

LEMMA Invariance == Spec => []IInv
BY InitIInv, NextIInv, PTL DEF Spec

-----------------------------------------------------------------------------
(* The theorems.                                                           *)

(***************************************************************************)
(* The variables have their types for every table: the counters of the     *)
(* sort never fall below 0, whatever loops the children make.              *)
(***************************************************************************)
THEOREM TypesHold == Spec => []TypeOK
<1>1. IInv => TypeOK
  BY DEF IInv
<1>2. QED
  BY <1>1, Invariance, PTL

(***************************************************************************)
(* For every graph of children, leaf_list is sorted at every turn of the   *)
(* sort, and the caps_list it ends with has all capabilities, once each,   *)
(* parents first.                                                          *)
(***************************************************************************)
THEOREM ParentsAlwaysFirst == Spec => []ParentsFirst
<1>1. IInv => ParentsFirst
  BY DEF IInv, Order, ParentsFirst
<1>2. QED
  BY <1>1, Invariance, PTL

(***************************************************************************)
(* The count of the rounds finds no loop where there is none: when the     *)
(* sort gives up, each capability it is left with waits for another of     *)
(* them or for one the session does not have.                              *)
(***************************************************************************)
THEOREM RefusalIsAlwaysReal == Spec => []RefusedIsReal
<1>1. IInv => RefusedIsReal
  <2> SUFFICES ASSUME IInv, pc = "refused"
               PROVE  /\ opt # << >> /\ ToSet(opt) \cup ToSet(leaf) = Valid
                      /\ \A c \in ToSet(opt) : \E k \in Kids(c) : k \in ToSet(opt) \/ k \notin Valid
    BY DEF RefusedIsReal
  <2>1. walk = << >>
    BY DEF IInv, Told
  <2>2. opt # << >> /\ ToSet(opt) \cup ToSet(leaf) = Valid
    BY <2>1, EmptyList DEF IInv, Order, Rounds, Sorting
  <2>3. \A c \in ToSet(opt) : \E k \in Kids(c) : k \notin ToSet(leaf)
    BY DEF IInv, Rounds, Waiting
  <2>4. QED
    BY <2>2, <2>3
<1>2. QED
  BY <1>1, Invariance, PTL

(***************************************************************************)
(* Whatever the table, wherever adjust and set functions fail, and         *)
(* whatever an adjust function changes beside its own capability, a        *)
(* control leaves nothing behind for the next one, and of a streaming      *)
(* session whose controls have succeeded every capability that its own     *)
(* control or adjust function has changed is handed to its set function    *)
(* afterwards.  Of those changed by the adjust function of another nothing *)
(* is said, nor of what a set function sends.                              *)
(***************************************************************************)
THEOREM ChangesAreAlwaysSet == Spec => []ChangesAreSet
<1>1. IInv => ChangesAreSet
  BY DEF IInv, Told, ChangesAreSet, Owed
<1>2. QED
  BY <1>1, Invariance, PTL
=============================================================================
