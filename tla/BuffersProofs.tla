--------------------------- MODULE BuffersProofs ----------------------------
(***************************************************************************)
(* The types of module Buffers, the balance of its references and the      *)
(* timer of its batches, for every set of indices, dmabufs and events but  *)
(* partial_requeue, which sends buffers without a dmabuf; and who has each *)
(* buffer, what the firmware may touch and that no session fails, when     *)
(* none of the events happens.                                             *)
(*                                                                         *)
(* The operators of Buffers work on the lists of the driver, so what is    *)
(* kept is a predicate of these lists: each operator has a lemma that says *)
(* what it needs and keeps, and each action combines them.                 *)
(***************************************************************************)
EXTENDS Buffers, Integers, FiniteSetTheorems, TLAPS

\* The lists, with counts that may still be negative.
Shape(s) ==
  s \in [buf : [Index -> Buffer], ro : [Dma -> RoEntry], tracker : [Dma -> Int]]

\* A dmabuf is referenced by a buffer.
Held(s, d) == \E i \in Index : s.buf[i].ref /\ s.buf[i].dma = d

\* A dmabuf is attached at one index at a time.
Apart(s) ==
  \A i, j \in Index : s.buf[i].dma = s.buf[j].dma /\ s.buf[i].dma # NoDma => i = j

Bit(b) == IF b THEN 1 ELSE 0

\* The counts, told without a cardinality.
Balanced(s) == \A d \in Dma : s.tracker[d] = Bit(Held(s, d)) + Bit(s.ro[d].ref)

\* A buffer that waits for the firmware, or is with it.
Busy(b) == "DEFERRED" \in b.attr \/ "QUEUED" \in b.attr

\* Only what is attached and busy, or listed, is referenced.
Sound(s) ==
  /\ \A i \in Index : s.buf[i].ref => s.buf[i].dma \in Dma
  /\ \A i \in Index : s.buf[i].ref => Busy(s.buf[i]) /\ "BUFFER_DONE" \notin s.buf[i].attr
  /\ \A d \in Dma : s.ro[d].ref => s.ro[d].listed

Good(s) == Shape(s) /\ Apart(s) /\ Balanced(s) /\ Sound(s)

\* Only the driver holds references, to what vb2 has prepared, and it has
\* nothing while the port is off.  What is busy is attached.
Owners ==
  /\ vb2 \in [Index -> {"client", "prepared", "driver"}]
  /\ \A i \in Index : vb2[i] # "driver" => ~drv.buf[i].ref
  /\ \A i \in Index : vb2[i] = "prepared" => drv.buf[i].dma \in Dma
  /\ port = "off" => \A i \in Index : vb2[i] # "driver"
  /\ port \in {"on", "stopping", "stopped"} =>
       \A i \in Index : Busy(drv.buf[i]) => drv.buf[i].dma \in Dma
  /\ port \in {"off", "closed"} /\ failed = "no" =>
       \A i \in Index : "QUEUED" \notin drv.buf[i].attr

Rest ==
  /\ port \in {"off", "on", "stopping", "stopped", "closed"}
  /\ batch \in [enable : BOOLEAN, timer : BOOLEAN, running : BOOLEAN]
  /\ dpb \in [mode : {"none", "input", "output"}, list : SUBSET Dma]
  /\ cmds \in Seq(Command)
  /\ msgs \in Seq(Message)
  /\ fw \in [on : BOOLEAN, queued : SUBSET (Index \X Dma),
             refs : SUBSET (Index \X Dma)]
  /\ failed \in {"no", "stop", "release"}

IInv == Good(drv) /\ Owners /\ Rest

-----------------------------------------------------------------------------
(* What an EXCEPT does to the lists.                                       *)

Is(t, b, r, n) == Shape(t) /\ t.buf = b /\ t.ro = r /\ t.tracker = n

LEMMA WithBuf ==
  ASSUME NEW s, Shape(s), NEW b \in [Index -> Buffer]
  PROVE  Is([s EXCEPT !.buf = b], b, s.ro, s.tracker)
BY DEF Shape, Is

LEMMA WithBufTracker ==
  ASSUME NEW s, Shape(s), NEW b \in [Index -> Buffer], NEW n \in [Dma -> Int]
  PROVE  Is([s EXCEPT !.buf = b, !.tracker = n], b, s.ro, n)
BY DEF Shape, Is

LEMMA WithBufRo ==
  ASSUME NEW s, Shape(s), NEW b \in [Index -> Buffer], NEW r \in [Dma -> RoEntry]
  PROVE  Is([s EXCEPT !.buf = b, !.ro = r], b, r, s.tracker)
BY DEF Shape, Is

LEMMA WithRo ==
  ASSUME NEW s, Shape(s), NEW r \in [Dma -> RoEntry]
  PROVE  Is([s EXCEPT !.ro = r], s.buf, r, s.tracker)
BY DEF Shape, Is

LEMMA WithRoTracker ==
  ASSUME NEW s, Shape(s), NEW r \in [Dma -> RoEntry], NEW n \in [Dma -> Int]
  PROVE  Is([s EXCEPT !.ro = r, !.tracker = n], s.buf, r, n)
BY DEF Shape, Is

LEMMA WithEntryAttr ==
  ASSUME NEW s, Shape(s), NEW d \in Dma, NEW a \in SUBSET RoAttributes
  PROVE  Is([s EXCEPT !.ro[d].attr = a],
            s.buf, [s.ro EXCEPT ![d] = [s.ro[d] EXCEPT !.attr = a]], s.tracker)
BY DEF Shape, Is, RoEntry

LEMMA WithItemRo ==
  ASSUME NEW s, Shape(s), NEW i \in Index, NEW b \in Buffer, NEW r \in [Dma -> RoEntry]
  PROVE  Is([s EXCEPT !.buf[i] = b, !.ro = r], [s.buf EXCEPT ![i] = b], r, s.tracker)
BY DEF Shape, Is

LEMMA WithItemEntry ==
  ASSUME NEW s, Shape(s), NEW i \in Index, NEW b \in Buffer, NEW d \in Dma, NEW e \in RoEntry
  PROVE  /\ Is([s EXCEPT !.buf[i] = b, !.ro[d] = e],
               [s.buf EXCEPT ![i] = b], [s.ro EXCEPT ![d] = e], s.tracker)
         /\ Is([s EXCEPT !.ro[d] = e, !.buf[i] = b],
               [s.buf EXCEPT ![i] = b], [s.ro EXCEPT ![d] = e], s.tracker)
BY DEF Shape, Is

LEMMA WithItemTracker ==
  ASSUME NEW s, Shape(s), NEW i \in Index, NEW b \in Buffer, NEW n \in [Dma -> Int]
  PROVE  Is([s EXCEPT !.buf[i] = b, !.tracker = n], [s.buf EXCEPT ![i] = b], s.ro, n)
BY DEF Shape, Is

-----------------------------------------------------------------------------
(* What changes in the lists in general.                                   *)

\* What changes attributes and mappings alone keeps the rest.
LEMMA AttributesKeep ==
  ASSUME NEW s, NEW t, Good(s), Shape(t), t.tracker = s.tracker,
         \A i \in Index : t.buf[i].ref = s.buf[i].ref /\ t.buf[i].dma = s.buf[i].dma,
         \A i \in Index : t.buf[i].ref =>
            Busy(t.buf[i]) /\ "BUFFER_DONE" \notin t.buf[i].attr,
         \A d \in Dma : t.ro[d].ref = s.ro[d].ref /\ t.ro[d].listed = s.ro[d].listed
  PROVE  Good(t)
<1>1. \A d \in Dma : Held(t, d) <=> Held(s, d) BY DEF Held
<1>2. Balanced(t) BY <1>1 DEF Balanced, Good, Bit
<1>3. Apart(t) /\ Sound(t) BY DEF Apart, Sound, Good
<1> QED BY <1>2, <1>3 DEF Good

LEMMA EntriesKeep ==
  ASSUME NEW s, NEW t, Good(s), Shape(t), t.tracker = s.tracker, t.buf = s.buf,
         \A d \in Dma : t.ro[d].ref = s.ro[d].ref /\ t.ro[d].listed = s.ro[d].listed
  PROVE  Good(t)
BY AttributesKeep DEF Good, Sound

\* The buffers of F give their references up.
LEMMA DropKeeps ==
  ASSUME NEW s, NEW t, Good(s), Shape(t), NEW F \in SUBSET Index, t.ro = s.ro,
         t.tracker = Put(s.tracker, {s.buf[i].dma : i \in {j \in F : s.buf[j].ref}}),
         \A i \in Index : t.buf[i].dma = s.buf[i].dma,
         \A i \in F : ~t.buf[i].ref,
         \A i \in Index \ F : t.buf[i].ref = s.buf[i].ref /\ t.buf[i].attr = s.buf[i].attr
  PROVE  Good(t)
<1> DEFINE put == {s.buf[i].dma : i \in {j \in F : s.buf[j].ref}}
<1>1. \A d \in Dma : Held(t, d) <=> Held(s, d) /\ d \notin put
  BY SizesAssumption DEF Held, Good, Apart, Sound
<1>2. \A d \in put : Held(s, d) BY DEF Held
<1> HIDE DEF put
<1>3. \A d \in Dma : t.tracker[d] = s.tracker[d] - Bit(d \in put)
  BY DEF Put, put, Good, Shape, Bit
<1>4. Balanced(t) BY <1>1, <1>2, <1>3 DEF Balanced, Bit, Good, Shape
<1>5. Apart(t) /\ Sound(t) BY DEF Apart, Sound, Good, Busy
<1> QED BY <1>4, <1>5 DEF Good

-----------------------------------------------------------------------------
(* The operators.                                                          *)

LEMMA UnmapKeeps ==
  ASSUME NEW s, Good(s), NEW i \in Index, ~s.buf[i].ref
  PROVE  LET u == Unmap(s, i) IN
         /\ Good(u) /\ u.buf[i].dma = NoDma
         /\ \A j \in Index : u.buf[j].ref = s.buf[j].ref /\ u.buf[j].attr = s.buf[j].attr
         /\ \A j \in Index \ {i} : u.buf[j].dma = s.buf[j].dma
<1> DEFINE u == Unmap(s, i)
           b == [s.buf[i] EXCEPT !.map = FALSE, !.dma = NoDma]
           r == [e \in Dma |-> IF e = s.buf[i].dma /\ s.ro[e].listed
                               THEN [s.ro[e] EXCEPT !.map = s.buf[i].map]
                               ELSE s.ro[e]]
<1>1. b \in Buffer BY DEF Good, Shape, Buffer
<1>2. r \in [Dma -> RoEntry] BY DEF Good, Shape, Buffer, RoEntry
<1>3. \A e \in Dma : r[e].ref = s.ro[e].ref /\ r[e].listed = s.ro[e].listed
  BY DEF Good, Shape, RoEntry
<1>4. b.ref = s.buf[i].ref /\ b.attr = s.buf[i].attr /\ b.dma = NoDma
  BY DEF Good, Shape, Buffer
<1>5. u = [s EXCEPT !.buf[i] = b, !.ro = r] BY DEF Unmap
<1> HIDE DEF u, b, r
<1>6. Is(u, [s.buf EXCEPT ![i] = b], r, s.tracker)
  BY <1>1, <1>2, <1>5, WithItemRo DEF Good
<1>7. /\ u.buf[i].dma = NoDma
      /\ \A j \in Index : u.buf[j].ref = s.buf[j].ref /\ u.buf[j].attr = s.buf[j].attr
      /\ \A j \in Index \ {i} : u.buf[j].dma = s.buf[j].dma
  BY <1>4, <1>6 DEF Is, Good, Shape
<1>8. \A d \in Dma : u.ro[d].ref = s.ro[d].ref /\ u.ro[d].listed = s.ro[d].listed
  BY <1>3, <1>6 DEF Is
<1>9. \A d \in Dma : Held(u, d) <=> Held(s, d) BY <1>7 DEF Held
<1>10. Balanced(u) BY <1>6, <1>8, <1>9 DEF Balanced, Bit, Good, Is
<1>11. Apart(u) BY <1>7 DEF Apart, Good
<1>12. Sound(u) BY <1>7, <1>8 DEF Sound, Good, Busy
<1> QED BY <1>6, <1>7, <1>10, <1>11, <1>12 DEF Good, Is, u

LEMMA MapKeeps ==
  ASSUME NEW s, Good(s), NEW i \in Index, NEW d \in Dma, ~s.buf[i].ref,
         \A j \in Index \ {i} : s.buf[j].dma # d
  PROVE  LET u == Map(s, i, d) IN
         /\ Good(u) /\ u.buf[i].dma = d
         /\ \A j \in Index : u.buf[j].ref = s.buf[j].ref /\ u.buf[j].attr = s.buf[j].attr
         /\ \A j \in Index \ {i} : u.buf[j].dma = s.buf[j].dma
<1> DEFINE u == Map(s, i, d)
           b == [s.buf[i] EXCEPT !.dma = d, !.map = s.ro[d].listed => s.ro[d].map]
           e == [s.ro[d] EXCEPT !.map = FALSE]
<1>1. b \in Buffer BY DEF Good, Shape, Buffer
<1>2. e \in RoEntry BY DEF Good, Shape, RoEntry
<1>3. e.ref = s.ro[d].ref /\ e.listed = s.ro[d].listed BY DEF Good, Shape, RoEntry
<1>4. b.ref = s.buf[i].ref /\ b.attr = s.buf[i].attr /\ b.dma = d
  BY DEF Good, Shape, Buffer
<1>5. u = [s EXCEPT !.buf[i] = b, !.ro[d] = e] BY DEF Map
<1> HIDE DEF u, b, e
<1>6. Is(u, [s.buf EXCEPT ![i] = b], [s.ro EXCEPT ![d] = e], s.tracker)
  BY <1>1, <1>2, <1>5, WithItemEntry DEF Good
<1>7. /\ u.buf[i].dma = d
      /\ \A j \in Index : u.buf[j].ref = s.buf[j].ref /\ u.buf[j].attr = s.buf[j].attr
      /\ \A j \in Index \ {i} : u.buf[j].dma = s.buf[j].dma
  BY <1>4, <1>6 DEF Is, Good, Shape
<1>8. \A f \in Dma : u.ro[f].ref = s.ro[f].ref /\ u.ro[f].listed = s.ro[f].listed
  BY <1>3, <1>6 DEF Is, Good, Shape
<1>9. \A f \in Dma : Held(u, f) <=> Held(s, f) BY <1>7 DEF Held
<1>10. Balanced(u) BY <1>6, <1>8, <1>9 DEF Balanced, Bit, Good, Is
<1>11. Apart(u) BY <1>7 DEF Apart, Good
<1>12. Sound(u) BY <1>7, <1>8 DEF Sound, Good, Busy
<1> QED BY <1>6, <1>7, <1>10, <1>11, <1>12 DEF Good, Is, u

\* A buffer takes a dmabuf that no other index has.
LEMMA PrepareKeeps ==
  ASSUME NEW s, Good(s), NEW i \in Index, NEW d \in Dma, ~s.buf[i].ref,
         \A j \in Index \ {i} : s.buf[j].dma # d
  PROVE  LET p == Prepare(s, i, d) IN
         /\ Good(p) /\ p.buf[i].dma = d
         /\ \A j \in Index : p.buf[j].ref = s.buf[j].ref /\ p.buf[j].attr = s.buf[j].attr
         /\ \A j \in Index \ {i} : p.buf[j].dma = s.buf[j].dma
         /\ Deferred(p) = Deferred(s)
<1>1. CASE s.buf[i].dma = d
  BY <1>1 DEF Prepare
<1>2. CASE s.buf[i].dma # d
  <2> DEFINE u == Unmap(s, i)
             p == Map(u, i, d)
  <2>1. Prepare(s, i, d) = p BY <1>2 DEF Prepare
  <2>2. /\ Good(u) /\ ~u.buf[i].ref
        /\ \A j \in Index : u.buf[j].ref = s.buf[j].ref /\ u.buf[j].attr = s.buf[j].attr
        /\ \A j \in Index \ {i} : u.buf[j].dma = s.buf[j].dma
    BY UnmapKeeps
  <2> HIDE DEF u
  <2>3. /\ Good(p) /\ p.buf[i].dma = d
        /\ \A j \in Index : p.buf[j].ref = u.buf[j].ref /\ p.buf[j].attr = u.buf[j].attr
        /\ \A j \in Index \ {i} : p.buf[j].dma = u.buf[j].dma
    BY <2>2, MapKeeps
  <2> HIDE DEF p
  <2>4. Deferred(p) = Deferred(s) BY <2>2, <2>3 DEF Deferred, Has
  <2> QED BY <2>1, <2>2, <2>3, <2>4
<1> QED BY <1>1, <1>2

LEMMA GetKeeps ==
  ASSUME NEW s, Good(s), NEW B \in SUBSET Index, \A i \in B : s.buf[i].dma \in Dma
  PROVE  LET g == GetDriverBufs(s, B) IN
         /\ Good(g)
         /\ Deferred(g) = Deferred(s) \cup B
         /\ \A i \in B : g.buf[i].attr = {"DEFERRED"}
         /\ \A i \in Index \ B : g.buf[i] = s.buf[i]
         /\ \A i \in Index : g.buf[i].dma = s.buf[i].dma
<1> DEFINE g == GetDriverBufs(s, B)
           new == {s.buf[i].dma : i \in {j \in B : ~s.buf[j].ref}}
           get(i) == [s.buf[i] EXCEPT !.attr = {"DEFERRED"}, !.ref = TRUE]
           b == [i \in Index |-> IF i \in B THEN get(i) ELSE s.buf[i]]
           n == [d \in Dma |-> s.tracker[d] + IF d \in new THEN 1 ELSE 0]
<1>1. \A i \in Index : /\ get(i) \in Buffer /\ get(i).attr = {"DEFERRED"} /\ get(i).ref
                       /\ get(i).dma = s.buf[i].dma
  BY DEF Good, Shape, Buffer, Attributes
<1>2. g = [s EXCEPT !.buf = b, !.tracker = n] BY DEF GetDriverBufs
<1>3. \A d \in new : ~Held(s, d) BY SizesAssumption DEF Good, Apart, Held, Sound
<1> HIDE DEF g, get
<1>4. b \in [Index -> Buffer] BY <1>1 DEF Good, Shape
<1>5. /\ \A i \in B : b[i].ref /\ b[i].attr = {"DEFERRED"}
      /\ \A i \in Index \ B : b[i] = s.buf[i]
      /\ \A i \in Index : b[i].dma = s.buf[i].dma
  BY <1>1
<1>6. n \in [Dma -> Int] BY DEF Good, Shape
<1>7. \A d \in Dma : n[d] = s.tracker[d] + Bit(d \in new) BY DEF Bit
<1> HIDE DEF b, n
<1>8. Is(g, b, s.ro, n) BY <1>2, <1>4, <1>6, WithBufTracker DEF Good
<1>9. \A d \in Dma : Held(g, d) <=> Held(s, d) \/ d \in new
  BY <1>5, <1>8 DEF Held, Is
<1>10. Deferred(g) = Deferred(s) \cup B
  BY <1>5, <1>8 DEF Deferred, Has, Is
<1> HIDE DEF new
<1>11. Balanced(g) BY <1>3, <1>7, <1>8, <1>9 DEF Balanced, Bit, Good, Shape, Is
<1>12. Apart(g) BY <1>5, <1>8 DEF Apart, Good, Is
<1>13. Sound(g) BY <1>5, <1>8 DEF Sound, Good, Is, Busy
<1> QED BY <1>5, <1>8, <1>10, <1>11, <1>12, <1>13 DEF Good, Is, g

LEMMA UnlistKeeps ==
  ASSUME NEW s, Good(s), NEW D
  PROVE  Good(Unlist(s, D)) /\ Unlist(s, D).buf = s.buf
<1> DEFINE u == Unlist(s, D)
           r == [d \in Dma |-> IF d \in D THEN NoEntry ELSE s.ro[d]]
           p == Put(s.tracker, {d \in D : s.ro[d].ref})
<1>1. r \in [Dma -> RoEntry] BY DEF Good, Shape, RoEntry, NoEntry, RoAttributes
<1>2. p \in [Dma -> Int] BY DEF Put, Good, Shape
<1>3. u = [s EXCEPT !.ro = r, !.tracker = p] BY DEF Unlist
<1>4. \A d \in Dma : p[d] = s.tracker[d] - IF d \in D /\ s.ro[d].ref THEN 1 ELSE 0
  BY DEF Put, Good, Shape
<1>5. \A d \in Dma : /\ d \in D => ~r[d].ref
                     /\ d \notin D => r[d] = s.ro[d]
  BY DEF NoEntry
<1> HIDE DEF u, r, p
<1>6. Is(u, s.buf, r, p) BY <1>1, <1>2, <1>3, WithRoTracker DEF Good
<1>7. \A d \in Dma : Held(u, d) <=> Held(s, d) BY <1>6 DEF Held, Is
<1>8. ASSUME NEW d \in Dma
      PROVE  u.tracker[d] = Bit(Held(u, d)) + Bit(u.ro[d].ref)
  <2>1. s.tracker[d] = Bit(Held(s, d)) + Bit(s.ro[d].ref) /\ s.tracker[d] \in Int
    BY DEF Good, Balanced, Shape
  <2>2. CASE d \in D BY <1>4, <1>5, <1>6, <1>7, <2>1, <2>2 DEF Bit, Is
  <2>3. CASE d \notin D BY <1>4, <1>5, <1>6, <1>7, <2>1, <2>3 DEF Bit, Is
  <2> QED BY <2>2, <2>3
<1>9. Balanced(u) BY <1>8 DEF Balanced
<1>10. Apart(u) BY <1>6 DEF Apart, Good, Is
<1>11. Sound(u) BY <1>5, <1>6 DEF Sound, Good, Is
<1> QED BY <1>6, <1>9, <1>10, <1>11 DEF Good, Is, u

LEMMA QueueKeeps ==
  ASSUME NEW s, Good(s), NEW B \in SUBSET Index
  PROVE  LET q == Queue(s, B) IN
         /\ Good(q)
         /\ Deferred(q) = Deferred(s) \ B
         /\ \A i \in Index : q.buf[i].ref = s.buf[i].ref /\ q.buf[i].dma = s.buf[i].dma
         /\ \A i \in Index \ B : q.buf[i] = s.buf[i]
<1> DEFINE gone == IF B = {} THEN {}
                   ELSE NotRead(s) \cup {s.buf[i].dma : i \in {j \in B : StillRead(s, j)}}
           flag(i) == IF StillRead(s, i) THEN {"READ_ONLY"} ELSE {}
           attr(i) == (s.buf[i].attr \ {"DEFERRED"}) \cup {"QUEUED"} \cup flag(i)
           sent(i) == [s.buf[i] EXCEPT !.attr = attr(i)]
           b == [i \in Index |-> IF i \notin B THEN s.buf[i] ELSE sent(i)]
           t == [s EXCEPT !.buf = b]
<1>1. Queue(s, B) = Unlist(t, gone) BY DEF Queue
<1>2. \A i \in Index : flag(i) \in SUBSET {"READ_ONLY"} OBVIOUS
<1> HIDE DEF gone, flag
<1>3. \A i \in Index : /\ attr(i) \in SUBSET Attributes
                       /\ "QUEUED" \in attr(i) /\ "DEFERRED" \notin attr(i)
                       /\ "BUFFER_DONE" \in attr(i) => "BUFFER_DONE" \in s.buf[i].attr
  BY <1>2 DEF Good, Shape, Buffer, Attributes
<1> HIDE DEF attr
<1>4. \A i \in Index : /\ sent(i) \in Buffer /\ sent(i).attr = attr(i)
                       /\ sent(i).ref = s.buf[i].ref /\ sent(i).dma = s.buf[i].dma
  BY <1>3 DEF Good, Shape, Buffer
<1> HIDE DEF sent
<1>5. b \in [Index -> Buffer] BY <1>4 DEF Good, Shape
<1>6. /\ \A i \in Index : b[i].ref = s.buf[i].ref /\ b[i].dma = s.buf[i].dma
      /\ \A i \in Index \ B : b[i] = s.buf[i]
      /\ \A i \in B : b[i].attr = attr(i)
  BY <1>4
<1> HIDE DEF b
<1>7. Is(t, b, s.ro, s.tracker) BY <1>5, WithBuf DEF Good
<1> HIDE DEF t
<1>8. \A i \in Index : t.buf[i].ref =>
         Busy(t.buf[i]) /\ "BUFFER_DONE" \notin t.buf[i].attr
  BY <1>3, <1>6, <1>7 DEF Is, Good, Sound, Busy
<1>9. Good(t) BY <1>6, <1>7, <1>8, AttributesKeep DEF Is
<1>10. Good(Unlist(t, gone)) /\ Unlist(t, gone).buf = t.buf BY <1>9, UnlistKeeps
<1>11. Deferred(t) = Deferred(s) \ B BY <1>3, <1>6, <1>7 DEF Deferred, Has, Is
<1>12. Deferred(Unlist(t, gone)) = Deferred(t) BY <1>10 DEF Deferred, Has
<1> QED BY <1>1, <1>6, <1>7, <1>10, <1>11, <1>12 DEF Is

\* What changes the attributes of entries alone.
LEMMA EntryAttributesKeep ==
  ASSUME NEW s, Good(s), NEW r \in [Dma -> RoEntry],
         \A d \in Dma : r[d].ref = s.ro[d].ref /\ r[d].listed = s.ro[d].listed
  PROVE  Good([s EXCEPT !.ro = r]) /\ [s EXCEPT !.ro = r].buf = s.buf
<1> DEFINE t == [s EXCEPT !.ro = r]
<1>1. Is(t, s.buf, r, s.tracker) BY WithRo DEF Good
<1> HIDE DEF t
<1>2. Good(t) BY <1>1, EntriesKeep DEF Is
<1> QED BY <1>1, <1>2 DEF Is, t

LEMMA ReleaseKeeps ==
  ASSUME NEW s, Good(s), NEW D
  PROVE  Good(Release(s, D)) /\ Release(s, D).buf = s.buf
<1> DEFINE over == IF dpb.mode = "input" THEN {"RELEASE_ELIGIBLE"} ELSE {}
           attr(d) == (s.ro[d].attr \cup {"PENDING_RELEASE"}) \ over
           e(d) == [s.ro[d] EXCEPT !.attr = attr(d)]
           r == [d \in Dma |-> IF d \notin D THEN s.ro[d] ELSE e(d)]
<1>1. Release(s, D) = [s EXCEPT !.ro = r] BY DEF Release
<1> HIDE DEF over
<1>2. \A d \in Dma : attr(d) \in SUBSET RoAttributes
  BY DEF Good, Shape, RoEntry, RoAttributes
<1> HIDE DEF attr
<1>3. \A d \in Dma : /\ e(d) \in RoEntry
                     /\ e(d).ref = s.ro[d].ref /\ e(d).listed = s.ro[d].listed
  BY <1>2 DEF Good, Shape, RoEntry
<1> HIDE DEF e
<1>4. /\ r \in [Dma -> RoEntry]
      /\ \A d \in Dma : r[d].ref = s.ro[d].ref /\ r[d].listed = s.ro[d].listed
  BY <1>3 DEF Good, Shape
<1> HIDE DEF r
<1> QED BY <1>1, <1>4, EntryAttributesKeep

LEMMA MarkEligibleKeeps ==
  ASSUME NEW s, Good(s), NEW D
  PROVE  Good(MarkEligible(s, D)) /\ MarkEligible(s, D).buf = s.buf
<1> DEFINE C(d) == RoHas(s, d, "READ_ONLY") /\ ~RoHas(s, d, "PENDING_RELEASE") /\ d \notin D
           e(d) == [s.ro[d] EXCEPT !.attr = s.ro[d].attr \cup {"RELEASE_ELIGIBLE"}]
           r == [d \in Dma |-> IF C(d) THEN e(d) ELSE s.ro[d]]
<1>1. MarkEligible(s, D) = [s EXCEPT !.ro = r] BY DEF MarkEligible
<1> HIDE DEF C
<1>2. \A d \in Dma : /\ e(d) \in RoEntry
                     /\ e(d).ref = s.ro[d].ref /\ e(d).listed = s.ro[d].listed
  BY DEF Good, Shape, RoEntry, RoAttributes
<1> HIDE DEF e
<1>3. /\ r \in [Dma -> RoEntry]
      /\ \A d \in Dma : r[d].ref = s.ro[d].ref /\ r[d].listed = s.ro[d].listed
  BY <1>2 DEF Good, Shape
<1> HIDE DEF r
<1> QED BY <1>1, <1>3, EntryAttributesKeep

\* An entry gets other attributes.
LEMMA EntryAttributeKeeps ==
  ASSUME NEW s, Good(s), NEW d \in Dma, NEW a \in SUBSET RoAttributes
  PROVE  LET t == [s EXCEPT !.ro[d].attr = a] IN
         Good(t) /\ t.buf = s.buf
<1> DEFINE e == [s.ro[d] EXCEPT !.attr = a]
           t == [s EXCEPT !.ro[d].attr = a]
<1>1. e.ref = s.ro[d].ref /\ e.listed = s.ro[d].listed BY DEF Good, Shape, RoEntry
<1>2. Is(t, s.buf, [s.ro EXCEPT ![d] = e], s.tracker) BY WithEntryAttr DEF Good
<1> HIDE DEF t, e
<1>3. \A f \in Dma : t.ro[f].ref = s.ro[f].ref /\ t.ro[f].listed = s.ro[f].listed
  BY <1>1, <1>2 DEF Is, Good, Shape
<1>4. Good(t) BY <1>2, <1>3, EntriesKeep DEF Is
<1> QED BY <1>2, <1>4 DEF Is, t

LEMMA NoLongerReadKeeps ==
  ASSUME NEW s, Good(s), NEW d \in Dma
  PROVE  Good(NoLongerRead(s, d)) /\ NoLongerRead(s, d).buf = s.buf
<1> DEFINE a == s.ro[d].attr \ {"READ_ONLY"}
<1>1. a \in SUBSET RoAttributes BY DEF Good, Shape, RoEntry
<1>2. NoLongerRead(s, d) = [s EXCEPT !.ro[d].attr = a]
  BY DEF NoLongerRead
<1> HIDE DEF a
<1> QED BY <1>1, <1>2, EntryAttributeKeeps

\* A new entry takes over the reference of its buffer.
LEMMA AddReadOnlyKeeps ==
  ASSUME NEW s, Good(s), NEW i \in Index, s.buf[i].dma \in Dma
  PROVE  LET t == AddReadOnly(s, i) IN
         /\ Good(t)
         /\ \A j \in Index : t.buf[j].attr = s.buf[j].attr /\ t.buf[j].dma = s.buf[j].dma
         /\ \A j \in Index \ {i} : t.buf[j] = s.buf[j]
<1> DEFINE d == s.buf[i].dma
<1>1. CASE s.ro[d].listed
  <2> DEFINE a == s.ro[d].attr \cup {"READ_ONLY"}
  <2>1. a \in SUBSET RoAttributes BY DEF Good, Shape, RoEntry, RoAttributes
  <2>2. AddReadOnly(s, i) = [s EXCEPT !.ro[d].attr = a]
    BY <1>1 DEF AddReadOnly
  <2> HIDE DEF a, d
  <2>3. d \in Dma BY DEF d
  <2> QED BY <2>1, <2>2, <2>3, EntryAttributeKeeps
<1>2. CASE ~s.ro[d].listed
  <2> DEFINE e == [listed |-> TRUE, attr |-> {"READ_ONLY"}, ref |-> s.buf[i].ref,
                   map |-> FALSE]
             b == [s.buf[i] EXCEPT !.ref = FALSE]
             t == [s EXCEPT !.ro[d] = e, !.buf[i] = b]
  <2>1. AddReadOnly(s, i) = t BY <1>2 DEF AddReadOnly
  <2>2. e \in RoEntry /\ e.ref = s.buf[i].ref /\ e.listed
    BY DEF Good, Shape, RoEntry, RoAttributes, Buffer
  <2>3. b \in Buffer /\ ~b.ref /\ b.attr = s.buf[i].attr /\ b.dma = d
    BY DEF Good, Shape, Buffer
  <2> HIDE DEF e, b
  <2>4. Is(t, [s.buf EXCEPT ![i] = b], [s.ro EXCEPT ![d] = e], s.tracker)
    BY <2>2, <2>3, WithItemEntry DEF Good
  <2> HIDE DEF t
  <2>5. /\ ~t.buf[i].ref
        /\ \A j \in Index : t.buf[j].attr = s.buf[j].attr /\ t.buf[j].dma = s.buf[j].dma
        /\ \A j \in Index \ {i} : t.buf[j] = s.buf[j]
    BY <2>3, <2>4 DEF Is, Good, Shape
  <2>6. /\ t.ro[d].ref = s.buf[i].ref /\ t.ro[d].listed /\ ~s.ro[d].ref
        /\ \A f \in Dma \ {d} : t.ro[f] = s.ro[f]
    BY <1>2, <2>2, <2>4 DEF Is, Good, Shape, Sound
  <2>7. /\ ~Held(t, d) /\ (Held(s, d) <=> s.buf[i].ref)
        /\ \A f \in Dma \ {d} : Held(t, f) <=> Held(s, f)
    BY <2>5, SizesAssumption DEF Held, Good, Apart
  <2>8. Balanced(t) BY <2>4, <2>6, <2>7 DEF Balanced, Bit, Good, Is
  <2>9. Apart(t) BY <2>5 DEF Apart, Good
  <2>10. Sound(t) BY <2>5, <2>6 DEF Sound, Good, Busy
  <2> QED BY <2>1, <2>4, <2>5, <2>8, <2>9, <2>10 DEF Good, Is
<1> QED BY <1>1, <1>2

LEMMA ReturnKeeps ==
  ASSUME NEW s, Good(s), NEW i \in Index, s.buf[i].dma \in Dma, NEW m
  PROVE  LET q == Return(s, i, m) IN
         /\ Good(q)
         /\ ~q.buf[i].ref /\ "QUEUED" \notin q.buf[i].attr
         /\ Deferred(q) = Deferred(s)
         /\ \A j \in Index : q.buf[j].dma = s.buf[j].dma
         /\ \A j \in Index \ {i} : q.buf[j] = s.buf[j]
<1> DEFINE t == IF m.ro THEN AddReadOnly(s, i) ELSE s
           put == IF t.buf[i].ref THEN {t.buf[i].dma} ELSE {}
           flag == IF m.ro THEN {"READ_ONLY"} ELSE {}
           attr == (t.buf[i].attr \ {"QUEUED", "READ_ONLY"}) \cup {"BUFFER_DONE"} \cup flag
           b == [t.buf[i] EXCEPT !.attr = attr, !.ref = FALSE]
           n == Put(t.tracker, put)
           q == [t EXCEPT !.buf[i] = b, !.tracker = n]
<1>1. Return(s, i, m) = q BY DEF Return
<1>2. /\ Good(t)
      /\ \A j \in Index : t.buf[j].attr = s.buf[j].attr /\ t.buf[j].dma = s.buf[j].dma
      /\ \A j \in Index \ {i} : t.buf[j] = s.buf[j]
  BY AddReadOnlyKeeps
<1> HIDE DEF t
<1>3. put = {t.buf[j].dma : j \in {k \in {i} : t.buf[k].ref}} OBVIOUS
<1>4. flag \in SUBSET {"READ_ONLY"} OBVIOUS
<1> HIDE DEF flag
<1>5. /\ attr \in SUBSET Attributes /\ "QUEUED" \notin attr
      /\ "DEFERRED" \in attr <=> "DEFERRED" \in t.buf[i].attr
  BY <1>2, <1>4 DEF Good, Shape, Buffer, Attributes
<1> HIDE DEF attr
<1>6. b \in Buffer /\ b.attr = attr /\ ~b.ref /\ b.dma = t.buf[i].dma
  <2>1. t.buf[i] \in Buffer BY <1>2 DEF Good, Shape
  <2> QED BY <1>5, <2>1 DEF Buffer
<1>7. n \in [Dma -> Int] BY <1>2 DEF Put, Good, Shape
<1> HIDE DEF b
<1>8. Is(q, [t.buf EXCEPT ![i] = b], t.ro, n) BY <1>2, <1>6, <1>7, WithItemTracker DEF Good
<1> HIDE DEF q
<1>9. /\ q.buf[i] = b
      /\ \A j \in Index \ {i} : q.buf[j] = t.buf[j]
  BY <1>2, <1>8 DEF Is, Good, Shape
<1>10. /\ \A j \in Index : q.buf[j].dma = t.buf[j].dma
       /\ {i} \in SUBSET Index
       /\ \A j \in {i} : ~q.buf[j].ref
       /\ \A j \in Index \ {i} :
            q.buf[j].ref = t.buf[j].ref /\ q.buf[j].attr = t.buf[j].attr
  BY <1>6, <1>9
<1>11. q.tracker = Put(t.tracker, {t.buf[j].dma : j \in {k \in {i} : t.buf[k].ref}})
  BY <1>3, <1>8 DEF Is
<1>12. Good(q) BY <1>2, <1>8, <1>10, <1>11, DropKeeps DEF Is
<1>13. Deferred(q) = Deferred(s) BY <1>2, <1>5, <1>6, <1>9 DEF Deferred, Has
<1> QED BY <1>1, <1>2, <1>5, <1>6, <1>9, <1>10, <1>12, <1>13

LEMMA FlushKeeps ==
  ASSUME NEW s, Good(s)
  PROVE  LET q == Flush(s) IN
         /\ Good(q)
         /\ \A i \in Index : ~q.buf[i].ref /\ q.buf[i].attr = s.buf[i].attr
<1> DEFINE F == {i \in Index : s.buf[i].attr \cap {"QUEUED", "DEFERRED"} # {}
                                 /\ ~Has(s, i, "BUFFER_DONE")}
           put == {s.buf[i].dma : i \in {j \in F : s.buf[j].ref}}
           drop(i) == [s.buf[i] EXCEPT !.ref = FALSE]
           b == [i \in Index |-> IF i \in F THEN drop(i) ELSE s.buf[i]]
           n == Put(s.tracker, put)
           t == [s EXCEPT !.buf = b, !.tracker = n]
<1>1. Flush(s) = Unlist(t, NotRead(t)) BY DEF Flush
<1>2. \A i \in Index : s.buf[i].ref => i \in F BY DEF Good, Sound, Busy, Has
<1>3. F \in SUBSET Index OBVIOUS
<1> HIDE DEF F
<1>4. \A i \in Index : /\ drop(i) \in Buffer /\ ~drop(i).ref
                       /\ drop(i).dma = s.buf[i].dma /\ drop(i).attr = s.buf[i].attr
  BY DEF Good, Shape, Buffer
<1> HIDE DEF drop
<1>5. b \in [Index -> Buffer] BY <1>4 DEF Good, Shape
<1>6. /\ \A i \in Index : b[i].dma = s.buf[i].dma /\ b[i].attr = s.buf[i].attr
      /\ \A i \in F : ~b[i].ref
      /\ \A i \in Index \ F : b[i] = s.buf[i]
  BY <1>3, <1>4
<1> HIDE DEF b
<1>7. n \in [Dma -> Int] BY DEF Put, Good, Shape
<1>8. Is(t, b, s.ro, n) BY <1>5, <1>7, WithBufTracker DEF Good
<1> HIDE DEF t
<1>9. Good(t) BY <1>3, <1>6, <1>8, DropKeeps DEF Is
<1>10. Good(Unlist(t, NotRead(t))) /\ Unlist(t, NotRead(t)).buf = t.buf
  BY <1>9, UnlistKeeps
<1> QED BY <1>1, <1>2, <1>6, <1>8, <1>10 DEF Is

\* A dmabuf is referenced by one buffer at most.
LEMMA HolderCount ==
  ASSUME NEW s, Good(s), NEW d \in Dma
  PROVE  Cardinality({i \in Index : s.buf[i].ref /\ s.buf[i].dma = d}) = Bit(Held(s, d))
<1> DEFINE H == {i \in Index : s.buf[i].ref /\ s.buf[i].dma = d}
<1>1. CASE Held(s, d)
  <2>1. PICK i \in Index : s.buf[i].ref /\ s.buf[i].dma = d BY <1>1 DEF Held
  <2>2. H = {i} BY <2>1, SizesAssumption DEF Good, Apart
  <2> QED BY <1>1, <2>2, FS_Singleton DEF Bit
<1>2. CASE ~Held(s, d)
  <2>1. H = {} BY <1>2 DEF Held
  <2> QED BY <1>2, <2>1, FS_EmptySet DEF Bit
<1> QED BY <1>1, <1>2

\* Packets.
LEMMA FtbsType ==
  ASSUME NEW s, NEW B \in SUBSET Index, \A i \in B : s.buf[i].dma \in Dma,
         \A i \in B : Good(s)
  PROVE  Ftbs(s, B) \in Seq(Command)
<1>1. \A i \in B : StillRead(s, i) \in BOOLEAN BY DEF StillRead
<1> DEFINE X == {[i |-> i, d |-> s.buf[i].dma, ro |-> StillRead(s, i)] : i \in B}
<1>2. X \in SUBSET Ftb BY <1>1 DEF Ftb
<1> HIDE DEF X
<1>3. [type |-> "ftb", bufs |-> X] \in Command BY <1>2 DEF Command
<1>4. Ftbs(s, B) = IF B = {} THEN << >> ELSE << [type |-> "ftb", bufs |-> X] >>
  BY DEF Ftbs, X
<1> QED BY <1>3, <1>4

LEMMA ReleasesType ==
  ASSUME NEW D \in SUBSET Dma
  PROVE  Releases(D) \in Seq(Command)
<1>1. [type |-> "release", bufs |-> D] \in Command BY DEF Command
<1> QED BY <1>1 DEF Releases

LEMMA ToReleaseType == ASSUME NEW s PROVE ToRelease(s) \in SUBSET Dma
<1>1. Eligible(s) \in SUBSET Dma BY DEF Eligible
<1>2. Nonref(s) \in SUBSET Dma BY DEF Nonref
<1> QED BY <1>1, <1>2 DEF ToRelease

LEMMA QueueAndReleaseKeeps ==
  ASSUME NEW s, Good(s), NEW B \in SUBSET Index, \A i \in B : s.buf[i].dma \in Dma
  PROVE  LET q == Queue(s, B)
             r == Release(q, ToRelease(q)) IN
         /\ Good(r)
         /\ Deferred(r) = Deferred(s) \ B
         /\ \A i \in Index : r.buf[i].ref = s.buf[i].ref /\ r.buf[i].dma = s.buf[i].dma
         /\ \A i \in Index \ B : r.buf[i] = s.buf[i]
         /\ Ftbs(s, B) \in Seq(Command) /\ Releases(ToRelease(q)) \in Seq(Command)
<1> DEFINE q == Queue(s, B)
           D == ToRelease(q)
           r == Release(q, D)
<1>1. /\ Good(q) /\ Deferred(q) = Deferred(s) \ B
      /\ \A i \in Index : q.buf[i].ref = s.buf[i].ref /\ q.buf[i].dma = s.buf[i].dma
      /\ \A i \in Index \ B : q.buf[i] = s.buf[i]
  BY QueueKeeps
<1> HIDE DEF q
<1>2. Good(r) /\ r.buf = q.buf BY <1>1, ReleaseKeeps
<1>3. Deferred(r) = Deferred(q) BY <1>2 DEF Deferred, Has
<1>4. Ftbs(s, B) \in Seq(Command) BY FtbsType
<1>5. Releases(D) \in Seq(Command) BY ToReleaseType, ReleasesType
<1> HIDE DEF r, D
<1> QED BY <1>1, <1>2, <1>3, <1>4, <1>5 DEF q, r, D

-----------------------------------------------------------------------------
(* The steps of the client.                                                *)

LEMMA InitHolds == Init => IInv
<1> SUFFICES ASSUME Init PROVE IInv OBVIOUS
<1>1. FreshBuffer \in Buffer /\ ~FreshBuffer.ref /\ FreshBuffer.dma = NoDma
        /\ FreshBuffer.attr = {}
  BY DEF FreshBuffer, Buffer
<1>2. NoEntry \in RoEntry /\ ~NoEntry.ref BY DEF NoEntry, RoEntry
<1>3. Shape(drv) BY <1>1, <1>2 DEF Init, Shape
<1>4. /\ \A i \in Index : drv.buf[i] = FreshBuffer
      /\ \A d \in Dma : drv.ro[d] = NoEntry /\ drv.tracker[d] = 0
  BY DEF Init
<1>5. Apart(drv) /\ Sound(drv) BY <1>1, <1>2, <1>4 DEF Apart, Sound
<1>6. Balanced(drv) BY <1>1, <1>2, <1>4 DEF Balanced, Held, Bit
<1>7. Owners BY <1>1, <1>4 DEF Init, Owners, Busy
<1>8. /\ batch \in [enable : BOOLEAN, timer : BOOLEAN, running : BOOLEAN]
      /\ dpb \in [mode : {"none", "input", "output"}, list : SUBSET Dma]
      /\ fw \in [on : BOOLEAN, queued : SUBSET (Index \X Dma),
                 refs : SUBSET (Index \X Dma)]
  BY DEF Init
<1>9. cmds \in Seq(Command) /\ msgs \in Seq(Message) BY DEF Init
<1>10. Rest BY <1>8, <1>9 DEF Init, Rest
<1> QED BY <1>3, <1>5, <1>6, <1>7, <1>10 DEF IInv, Good

\* What the client may queue at an index.
LEMMA QueuedIsFree ==
  ASSUME IInv, NEW i \in Index, NEW d \in Dma, MayQueue(i, d)
  PROVE  LET p == Prepare(drv, i, d) IN
         /\ Good(p) /\ p.buf[i].dma = d /\ Deferred(p) = Deferred(drv)
         /\ \A j \in Index : p.buf[j].ref = drv.buf[j].ref /\ p.buf[j].attr = drv.buf[j].attr
         /\ \A j \in Index \ {i} : p.buf[j].dma = drv.buf[j].dma
<1>1. ~drv.buf[i].ref BY DEF MayQueue, IInv, Owners
<1> QED BY <1>1, PrepareKeeps DEF MayQueue, IInv

LEMMA PreparesKeeps ==
  ASSUME IInv, NEW i \in Index, NEW d \in Dma, QBufPrepares(i, d)
  PROVE  IInv' /\ Deferred(drv') = Deferred(drv)
<1>1. /\ Good(drv') /\ drv'.buf[i].dma = d /\ Deferred(drv') = Deferred(drv)
      /\ \A j \in Index : drv'.buf[j].ref = drv.buf[j].ref /\ drv'.buf[j].attr = drv.buf[j].attr
      /\ \A j \in Index \ {i} : drv'.buf[j].dma = drv.buf[j].dma
  BY QueuedIsFree DEF QBufPrepares
<1>2. Owners' BY <1>1 DEF QBufPrepares, IInv, Owners
<1>3. Rest' BY DEF QBufPrepares, IInv, Rest
<1>4. Good(drv)' BY <1>1 DEF Good, Shape, Apart, Balanced, Sound, Held, Busy
<1> QED BY <1>1, <1>2, <1>3, <1>4 DEF IInv

\* The lists r once the buffer i is queued and those of B have gone out.
QueuedLists(r, i, B) ==
  /\ Good(r)
  /\ Deferred(r) = (Deferred(drv) \cup {i}) \ B
  /\ \A j \in Index : Busy(r.buf[j]) => r.buf[j].dma \in Dma
  /\ \A j \in Index \ {i} : r.buf[j].ref = drv.buf[j].ref /\ r.buf[j].dma = drv.buf[j].dma

\* A buffer is queued on a port that streams, and those of B go out.
LEMMA QBufLists ==
  ASSUME IInv, NEW i \in Index, NEW d \in Dma, MayQueue(i, d), port = "on",
         NEW B, B \subseteq Deferred(drv) \cup {i}
  PROVE  LET s == GetDriverBufs(Prepare(drv, i, d), {i})
             q == Queue(s, B)
             r == Release(q, ToRelease(q)) IN
         /\ Deferred(s) = Deferred(drv) \cup {i}
         /\ QueuedLists(r, i, B)
         /\ Ftbs(s, B) \in Seq(Command) /\ Releases(ToRelease(q)) \in Seq(Command)
<1> DEFINE p == Prepare(drv, i, d)
           s == GetDriverBufs(p, {i})
           q == Queue(s, B)
           r == Release(q, ToRelease(q))
<1>1. /\ Good(p) /\ p.buf[i].dma = d /\ Deferred(p) = Deferred(drv)
      /\ \A j \in Index : p.buf[j].ref = drv.buf[j].ref /\ p.buf[j].attr = drv.buf[j].attr
      /\ \A j \in Index \ {i} : p.buf[j].dma = drv.buf[j].dma
  BY QueuedIsFree
<1> HIDE DEF p
<1>2. /\ Good(s) /\ Deferred(s) = Deferred(p) \cup {i}
      /\ \A j \in Index \ {i} : s.buf[j] = p.buf[j]
      /\ \A j \in Index : s.buf[j].dma = p.buf[j].dma
  BY <1>1, GetKeeps
<1> HIDE DEF s
<1>3. \A j \in Deferred(drv) : drv.buf[j].dma \in Dma
  BY DEF IInv, Owners, Deferred, Has, Busy
<1>4. B \in SUBSET Index BY DEF Deferred
<1>5. \A j \in B : s.buf[j].dma \in Dma BY <1>1, <1>2, <1>3, <1>4
<1>6. /\ Good(r) /\ Deferred(r) = Deferred(s) \ B
      /\ \A j \in Index : r.buf[j].ref = s.buf[j].ref /\ r.buf[j].dma = s.buf[j].dma
      /\ \A j \in Index \ B : r.buf[j] = s.buf[j]
      /\ Ftbs(s, B) \in Seq(Command) /\ Releases(ToRelease(q)) \in Seq(Command)
  BY <1>2, <1>4, <1>5, QueueAndReleaseKeeps
<1> HIDE DEF r, q
<1>7. \A j \in Index \ {i} : r.buf[j].ref = drv.buf[j].ref /\ r.buf[j].dma = drv.buf[j].dma
  BY <1>1, <1>2, <1>6
<1>8. ASSUME NEW j \in Index, Busy(r.buf[j]) PROVE r.buf[j].dma \in Dma
  <2>1. CASE j = i BY <1>1, <1>2, <1>6, <2>1
  <2>2. CASE j \in B BY <1>5, <1>6, <2>2
  <2>3. CASE j # i /\ j \notin B
    <3>1. Busy(drv.buf[j]) BY <1>1, <1>2, <1>6, <1>8, <2>3 DEF Busy
    <3> QED BY <1>7, <2>3, <3>1 DEF IInv, Owners
  <2> QED BY <2>1, <2>2, <2>3
<1>9. QueuedLists(r, i, B) BY <1>1, <1>2, <1>6, <1>7, <1>8 DEF QueuedLists
<1> QED BY <1>1, <1>2, <1>6, <1>9 DEF p, s, q, r

LEMMA QBufKeeps ==
  ASSUME IInv, NEW i \in Index, NEW d \in Dma, MayQueue(i, d), port = "on",
         NEW B, B \subseteq Deferred(drv) \cup {i},
         QueueAndRelease(GetDriverBufs(Prepare(drv, i, d), {i}), B),
         batch' \in [enable : BOOLEAN, timer : BOOLEAN, running : BOOLEAN],
         vb2' = [vb2 EXCEPT ![i] = "driver"],
         UNCHANGED <<port, dpb, msgs, fw, failed>>
  PROVE  IInv' /\ Deferred(drv') = (Deferred(drv) \cup {i}) \ B
<1> DEFINE s == GetDriverBufs(Prepare(drv, i, d), {i})
           q == Queue(s, B)
           r == Release(q, ToRelease(q))
<1>1. drv' = r /\ cmds' = cmds \o Ftbs(s, B) \o Releases(ToRelease(q))
  BY DEF QueueAndRelease
<1>2. /\ QueuedLists(r, i, B)
      /\ Ftbs(s, B) \in Seq(Command) /\ Releases(ToRelease(q)) \in Seq(Command)
  BY QBufLists
<1> HIDE DEF s, q, r
<1>3. Good(drv)'
  <2>1. Good(drv') BY <1>1, <1>2 DEF QueuedLists
  <2> QED BY <2>1 DEF Good, Shape, Apart, Balanced, Sound, Held, Busy
<1>4. Owners' BY <1>1, <1>2 DEF IInv, Owners, Busy, QueuedLists
<1>5. cmds' \in Seq(Command) BY <1>1, <1>2 DEF IInv, Rest
<1>6. Rest' BY <1>5 DEF IInv, Rest
<1> QED BY <1>1, <1>2, <1>3, <1>4, <1>6 DEF IInv, QueuedLists

\* What the lists are after a step.
LEMMA ListsAfter == ASSUME NEW r, Good(r), drv' = r PROVE Good(drv)'
<1>1. Good(drv') OBVIOUS
<1> QED BY <1>1 DEF Good, Shape, Apart, Balanced, Sound, Held, Busy

LEMMA SingleKeeps ==
  ASSUME IInv, DeferredHasTimer, NEW i \in Index, NEW d \in Dma, QBufSingle(i, d)
  PROVE  IInv' /\ DeferredHasTimer'
<1>1. IInv' /\ Deferred(drv') = (Deferred(drv) \cup {i}) \ {i}
  BY QBufKeeps DEF QBufSingle, IInv, Rest
<1> QED BY <1>1 DEF QBufSingle, DeferredHasTimer, Deferred, Has

LEMMA DefersKeeps ==
  ASSUME IInv, DeferredHasTimer, NEW i \in Index, NEW d \in Dma, QBufDefers(i, d)
  PROVE  IInv' /\ DeferredHasTimer'
<1>1. batch' \in [enable : BOOLEAN, timer : BOOLEAN, running : BOOLEAN] /\ batch'.timer
  BY DEF QBufDefers, IInv, Rest
<1> DEFINE none == {}
<1>2. MayQueue(i, d) /\ port = "on"
        /\ QueueAndRelease(GetDriverBufs(Prepare(drv, i, d), {i}), none)
  BY DEF QBufDefers
<1>3. none \subseteq Deferred(drv) \cup {i} OBVIOUS
<1> HIDE DEF none
<1>4. vb2' = [vb2 EXCEPT ![i] = "driver"] /\ UNCHANGED <<port, dpb, msgs, fw, failed>>
  BY DEF QBufDefers
<1>5. IInv' BY <1>1, <1>2, <1>3, <1>4, QBufKeeps
<1> QED BY <1>1, <1>5 DEF DeferredHasTimer

LEMMA BatchKeeps ==
  ASSUME IInv, DeferredHasTimer, NEW i \in Index, NEW d \in Dma, NEW early \in BOOLEAN,
         QBufBatch(i, d, early)
  PROVE  IInv' /\ DeferredHasTimer'
<1> DEFINE s == GetDriverBufs(Prepare(drv, i, d), {i})
<1>1. batch' \in [enable : BOOLEAN, timer : BOOLEAN, running : BOOLEAN]
  BY DEF QBufBatch, IInv, Rest
<1>2. MayQueue(i, d) /\ port = "on" /\ QueueAndRelease(s, Deferred(s))
  BY DEF QBufBatch
<1>3. Deferred(s) = Deferred(drv) \cup {i} BY <1>2, QBufLists
<1>4. IInv' /\ Deferred(drv') = (Deferred(drv) \cup {i}) \ Deferred(s)
  BY <1>1, <1>2, <1>3, QBufKeeps DEF QBufBatch
<1>5. Deferred(drv') = {} BY <1>3, <1>4
<1> QED BY <1>4, <1>5 DEF DeferredHasTimer, Deferred, Has

LEMMA RetuneType ==
  ASSUME NEW b \in [enable : BOOLEAN, timer : BOOLEAN, running : BOOLEAN], NEW c \in Retune(b)
  PROVE  /\ c \in [enable : BOOLEAN, timer : BOOLEAN, running : BOOLEAN]
         /\ c.timer = b.timer /\ c.running = b.running
BY DEF Retune

\* The lists r once all that was deferred has gone out.
ResentLists(r) ==
  /\ Good(r)
  /\ Deferred(r) = {}
  /\ \A i \in Index : r.buf[i].ref = drv.buf[i].ref /\ r.buf[i].dma = drv.buf[i].dma
  /\ \A i \in Index : Busy(r.buf[i]) => r.buf[i].dma \in Dma

LEMMA ResendLists ==
  ASSUME IInv, port \in {"on", "stopping", "stopped"}
  PROVE  /\ ResentLists(Queue(drv, Deferred(drv)))
         /\ Ftbs(drv, Deferred(drv)) \in Seq(Command)
<1> DEFINE B == Deferred(drv)
           r == Queue(drv, B)
<1>1. B \in SUBSET Index /\ Good(drv) BY DEF Deferred, IInv
<1>2. \A i \in Index : Busy(drv.buf[i]) => drv.buf[i].dma \in Dma
  BY DEF IInv, Owners
<1>3. \A i \in B : drv.buf[i].dma \in Dma BY <1>2 DEF Deferred, Has, Busy
<1> HIDE DEF B
<1>4. /\ Good(r) /\ Deferred(r) = Deferred(drv) \ B
      /\ \A i \in Index : r.buf[i].ref = drv.buf[i].ref /\ r.buf[i].dma = drv.buf[i].dma
      /\ \A i \in Index \ B : r.buf[i] = drv.buf[i]
  BY <1>1, QueueKeeps
<1> HIDE DEF r
<1>5. Deferred(r) = {} BY <1>4 DEF B
<1>6. \A i \in Index : Busy(r.buf[i]) => r.buf[i].dma \in Dma
  BY <1>2, <1>3, <1>4
<1>7. Ftbs(drv, B) \in Seq(Command) BY <1>1, <1>3, FtbsType
<1> QED BY <1>4, <1>5, <1>6, <1>7 DEF ResentLists, r, B

LEMMA StartKeeps ==
  ASSUME IInv, DeferredHasTimer, StartCmd
  PROVE  IInv' /\ DeferredHasTimer'
<1> DEFINE r == Queue(drv, Deferred(drv))
<1>1. ResentLists(r) /\ Ftbs(drv, Deferred(drv)) \in Seq(Command)
  BY ResendLists DEF StartCmd
<1>2. drv' = r /\ cmds' = cmds \o Ftbs(drv, Deferred(drv)) BY DEF StartCmd
<1> HIDE DEF r
<1>3. Good(drv)' BY <1>1, <1>2, ListsAfter DEF ResentLists
<1>4. Owners' BY <1>1, <1>2 DEF StartCmd, IInv, Owners, ResentLists, Busy
<1>5. cmds' \in Seq(Command) BY <1>1, <1>2 DEF IInv, Rest
<1>6. batch' \in [enable : BOOLEAN, timer : BOOLEAN, running : BOOLEAN]
  BY RetuneType DEF StartCmd, IInv, Rest
<1>7. Rest' BY <1>5, <1>6 DEF StartCmd, IInv, Rest
<1>8. Deferred(drv') = {} BY <1>1, <1>2 DEF ResentLists
<1> QED BY <1>3, <1>4, <1>7, <1>8 DEF IInv, DeferredHasTimer, Deferred, Has

LEMMA BatchRunsKeeps ==
  ASSUME IInv, DeferredHasTimer, BatchRuns
  PROVE  IInv' /\ DeferredHasTimer'
<1> DEFINE r == Queue(drv, Deferred(drv))
<1>1. batch' \in [enable : BOOLEAN, timer : BOOLEAN, running : BOOLEAN]
  BY DEF BatchRuns, IInv, Rest
<1>2. CASE failed = "no" /\ port \in {"on", "stopping", "stopped"}
  <2>1. ResentLists(r) /\ Ftbs(drv, Deferred(drv)) \in Seq(Command)
    BY <1>2, ResendLists
  <2>2. drv' = r /\ cmds' = cmds \o Ftbs(drv, Deferred(drv)) BY <1>2 DEF BatchRuns
  <2> HIDE DEF r
  <2>3. Good(drv)' BY <2>1, <2>2, ListsAfter DEF ResentLists
  <2>4. Owners' BY <1>2, <2>1, <2>2 DEF BatchRuns, IInv, Owners, ResentLists, Busy
  <2>5. cmds' \in Seq(Command) BY <2>1, <2>2 DEF IInv, Rest
  <2>6. Rest' BY <1>1, <2>5 DEF BatchRuns, IInv, Rest
  <2>7. Deferred(drv') = {} BY <2>1, <2>2 DEF ResentLists
  <2> QED BY <2>3, <2>4, <2>6, <2>7 DEF IInv, DeferredHasTimer, Deferred, Has
<1>3. CASE ~(failed = "no" /\ port \in {"on", "stopping", "stopped"})
  <2>1. drv' = drv /\ cmds' = cmds BY <1>3 DEF BatchRuns
  <2>2. Good(drv)' BY <2>1, ListsAfter DEF IInv
  <2>3. Owners' BY <2>1 DEF BatchRuns, IInv, Owners, Busy
  <2>4. Rest' BY <1>1, <2>1 DEF BatchRuns, IInv, Rest
  <2> QED BY <1>3, <2>2, <2>3, <2>4 DEF BatchRuns, IInv, DeferredHasTimer
<1> QED BY <1>2, <1>3

LEMMA StreamOnKeeps ==
  ASSUME IInv, DeferredHasTimer, StreamOn, "partial_requeue" \notin Events
  PROVE  IInv' /\ DeferredHasTimer'
<1> DEFINE kept == {i \in Index : vb2[i] = "prepared"}
           s == GetDriverBufs(drv, kept)
           r == Queue(s, Deferred(s))
<1>1. /\ kept \in SUBSET Index /\ Good(drv)
      /\ \A i \in kept : drv.buf[i].dma \in Dma
  BY DEF IInv, Owners
<1>2. Deferred(drv) \subseteq kept BY DEF StreamOn, IInv, Owners, Deferred
<1>3. \A i \in Index \ kept : ~drv.buf[i].ref /\ ~Busy(drv.buf[i])
  BY <1>2 DEF StreamOn, Live, IInv, Owners, Busy, Deferred, Has
<1>4. /\ drv' = r /\ cmds' = Append(cmds, [type |-> "start"]) \o Ftbs(s, Deferred(s))
      /\ vb2' = [i \in Index |-> IF i \in kept THEN "driver" ELSE vb2[i]]
  BY DEF StreamOn
<1>5. \A i \in Index \ kept : vb2[i] # "prepared" OBVIOUS
<1> HIDE DEF kept
<1>6. /\ Good(s) /\ Deferred(s) = Deferred(drv) \cup kept
      /\ \A i \in Index \ kept : s.buf[i] = drv.buf[i]
      /\ \A i \in Index : s.buf[i].dma = drv.buf[i].dma
  BY <1>1, GetKeeps
<1> HIDE DEF s
<1>7. Deferred(s) = kept BY <1>2, <1>6
<1>8. /\ Good(r) /\ Deferred(r) = Deferred(s) \ kept
      /\ \A i \in Index : r.buf[i].ref = s.buf[i].ref /\ r.buf[i].dma = s.buf[i].dma
      /\ \A i \in Index \ kept : r.buf[i] = s.buf[i]
  BY <1>1, <1>6, <1>7, QueueKeeps
<1>9. Ftbs(s, kept) \in Seq(Command) BY <1>1, <1>6, FtbsType
<1> HIDE DEF r
<1>10. Good(drv)' BY <1>4, <1>8, ListsAfter
<1>11. \A i \in Index : /\ i \in kept => vb2'[i] = "driver" /\ drv'.buf[i].dma \in Dma
                        /\ i \notin kept => /\ vb2'[i] = vb2[i]
                                            /\ drv'.buf[i] = drv.buf[i]
  BY <1>1, <1>4, <1>6, <1>8
<1>12. port' = "on" /\ failed' = failed BY DEF StreamOn
<1>13. vb2' \in [Index -> {"client", "prepared", "driver"}]
  BY <1>4 DEF IInv, Owners
<1>14. Owners' BY <1>3, <1>5, <1>11, <1>12, <1>13 DEF Owners
<1>15. [type |-> "start"] \in Command BY DEF Command
<1>16. cmds' \in Seq(Command) BY <1>4, <1>7, <1>9, <1>15 DEF IInv, Rest
<1>17. batch' \in [enable : BOOLEAN, timer : BOOLEAN, running : BOOLEAN]
  BY RetuneType DEF StreamOn, IInv, Rest
<1>18. Rest' BY <1>16, <1>17 DEF StreamOn, IInv, Rest
<1>19. Deferred(drv') = {} BY <1>4, <1>7, <1>8
<1> QED BY <1>10, <1>14, <1>18, <1>19 DEF IInv, DeferredHasTimer, Deferred, Has

LEMMA ReqBufs0Keeps ==
  ASSUME IInv, DeferredHasTimer, ReqBufs0
  PROVE  IInv' /\ DeferredHasTimer'
<1> DEFINE all == {drv.buf[i].dma : i \in Index}
           free(i) == [drv.buf[i] EXCEPT !.dma = NoDma, !.map = FALSE]
           mapped(d) == \E i \in Index : drv.buf[i].dma = d /\ drv.buf[i].map
           back(d) == [drv.ro[d] EXCEPT !.map = mapped(d)]
           b == [i \in Index |-> free(i)]
           r == [d \in Dma |-> IF d \in all /\ drv.ro[d].listed THEN back(d) ELSE drv.ro[d]]
<1>1. drv' = [drv EXCEPT !.buf = b, !.ro = r] BY DEF ReqBufs0
<1>2. Good(drv) /\ \A i \in Index : ~drv.buf[i].ref
  BY DEF ReqBufs0, IInv, Owners
<1> HIDE DEF all
<1>3. \A d \in Dma : mapped(d) \in BOOLEAN OBVIOUS
<1> HIDE DEF mapped
<1>4. \A d \in Dma : /\ back(d) \in RoEntry
                     /\ back(d).ref = drv.ro[d].ref /\ back(d).listed = drv.ro[d].listed
  BY <1>2, <1>3 DEF Good, Shape, RoEntry
<1>5. \A i \in Index : /\ free(i) \in Buffer /\ free(i).dma = NoDma
                       /\ ~free(i).ref /\ free(i).attr = drv.buf[i].attr
  BY <1>2 DEF Good, Shape, Buffer
<1> HIDE DEF back, free
<1>6. /\ r \in [Dma -> RoEntry]
      /\ \A d \in Dma : r[d].ref = drv.ro[d].ref /\ r[d].listed = drv.ro[d].listed
  BY <1>2, <1>4 DEF Good, Shape
<1>7. /\ b \in [Index -> Buffer]
      /\ \A i \in Index : b[i].dma = NoDma /\ ~b[i].ref /\ b[i].attr = drv.buf[i].attr
  BY <1>5
<1> HIDE DEF b, r
<1>8. Is(drv', b, r, drv.tracker) BY <1>1, <1>2, <1>6, <1>7, WithBufRo DEF Good
<1>9. Balanced(drv')
  <2>1. \A d \in Dma : ~Held(drv', d) /\ ~Held(drv, d) BY <1>2, <1>7, <1>8 DEF Held, Is
  <2> QED BY <1>2, <1>6, <1>8, <2>1 DEF Balanced, Good, Bit, Is
<1>10. Apart(drv') /\ Sound(drv')
  BY <1>2, <1>6, <1>7, <1>8 DEF Apart, Sound, Good, Is
<1>11. Good(drv') BY <1>8, <1>9, <1>10 DEF Good, Is
<1>12. Good(drv)' BY <1>11, ListsAfter
<1>13. \A i \in Index : ~drv'.buf[i].ref /\ drv'.buf[i].attr = drv.buf[i].attr
  BY <1>7, <1>8 DEF Is
<1>14. Owners' BY <1>13 DEF ReqBufs0, IInv, Owners
<1>15. Rest' BY DEF ReqBufs0, IInv, Rest
<1> QED BY <1>12, <1>14, <1>15 DEF IInv, DeferredHasTimer, ReqBufs0

LEMMA StreamOffEndsKeeps ==
  ASSUME IInv, DeferredHasTimer, StreamOffEnds
  PROVE  IInv' /\ DeferredHasTimer'
<1>1. /\ Good(drv')
      /\ \A i \in Index : ~drv'.buf[i].ref /\ drv'.buf[i].attr = drv.buf[i].attr
  BY FlushKeeps DEF StreamOffEnds, IInv
<1>2. Good(drv)' BY <1>1, ListsAfter
<1>3. failed' = "no" => \A i \in Index : "QUEUED" \notin drv'.buf[i].attr
  BY <1>1 DEF StreamOffEnds, Has
<1>4. Owners' BY <1>1, <1>3 DEF StreamOffEnds, Owners
<1>5. Rest' BY DEF StreamOffEnds, IInv, Rest
<1> QED BY <1>2, <1>4, <1>5 DEF IInv, DeferredHasTimer, StreamOffEnds

LEMMA CloseKeeps ==
  ASSUME IInv, DeferredHasTimer, Close
  PROVE  IInv' /\ DeferredHasTimer'
<1>1. FreshBuffer \in Buffer /\ ~FreshBuffer.ref /\ FreshBuffer.dma = NoDma
        /\ FreshBuffer.attr = {}
  BY DEF FreshBuffer, Buffer
<1>2. NoEntry \in RoEntry /\ ~NoEntry.ref BY DEF NoEntry, RoEntry
<1> DEFINE holders(d) == Cardinality({i \in Index : drv.buf[i].ref /\ drv.buf[i].dma = d})
           n == [d \in Dma |-> drv.tracker[d] - holders(d) - IF drv.ro[d].ref THEN 1 ELSE 0]
<1>3. drv' = [buf |-> [i \in Index |-> FreshBuffer], ro |-> [d \in Dma |-> NoEntry],
              tracker |-> n]
  BY DEF Close
<1>4. Good(drv) BY DEF IInv
<1>5. \A d \in Dma : holders(d) = Bit(Held(drv, d)) BY <1>4, HolderCount
<1> HIDE DEF holders
<1>6. \A d \in Dma : n[d] = 0 BY <1>4, <1>5 DEF Good, Balanced, Bit
<1>7. n \in [Dma -> Int]
  <2>1. n = [d \in Dma |-> n[d]] OBVIOUS
  <2> QED BY <1>6, <2>1
<1> HIDE DEF n
<1>8. Shape(drv') BY <1>1, <1>2, <1>3, <1>7 DEF Shape
<1>9. /\ \A i \in Index : drv'.buf[i] = FreshBuffer
      /\ \A d \in Dma : drv'.ro[d] = NoEntry /\ drv'.tracker[d] = 0
  BY <1>3, <1>6
<1>10. Apart(drv') /\ Sound(drv') BY <1>1, <1>2, <1>9 DEF Apart, Sound
<1>11. Balanced(drv') BY <1>1, <1>2, <1>9 DEF Balanced, Held, Bit
<1>12. Good(drv') BY <1>8, <1>10, <1>11 DEF Good
<1>13. Good(drv)' BY <1>12, ListsAfter
<1>14. Owners' BY <1>1, <1>9 DEF Close, Owners
<1>15. Rest'
  <2>1. batch' \in [enable : BOOLEAN, timer : BOOLEAN, running : BOOLEAN]
    BY DEF Close, IInv, Rest
  <2>2. cmds' \in Seq(Command) /\ msgs' \in Seq(Message) BY DEF Close
  <2>3. fw' \in [on : BOOLEAN, queued : SUBSET (Index \X Dma),
                 refs : SUBSET (Index \X Dma)]
    BY DEF Close
  <2> QED BY <2>1, <2>2, <2>3 DEF Close, IInv, Rest
<1> QED BY <1>13, <1>14, <1>15 DEF IInv, DeferredHasTimer, Close

\* What leaves the lists, the client and the packets alone.
LEMMA StreamOffKeeps ==
  ASSUME IInv, DeferredHasTimer, StreamOff
  PROVE  IInv' /\ DeferredHasTimer'
<1>1. Good(drv)' BY ListsAfter DEF IInv, StreamOff
<1>2. Owners' BY DEF StreamOff, IInv, Owners, Busy
<1>3. [type |-> "stop"] \in Command BY DEF Command
<1>4. cmds' \in Seq(Command) BY <1>3 DEF StreamOff, IInv, Rest
<1>5. Rest' BY <1>4 DEF StreamOff, IInv, Rest
<1> QED BY <1>1, <1>2, <1>5 DEF IInv, DeferredHasTimer, StreamOff

LEMMA BatchStartsKeeps ==
  ASSUME IInv, DeferredHasTimer, BatchStarts
  PROVE  IInv' /\ DeferredHasTimer'
<1>1. Good(drv)' BY ListsAfter DEF IInv, BatchStarts
<1>2. Owners' BY DEF BatchStarts, IInv, Owners, Busy
<1>3. batch' \in [enable : BOOLEAN, timer : BOOLEAN, running : BOOLEAN] /\ batch'.running
  BY DEF BatchStarts, IInv, Rest
<1>4. Rest' BY <1>3 DEF BatchStarts, IInv, Rest
<1> QED BY <1>1, <1>2, <1>3, <1>4 DEF IInv, DeferredHasTimer

-----------------------------------------------------------------------------
(* The steps of the interrupt thread.                                      *)

LEMMA FrameType ==
  ASSUME NEW m \in Message, m.type = "frame"
  PROVE  m.i \in Index /\ m.d \in Dma /\ m.list \in SUBSET Dma
BY DEF Message, Frame

LEMMA StopDoneKeeps ==
  ASSUME IInv, DeferredHasTimer, HandleStopDone
  PROVE  IInv' /\ DeferredHasTimer'
<1>1. Good(drv)' BY ListsAfter DEF IInv, HandleStopDone
<1>2. Owners' BY DEF HandleStopDone, IInv, Owners, Busy
<1>3. msgs' \in Seq(Message) BY DEF HandleStopDone, Handles, IInv, Rest
<1>4. Rest' BY <1>3 DEF HandleStopDone, IInv, Rest
<1> QED BY <1>1, <1>2, <1>4 DEF IInv, DeferredHasTimer, HandleStopDone

LEMMA ReleaseDoneKeeps ==
  ASSUME IInv, DeferredHasTimer, HandleReleaseDone
  PROVE  IInv' /\ DeferredHasTimer'
<1> DEFINE known == {d \in Head(msgs).bufs : RoHas(drv, d, "PENDING_RELEASE")}
           e(d) == [drv.ro[d] EXCEPT !.attr =
                      drv.ro[d].attr \ {"READ_ONLY", "PENDING_RELEASE"}]
           r == [d \in Dma |-> IF d \in known THEN e(d) ELSE drv.ro[d]]
<1>1. drv' = [drv EXCEPT !.ro = r] BY DEF HandleReleaseDone
<1>2. Good(drv) BY DEF IInv
<1> HIDE DEF known
<1>3. \A d \in Dma : /\ e(d) \in RoEntry
                     /\ e(d).ref = drv.ro[d].ref /\ e(d).listed = drv.ro[d].listed
  BY <1>2 DEF Good, Shape, RoEntry
<1> HIDE DEF e
<1>4. /\ r \in [Dma -> RoEntry]
      /\ \A d \in Dma : r[d].ref = drv.ro[d].ref /\ r[d].listed = drv.ro[d].listed
  BY <1>2, <1>3 DEF Good, Shape
<1> HIDE DEF r
<1>5. Good(drv') /\ drv'.buf = drv.buf BY <1>1, <1>2, <1>4, EntryAttributesKeep
<1>6. Good(drv)' BY <1>5, ListsAfter
<1>7. Owners' BY <1>5 DEF HandleReleaseDone, Handles, IInv, Owners, Busy
<1>8. msgs' \in Seq(Message) BY DEF HandleReleaseDone, Handles, IInv, Rest
<1>9. failed' \in {"no", "stop", "release"} /\ failed = "no"
  BY DEF HandleReleaseDone, Handles
<1>10. Rest' BY <1>8, <1>9 DEF HandleReleaseDone, IInv, Rest
<1>11. Deferred(drv') = Deferred(drv) BY <1>5 DEF Deferred, Has
<1> QED BY <1>6, <1>7, <1>9, <1>10, <1>11
        DEF IInv, DeferredHasTimer, HandleReleaseDone, Deferred, Has

LEMMA HandleFrameKeeps ==
  ASSUME IInv, DeferredHasTimer, HandleFrame
  PROVE  IInv' /\ DeferredHasTimer'
<1> DEFINE m == Head(msgs)
           l == IF dpb.mode = "none" THEN drv ELSE MarkEligible(drv, m.list)
           s == IF m.ro THEN l ELSE NoLongerRead(l, m.d)
           hit == {i \in Index : Matches(s, i, m)}
<1>1. m.i \in Index /\ m.d \in Dma /\ m.list \in SUBSET Dma
  <2>1. m \in Message /\ m.type = "frame" BY DEF HandleFrame, Handles, IInv, Rest
  <2> QED BY <2>1, FrameType
<1>2. Good(l) /\ l.buf = drv.buf BY MarkEligibleKeeps DEF IInv
<1>3. /\ IF hit = {} THEN drv' = s /\ vb2' = vb2
         ELSE \E i \in hit :
                /\ drv' = Return(s, i, m)
                /\ vb2' = IF Has(s, i, "BUFFER_DONE") \/ vb2[i] # "driver"
                          THEN vb2 ELSE [vb2 EXCEPT ![i] = "client"]
      /\ dpb' = IF dpb.mode = "none" THEN dpb ELSE [dpb EXCEPT !.list = m.list]
  BY DEF HandleFrame
<1>4. failed = "no" BY DEF HandleFrame, Handles
<1> HIDE DEF l, m
<1>5. Good(s) /\ s.buf = drv.buf BY <1>1, <1>2, NoLongerReadKeeps
<1> HIDE DEF s
<1>6. Rest'
  <2>1. dpb' \in [mode : {"none", "input", "output"}, list : SUBSET Dma]
    BY <1>1, <1>3 DEF IInv, Rest
  <2>2. msgs' \in Seq(Message) BY DEF HandleFrame, Handles, IInv, Rest
  <2> QED BY <2>1, <2>2 DEF HandleFrame, IInv, Rest
<1>7. CASE hit = {}
  <2>1. drv' = s /\ vb2' = vb2 BY <1>3, <1>7
  <2>2. Good(drv)' BY <1>5, <2>1, ListsAfter
  <2>3. Owners' BY <1>5, <2>1 DEF HandleFrame, IInv, Owners, Busy
  <2>4. Deferred(drv') = Deferred(drv) BY <1>5, <2>1 DEF Deferred, Has
  <2> QED BY <1>6, <2>2, <2>3, <2>4 DEF IInv, DeferredHasTimer, HandleFrame, Deferred, Has
<1>8. CASE hit # {}
  <2>1. PICK i \in hit :
          /\ drv' = Return(s, i, m)
          /\ vb2' = IF Has(s, i, "BUFFER_DONE") \/ vb2[i] # "driver"
                    THEN vb2 ELSE [vb2 EXCEPT ![i] = "client"]
    BY <1>3, <1>8
  <2>2. i \in Index /\ s.buf[i].dma \in Dma /\ "QUEUED" \in drv.buf[i].attr
    BY <1>1, <1>5 DEF Matches, Has
  <2> HIDE DEF hit
  <2>3. /\ Good(drv') /\ ~drv'.buf[i].ref
        /\ Deferred(drv') = Deferred(s)
        /\ \A j \in Index : drv'.buf[j].dma = drv.buf[j].dma
        /\ \A j \in Index \ {i} : drv'.buf[j] = drv.buf[j]
    BY <1>5, <2>1, <2>2, ReturnKeeps
  <2>4. Good(drv)' BY <2>3, ListsAfter
  <2>5. port \in {"on", "stopping", "stopped"} BY <1>4, <2>2 DEF IInv, Owners, Rest
  <2>6. /\ vb2' \in [Index -> {"client", "prepared", "driver"}]
        /\ \A j \in Index \ {i} : vb2'[j] = vb2[j]
        /\ vb2'[i] = "prepared" => vb2[i] = "prepared"
    BY <2>1 DEF IInv, Owners
  <2>7. drv'.buf[i].dma \in Dma BY <1>5, <2>2, <2>3
  <2>8. port' = port BY DEF HandleFrame
  <2>9. Owners'
    <3>1. \A j \in Index : vb2'[j] # "driver" => ~drv'.buf[j].ref
      BY <2>3, <2>6 DEF IInv, Owners
    <3>2. \A j \in Index : vb2'[j] = "prepared" => drv'.buf[j].dma \in Dma
      BY <2>3, <2>6, <2>7 DEF IInv, Owners
    <3>3. \A j \in Index : Busy(drv'.buf[j]) => drv'.buf[j].dma \in Dma
      BY <2>3, <2>5, <2>7 DEF IInv, Owners
    <3> QED BY <2>5, <2>6, <2>8, <3>1, <3>2, <3>3 DEF Owners, Busy
  <2>10. Deferred(drv') = Deferred(drv) BY <1>5, <2>3 DEF Deferred, Has
  <2> QED BY <1>6, <2>4, <2>9, <2>10
          DEF IInv, DeferredHasTimer, HandleFrame, Deferred, Has
<1> QED BY <1>7, <1>8

-----------------------------------------------------------------------------
(* The steps of the firmware, which see and change packets alone.          *)

LEMMA FirmwareKeeps ==
  ASSUME IInv, DeferredHasTimer, UNCHANGED <<drv, vb2, port, batch, dpb, failed>>,
         cmds' \in Seq(Command), msgs' \in Seq(Message),
         fw' \in [on : BOOLEAN, queued : SUBSET (Index \X Dma),
                  refs : SUBSET (Index \X Dma)]
  PROVE  IInv' /\ DeferredHasTimer'
<1>1. Good(drv)' BY ListsAfter DEF IInv
<1>2. Owners' BY DEF IInv, Owners, Busy
<1>3. Rest' BY DEF IInv, Rest
<1> QED BY <1>1, <1>2, <1>3 DEF IInv, DeferredHasTimer

LEMMA CommandType ==
  ASSUME NEW c \in Command
  PROVE  /\ c.type = "ftb" => c.bufs \in SUBSET Ftb
         /\ c.type = "release" => c.bufs \in SUBSET Dma
BY DEF Command

LEMMA FrameOfType ==
  ASSUME NEW x \in Index \X Dma, NEW read \in BOOLEAN, NEW list \in SUBSET Dma,
         NEW again \in BOOLEAN
  PROVE  FrameOf(x, read, list, again) \in Message
BY DEF FrameOf, Message, Frame

LEMMA AppendType ==
  ASSUME NEW q \in Seq(Message), NEW m \in Message PROVE Append(q, m) \in Seq(Message)
OBVIOUS

LEMMA ReadingType == IInv => Reading \in SUBSET Dma
BY DEF IInv, Rest, Reading

LEMMA FwStepsKeep ==
  ASSUME IInv, DeferredHasTimer, Firmware
  PROVE  IInv' /\ DeferredHasTimer'
<1>1. /\ cmds \in Seq(Command) /\ msgs \in Seq(Message)
      /\ fw \in [on : BOOLEAN, queued : SUBSET (Index \X Dma),
                 refs : SUBSET (Index \X Dma)]
  BY DEF IInv, Rest
<1>2. CASE FwStarts
  <2>1. cmds' \in Seq(Command) BY <1>1, <1>2 DEF FwStarts, Takes
  <2>2. fw' \in [on : BOOLEAN, queued : SUBSET (Index \X Dma),
                 refs : SUBSET (Index \X Dma)]
    BY <1>1, <1>2 DEF FwStarts
  <2> QED BY <1>1, <1>2, <2>1, <2>2, FirmwareKeeps DEF FwStarts
<1>3. CASE FwTakesFtb
  <2>1. cmds' \in Seq(Command) /\ Head(cmds).bufs \in SUBSET Ftb
    BY <1>1, <1>3, CommandType DEF FwTakesFtb, Takes
  <2>2. {<<f.i, f.d>> : f \in Head(cmds).bufs} \in SUBSET (Index \X Dma)
    BY <2>1 DEF Ftb
  <2>3. fw' \in [on : BOOLEAN, queued : SUBSET (Index \X Dma),
                 refs : SUBSET (Index \X Dma)]
    BY <1>1, <1>3, <2>2 DEF FwTakesFtb
  <2> QED BY <1>1, <1>3, <2>1, <2>3, FirmwareKeeps DEF FwTakesFtb
<1>4. CASE FwReleases
  <2>1. cmds' \in Seq(Command) /\ Head(cmds).bufs \in SUBSET Dma
    BY <1>1, <1>4, CommandType DEF FwReleases, Takes
  <2>2. [type |-> "release_done", bufs |-> Head(cmds).bufs] \in Message
    BY <2>1 DEF Message
  <2>3. msgs' \in Seq(Message) BY <1>1, <1>4, <2>2 DEF FwReleases
  <2>4. fw' \in [on : BOOLEAN, queued : SUBSET (Index \X Dma),
                 refs : SUBSET (Index \X Dma)]
    BY <1>1, <1>4 DEF FwReleases
  <2> QED BY <1>4, <2>1, <2>3, <2>4, FirmwareKeeps DEF FwReleases
<1>5. CASE FwStops
  <2>1. cmds' \in Seq(Command) BY <1>1, <1>5 DEF FwStops, Takes
  <2>2. [type |-> "stop_done"] \in Message BY DEF Message
  <2>3. msgs' \in Seq(Message) BY <1>1, <1>5, <2>2 DEF FwStops
  <2>4. fw' \in [on : BOOLEAN, queued : SUBSET (Index \X Dma),
                 refs : SUBSET (Index \X Dma)]
    BY <1>1, <1>5 DEF FwStops
  <2> QED BY <1>5, <2>1, <2>3, <2>4, FirmwareKeeps DEF FwStops
<1>6. ASSUME NEW x \in Index \X Dma, FwOutputs(x) PROVE IInv' /\ DeferredHasTimer'
  <2>1. PICK r \in SUBSET (fw.refs \cup {x}) :
          /\ fw' = [fw EXCEPT !.queued = @ \ {x}, !.refs = r]
          /\ msgs' = Append(msgs, FrameOf(x, x \in r,
                        IF dpb.mode = "none" THEN {} ELSE {y[2] : y \in r}, FALSE))
    BY <1>6 DEF FwOutputs
  <2>2. r \in SUBSET (Index \X Dma) BY <1>1
  <2>3. fw' \in [on : BOOLEAN, queued : SUBSET (Index \X Dma),
                 refs : SUBSET (Index \X Dma)]
    BY <1>1, <2>1, <2>2
  <2> DEFINE list == IF dpb.mode = "none" THEN {} ELSE {y[2] : y \in r}
  <2>4. list \in SUBSET Dma BY <2>2
  <2>5. FrameOf(x, x \in r, list, FALSE) \in Message
    <3> DEFINE read == x \in r
    <3>1. read \in BOOLEAN /\ FALSE \in BOOLEAN OBVIOUS
    <3> HIDE DEF read, list
    <3> QED BY <2>4, <3>1, FrameOfType DEF read
  <2>6. msgs' = Append(msgs, FrameOf(x, x \in r, list, FALSE)) BY <2>1
  <2>7. msgs' \in Seq(Message) BY <1>1, <2>5, <2>6, AppendType
  <2> QED BY <1>1, <1>6, <2>3, <2>7, FirmwareKeeps DEF FwOutputs
<1>7. ASSUME NEW x \in Index \X Dma, FwLetsGo(x) PROVE IInv' /\ DeferredHasTimer'
  <2>1. fw' \in [on : BOOLEAN, queued : SUBSET (Index \X Dma),
                 refs : SUBSET (Index \X Dma)]
    BY <1>1, <1>7 DEF FwLetsGo
  <2>2. FrameOf(x, FALSE, {}, TRUE) \in Message BY FrameOfType
  <2>3. msgs' = msgs \/ msgs' = Append(msgs, FrameOf(x, FALSE, {}, TRUE))
    BY <1>7 DEF FwLetsGo
  <2>4. msgs' \in Seq(Message) BY <1>1, <2>2, <2>3, AppendType
  <2> QED BY <1>1, <1>7, <2>1, <2>4, FirmwareKeeps DEF FwLetsGo
<1>8. ASSUME NEW x \in Index \X Dma, FwEmpties(x) PROVE IInv' /\ DeferredHasTimer'
  <2> DEFINE list == IF dpb.mode = "none" THEN {} ELSE Reading
             read == x[2] \in Reading
  <2>1. list \in SUBSET Dma BY ReadingType
  <2>2. read \in BOOLEAN OBVIOUS
  <2>3. fw' \in [on : BOOLEAN, queued : SUBSET (Index \X Dma),
                 refs : SUBSET (Index \X Dma)]
    BY <1>1, <1>8 DEF FwEmpties
  <2>4. msgs' = Append(msgs, FrameOf(x, read, list, FALSE)) BY <1>8 DEF FwEmpties
  <2> HIDE DEF list, read
  <2>5. FrameOf(x, read, list, FALSE) \in Message BY <2>1, <2>2, FrameOfType
  <2>6. msgs' \in Seq(Message) BY <1>1, <2>4, <2>5, AppendType
  <2> QED BY <1>1, <1>8, <2>3, <2>6, FirmwareKeeps DEF FwEmpties
<1> QED BY <1>2, <1>3, <1>4, <1>5, <1>6, <1>7, <1>8 DEF Firmware

-----------------------------------------------------------------------------
(* The theorems.                                                           *)

LEMMA StepsKeep ==
  ASSUME "partial_requeue" \notin Events, IInv, DeferredHasTimer, [Next]_vars
  PROVE  IInv' /\ DeferredHasTimer'
<1>1. CASE UNCHANGED vars
  <2>1. Good(drv)' BY <1>1, ListsAfter DEF IInv, vars
  <2>2. Owners' BY <1>1 DEF vars, IInv, Owners, Busy
  <2>3. Rest' BY <1>1 DEF vars, IInv, Rest
  <2> QED BY <1>1, <2>1, <2>2, <2>3 DEF IInv, vars, DeferredHasTimer
<1>2. CASE Client
  <2>1. ASSUME NEW i \in Index, NEW d \in Dma,
               \/ QBufPrepares(i, d) \/ QBufSingle(i, d) \/ QBufDefers(i, d)
               \/ \E early \in BOOLEAN : QBufBatch(i, d, early)
        PROVE  IInv' /\ DeferredHasTimer'
    <3>1. CASE QBufPrepares(i, d)
      <4>1. port' = "off" BY <3>1 DEF QBufPrepares
      <4> QED BY <3>1, <4>1, PreparesKeeps DEF DeferredHasTimer
    <3>2. CASE QBufSingle(i, d) BY <3>2, SingleKeeps
    <3>3. CASE QBufDefers(i, d) BY <3>3, DefersKeeps
    <3>4. ASSUME NEW early \in BOOLEAN, QBufBatch(i, d, early)
          PROVE  IInv' /\ DeferredHasTimer'
      BY <3>4, BatchKeeps
    <3> QED BY <2>1, <3>1, <3>2, <3>3, <3>4
  <2>2. CASE StreamOn BY <2>2, StreamOnKeeps
  <2>3. CASE StartCmd BY <2>3, StartKeeps
  <2>4. CASE ReqBufs0 BY <2>4, ReqBufs0Keeps
  <2>5. CASE StreamOff BY <2>5, StreamOffKeeps
  <2>6. CASE StreamOffEnds BY <2>6, StreamOffEndsKeeps
  <2>7. CASE Close BY <2>7, CloseKeeps
  <2> QED BY <1>2, <2>1, <2>2, <2>3, <2>4, <2>5, <2>6, <2>7 DEF Client
<1>3. CASE BatchStarts BY <1>3, BatchStartsKeeps
<1>4. CASE BatchRuns BY <1>4, BatchRunsKeeps
<1>5. CASE Thread
  BY <1>5, HandleFrameKeeps, ReleaseDoneKeeps, StopDoneKeeps DEF Thread
<1>6. CASE Firmware BY <1>6, FwStepsKeep
<1> QED BY <1>1, <1>2, <1>3, <1>4, <1>5, <1>6 DEF Next

LEMMA InvariantHolds ==
  ASSUME "partial_requeue" \notin Events
  PROVE  Spec => [](IInv /\ DeferredHasTimer)
<1>1. Init => IInv /\ DeferredHasTimer
  BY InitHolds DEF Init, DeferredHasTimer
<1>2. (IInv /\ DeferredHasTimer) /\ [Next]_vars => (IInv /\ DeferredHasTimer)'
  BY StepsKeep
<1> QED BY <1>1, <1>2, PTL DEF Spec

\* The variables keep their types: in particular no reference of a dmabuf is
\* put that was not taken, in any order of queueing, returning, releasing and
\* closing (msm_vidc_dma_buf_put would not find the dmabuf in the tracker).
THEOREM TypesHold ==
  ASSUME "partial_requeue" \notin Events
  PROVE  Spec => []TypeOK
<1>1. IInv => TypeOK
  <2> SUFFICES ASSUME IInv PROVE TypeOK OBVIOUS
  <2>1. Good(drv) BY DEF IInv
  <2>2. \A d \in Dma : drv.tracker[d] \in Nat BY <2>1 DEF Good, Balanced, Bit
  <2>3. drv.tracker \in [Dma -> Nat]
    <3>1. drv.tracker \in [Dma -> Int] BY <2>1 DEF Good, Shape
    <3> QED BY <2>2, <3>1
  <2>4. drv \in Drv BY <2>1, <2>3 DEF Good, Shape, Drv
  <2> QED BY <2>4 DEF TypeOK, IInv, Owners, Rest
<1> QED BY <1>1, InvariantHolds, PTL

\* The count of every dmabuf is the number of those that hold it, whichever
\* buffers share, pass on or give up a reference (dmabuf_tracker).
THEOREM CountsBalance ==
  ASSUME "partial_requeue" \notin Events
  PROVE  Spec => []RefsBalance
<1>1. IInv => RefsBalance
  <2> SUFFICES ASSUME IInv, NEW d \in Dma
               PROVE  drv.tracker[d]
                        = Cardinality({i \in Index : drv.buf[i].ref /\ drv.buf[i].dma = d})
                            + IF drv.ro[d].ref THEN 1 ELSE 0
    BY DEF RefsBalance
  <2>1. Good(drv) BY DEF IInv
  <2> QED BY <2>1, HolderCount DEF Good, Balanced, Bit
<1> QED BY <1>1, InvariantHolds, PTL

\* A deferred buffer of a streaming port has a batch work on its way, however
\* many queueings, cancels and restarts came before (msm_vdec_qbuf_batch).
THEOREM DeferredIsTimed ==
  ASSUME "partial_requeue" \notin Events
  PROVE  Spec => []DeferredHasTimer
BY InvariantHolds, PTL

-----------------------------------------------------------------------------
(***************************************************************************)
(* Where every queued buffer is, and what the firmware reads.              *)
(*                                                                         *)
(* A packet is told by its position in the commands c or in the messages   *)
(* n: the order of packets is what keeps a release, a stop and a frame     *)
(* from overtaking each other.  s are the lists of the driver, v who has   *)
(* each vb2 buffer, p the port, f and r what the firmware has queued and   *)
(* what it reads.                                                          *)
(***************************************************************************)
Queued(s, i) == "QUEUED" \in s.buf[i].attr
Waiting(s, i) == "DEFERRED" \in s.buf[i].attr
Done(s, i) == "BUFFER_DONE" \in s.buf[i].attr
Read(s, d) == "READ_ONLY" \in s.ro[d].attr
Pending(s, d) == "PENDING_RELEASE" \in s.ro[d].attr
Placed(s, i, d) == Queued(s, i) /\ s.buf[i].dma = d

\* What a packet is about.
IsFtb(x, i, d) == x.type = "ftb" /\ \E b \in x.bufs : b.i = i /\ b.d = d
IsRelease(x, d) == x.type = "release" /\ d \in x.bufs
IsFrame(m, i, d) == m.type = "frame" /\ ~m.again /\ m.i = i /\ m.d = d
IsReleased(m, d) == m.type = "release_done" /\ d \in m.bufs

\* Who has a buffer, by the attributes the driver keeps and by vb2.
Attrs(s, v, p) ==
  \A i \in Index :
    /\ Queued(s, i) => v[i] = "driver" /\ ~Waiting(s, i) /\ ~Done(s, i)
    /\ Waiting(s, i) => ~Done(s, i) /\ (p # "off" => v[i] = "driver")
    /\ v[i] = "driver" => (Queued(s, i) \/ Waiting(s, i)) /\ s.buf[i].ref

\* What is attached is mapped, and so is what is listed and not attached.
Maps(s) ==
  /\ \A i \in Index : s.buf[i].dma # NoDma => s.buf[i].map
  /\ \A d \in Dma : s.ro[d].listed /\ (\A i \in Index : s.buf[i].dma # d) => s.ro[d].map

\* Each read-only entry holds a reference.
Entries(s) ==
  \A d \in Dma : /\ s.ro[d].attr # {} => s.ro[d].listed
                 /\ s.ro[d].listed => s.ro[d].ref

\* A release by eligibility is sent for what is read, once.
Eligibles(s, mode) ==
  mode = "input" =>
    \A d \in Dma : "RELEASE_ELIGIBLE" \in s.ro[d].attr => Read(s, d) /\ ~Pending(s, d)

Lists(s, v, p, mode) == Attrs(s, v, p) /\ Maps(s) /\ Entries(s) /\ Eligibles(s, mode)

\* A queued buffer is in one place: a command, the firmware, or a message.
FtbsPlaced(s, c, n, f) ==
  \A k \in 1..Len(c), i \in Index, d \in Dma : IsFtb(c[k], i, d) =>
    /\ Placed(s, i, d) /\ <<i, d>> \notin f
    /\ \A l \in 1..Len(c) : IsFtb(c[l], i, d) => l = k
    /\ \A l \in 1..Len(n) : ~IsFrame(n[l], i, d)
QueuedPlaced(s, n, f) ==
  \A i \in Index, d \in Dma : <<i, d>> \in f =>
    Placed(s, i, d) /\ \A l \in 1..Len(n) : ~IsFrame(n[l], i, d)
FramesPlaced(s, n) ==
  \A k \in 1..Len(n), i \in Index, d \in Dma : IsFrame(n[k], i, d) =>
    Placed(s, i, d) /\ \A l \in 1..Len(n) : IsFrame(n[l], i, d) => l = k
Somewhere(s, c, n, f) ==
  \A i \in Index, d \in Dma : Placed(s, i, d) =>
    \/ \E k \in 1..Len(c) : IsFtb(c[k], i, d)
    \/ <<i, d>> \in f
    \/ \E k \in 1..Len(n) : IsFrame(n[k], i, d)

Places(s, c, n, f) ==
  /\ FtbsPlaced(s, c, n, f) /\ QueuedPlaced(s, n, f) /\ FramesPlaced(s, n)
  /\ Somewhere(s, c, n, f)

\* A stop is behind all buffers that were queued before it, and so is its
\* answer.
IsStop(x) == x.type = "stop"
IsStopDone(m) == m.type = "stop_done"
NoFtb(x) == x.type # "ftb"
NoFrame(m) == m.type # "frame" \/ m.again
NoStop(c, n) == (\A k \in 1..Len(c) : ~IsStop(c[k])) /\ (\A k \in 1..Len(n) : ~IsStopDone(n[k]))
StopSent(c, n) ==
  /\ \A k \in 1..Len(n) : ~IsStopDone(n[k])
  /\ \E k \in 1..Len(c) :
       /\ IsStop(c[k]) /\ \A l \in 1..Len(c) : IsStop(c[l]) => l = k
       /\ \A l \in 1..Len(c) : l > k => NoFtb(c[l])
StopAnswered(c, n, f) ==
  /\ \A k \in 1..Len(c) : ~IsStop(c[k]) /\ NoFtb(c[k])
  /\ f = {}
  /\ \E k \in 1..Len(n) :
       /\ IsStopDone(n[k]) /\ \A l \in 1..Len(n) : IsStopDone(n[l]) => l = k
       /\ \A l \in 1..Len(n) : l > k => NoFrame(n[l])
Stops(s, p, c, n, f) ==
  /\ p = "stopping" => StopSent(c, n) \/ StopAnswered(c, n, f)
  /\ p # "stopping" => NoStop(c, n)
  /\ p \notin {"on", "stopping"} => \A i \in Index : ~Queued(s, i)

\* A release is pending from the command to the answer, and nothing of the
\* same dmabuf is before it.
ReleasesSent(s, c, n, f) ==
  \A k \in 1..Len(c), d \in Dma : IsRelease(c[k], d) =>
    /\ Pending(s, d) /\ Read(s, d)
    /\ \A l \in 1..Len(c) : IsRelease(c[l], d) => l = k
    /\ \A l \in 1..Len(n) : ~IsReleased(n[l], d)
    /\ \A i \in Index : <<i, d>> \notin f
    /\ \A i \in Index, l \in 1..Len(n) : ~IsFrame(n[l], i, d)
    /\ \A i \in Index, l \in 1..Len(c) : IsFtb(c[l], i, d) => l > k
ReleasesAnswered(s, n) ==
  \A k \in 1..Len(n), d \in Dma : IsReleased(n[k], d) =>
    /\ Pending(s, d) /\ Read(s, d)
    /\ \A l \in 1..Len(n) : IsReleased(n[l], d) => l = k
    /\ \A i \in Index, l \in 1..Len(n) : IsFrame(n[l], i, d) => l > k
ReleasesPending(s, c, n) ==
  \A d \in Dma : Pending(s, d) => \/ \E k \in 1..Len(c) : IsRelease(c[k], d)
                                  \/ \E k \in 1..Len(n) : IsReleased(n[k], d)
\* A queued buffer is not still read without the firmware being told.
Flagged(s) == \A i \in Index, d \in Dma : Placed(s, i, d) /\ Read(s, d) => Pending(s, d)

Releasing(s, c, n, f) ==
  /\ ReleasesSent(s, c, n, f) /\ ReleasesAnswered(s, n) /\ ReleasesPending(s, c, n)
  /\ Flagged(s)

\* Without a list there are no releases, with one no second returns.
Modes(mode, c, n) ==
  IF mode = "none"
  THEN /\ \A k \in 1..Len(c) : c[k].type # "release"
       /\ \A k \in 1..Len(n) : n[k].type # "release_done"
  ELSE \A k \in 1..Len(n), d \in Dma : ~Second(n[k], d)

ReadBy(r) == {x[2] : x \in r}

\* A buffer that is returned a second time is the client's, and not read.
Seconds(s, v, n, r) ==
  \A k \in 1..Len(n), d \in Dma : Second(n[k], d) =>
    /\ d \notin ReadBy(r)
    /\ \A i \in Index : s.buf[i].dma = d => v[i] = "client"

\* The driver knows what the firmware reads, or will know with a frame that
\* is on its way.
OnItsWay(s, d) == \E i \in Index : Placed(s, i, d)
Reads(s, c, n, r) ==
  /\ \A x, y \in r : x[2] = y[2] => x = y
  /\ \A d \in ReadBy(r) : Read(s, d) \/ OnItsWay(s, d)
  /\ \A d \in ReadBy(r) : Pending(s, d) =>
       OnItsWay(s, d) \/ \E k \in 1..Len(c) : IsRelease(c[k], d)
  /\ \A i \in Index, d \in ReadBy(r), k \in 1..Len(n) : IsFrame(n[k], i, d) => n[k].ro

\* What is read is queued with the flag, or behind a release.
Told(c, r) ==
  \A k \in 1..Len(c) :
    c[k].type = "ftb" =>
      \A b \in c[k].bufs :
        b.d \in ReadBy(r) /\ ~b.ro => \E l \in 1..(k - 1) : IsRelease(c[l], b.d)

J(s, v, p, mode, c, n, f, r) ==
  /\ Lists(s, v, p, mode) /\ Places(s, c, n, f) /\ Stops(s, p, c, n, f)
  /\ Releasing(s, c, n, f) /\ Modes(mode, c, n) /\ Seconds(s, v, n, r)
  /\ Reads(s, c, n, r) /\ Told(c, r)

JInv == failed = "no" /\ J(drv, vb2, port, dpb.mode, cmds, msgs, fw.queued, fw.refs)

-----------------------------------------------------------------------------
(* Packets come in at one end and leave at the other.                      *)

Grown(c, t, x) ==
  /\ Len(c) \in Nat /\ Len(t) = Len(c) + 1 /\ t[Len(c) + 1] = x
  /\ \A k \in 1..Len(c) : t[k] = c[k]
Shifted(c, t) ==
  /\ Len(c) \in Nat /\ Len(c) > 0 /\ Len(t) = Len(c) - 1
  /\ \A k \in 1..Len(t) : t[k] = c[k + 1]

LEMMA AppendGrows ==
  ASSUME NEW T, NEW c \in Seq(T), NEW x \in T
  PROVE  Grown(c, Append(c, x), x) /\ Append(c, x) \in Seq(T)
BY DEF Grown

LEMMA TailShifts ==
  ASSUME NEW T, NEW c \in Seq(T), c # << >>
  PROVE  Shifted(c, Tail(c)) /\ Head(c) = c[1] /\ Tail(c) \in Seq(T)
BY DEF Shifted

\* What is behind in the new sequence was there before, or is new.
LEMMA GrownPlaces ==
  ASSUME NEW c, NEW t, NEW x, Grown(c, t, x)
  PROVE  /\ \A k \in 1..Len(t) : \/ k \in 1..Len(c) /\ t[k] = c[k]
                                 \/ k = Len(c) + 1 /\ t[k] = x /\ k \notin 1..Len(c)
         /\ \A k \in 1..Len(c) : k \in 1..Len(t) /\ t[k] = c[k] /\ k < Len(c) + 1
         /\ Len(c) + 1 \in 1..Len(t) /\ t[Len(c) + 1] = x
BY DEF Grown

LEMMA ShiftedPlaces ==
  ASSUME NEW c, NEW t, Shifted(c, t)
  PROVE  /\ \A k \in 1..Len(t) : k + 1 \in 1..Len(c) /\ t[k] = c[k + 1] /\ k + 1 # 1 /\ k \in Nat
         /\ \A k \in 1..Len(c) : k = 1 \/ (k - 1 \in 1..Len(t) /\ t[k - 1] = c[k] /\ k \in Int)
         /\ 1 \in 1..Len(c)
BY DEF Shifted

-----------------------------------------------------------------------------
(* What a change of the lists alone has to keep.                           *)

SameView(s, t) ==
  /\ \A i \in Index : Queued(s, i) <=> Queued(t, i)
  /\ \A i \in Index : Queued(s, i) => t.buf[i].dma = s.buf[i].dma
  /\ \A d \in Dma : (Read(s, d) <=> Read(t, d)) /\ (Pending(s, d) <=> Pending(t, d))

LEMMA ViewPlaces ==
  ASSUME NEW s, NEW t, SameView(s, t)
  PROVE  \A i \in Index, d \in Dma : Placed(s, i, d) <=> Placed(t, i, d)
BY DEF SameView, Placed

LEMMA ViewKeeps ==
  ASSUME NEW s, NEW t, NEW p, NEW c, NEW n, NEW f, NEW r \in SUBSET (Index \X Dma),
         SameView(s, t),
         Places(s, c, n, f), Stops(s, p, c, n, f), Releasing(s, c, n, f), Reads(s, c, n, r)
  PROVE  Places(t, c, n, f) /\ Stops(t, p, c, n, f) /\ Releasing(t, c, n, f) /\ Reads(t, c, n, r)
<1>1. \A i \in Index, d \in Dma : Placed(s, i, d) <=> Placed(t, i, d) BY ViewPlaces
<1>2. \A d \in Dma : (Read(s, d) <=> Read(t, d)) /\ (Pending(s, d) <=> Pending(t, d))
  BY DEF SameView
<1>3. FtbsPlaced(t, c, n, f) BY <1>1 DEF Places, FtbsPlaced
<1>4. QueuedPlaced(t, n, f) BY <1>1 DEF Places, QueuedPlaced
<1>5. FramesPlaced(t, n) BY <1>1 DEF Places, FramesPlaced
<1>6. Somewhere(t, c, n, f) BY <1>1 DEF Places, Somewhere
<1>7. Stops(t, p, c, n, f) BY DEF Stops, SameView
<1>8. ReleasesSent(t, c, n, f) BY <1>2 DEF Releasing, ReleasesSent
<1>9. ReleasesAnswered(t, n) BY <1>2 DEF Releasing, ReleasesAnswered
<1>10. ReleasesPending(t, c, n) BY <1>2 DEF Releasing, ReleasesPending
<1>11. Flagged(t) BY <1>1, <1>2 DEF Releasing, Flagged
<1>12. Reads(t, c, n, r)
  <2>1. ReadBy(r) \subseteq Dma BY DEF ReadBy
  <2>2. \A d \in Dma : OnItsWay(s, d) <=> OnItsWay(t, d) BY <1>1 DEF OnItsWay
  <2> QED BY <1>2, <2>1, <2>2 DEF Reads
<1> QED BY <1>3, <1>4, <1>5, <1>6, <1>7, <1>8, <1>9, <1>10, <1>11, <1>12
        DEF Places, Releasing

\* A change of the lists and of vb2.
LEMMA ViewStep ==
  ASSUME NEW s, NEW t, NEW v, NEW w, NEW p, NEW mode, NEW c, NEW n, NEW f,
         NEW r \in SUBSET (Index \X Dma),
         J(s, v, p, mode, c, n, f, r), SameView(s, t),
         Lists(t, w, p, mode), Seconds(t, w, n, r)
  PROVE  J(t, w, p, mode, c, n, f, r)
BY ViewKeeps DEF J

\* Entries that keep all but their mapping.
RoKept(s, t) ==
  \A d \in Dma : /\ t.ro[d].attr = s.ro[d].attr /\ t.ro[d].listed = s.ro[d].listed
                 /\ t.ro[d].ref = s.ro[d].ref

LEMMA RoKeptKeeps ==
  ASSUME NEW s, NEW t, NEW mode, RoKept(s, t), Entries(s), Eligibles(s, mode)
  PROVE  Entries(t) /\ Eligibles(t, mode)
BY DEF RoKept, Entries, Eligibles, Read, Pending

\* Lists that are the same by their elements.
SameLists(s, t) ==
  (\A i \in Index : t.buf[i] = s.buf[i]) /\ (\A d \in Dma : t.ro[d] = s.ro[d])

LEMMA SameListsKeep ==
  ASSUME NEW s, NEW t, NEW v, NEW p, NEW mode, NEW c, NEW n, NEW f,
         NEW r \in SUBSET (Index \X Dma),
         J(s, v, p, mode, c, n, f, r), SameLists(s, t)
  PROVE  J(t, v, p, mode, c, n, f, r)
<1>1. SameView(s, t) BY DEF SameLists, SameView, Queued, Read, Pending
<1>2. RoKept(s, t) BY DEF SameLists, RoKept
<1>3. Attrs(t, v, p) BY DEF J, Lists, Attrs, Queued, Waiting, Done, SameLists
<1>4. Maps(t) BY DEF J, Lists, Maps, SameLists
<1>5. Lists(t, v, p, mode) BY <1>2, <1>3, <1>4, RoKeptKeeps DEF J, Lists
<1>6. Seconds(t, v, n, r) BY DEF J, Seconds, SameLists
<1> QED BY <1>1, <1>5, <1>6, ViewStep

-----------------------------------------------------------------------------
(* A dmabuf is attached.                                                   *)

LEMMA UnmapMaps ==
  ASSUME NEW s, Good(s), NEW i \in Index, Maps(s)
  PROVE  Maps(Unmap(s, i)) /\ RoKept(s, Unmap(s, i))
<1> DEFINE u == Unmap(s, i)
           b == [s.buf[i] EXCEPT !.map = FALSE, !.dma = NoDma]
           back(e) == [s.ro[e] EXCEPT !.map = s.buf[i].map]
           r == [e \in Dma |-> IF e = s.buf[i].dma /\ s.ro[e].listed THEN back(e) ELSE s.ro[e]]
<1>1. b \in Buffer /\ b.dma = NoDma BY DEF Good, Shape, Buffer
<1>2. \A e \in Dma : /\ back(e) \in RoEntry
                     /\ back(e).attr = s.ro[e].attr /\ back(e).listed = s.ro[e].listed
                     /\ back(e).ref = s.ro[e].ref /\ back(e).map = s.buf[i].map
  BY DEF Good, Shape, Buffer, RoEntry
<1>3. u = [s EXCEPT !.buf[i] = b, !.ro = r] BY DEF Unmap
<1> HIDE DEF u, b, back
<1>4. /\ r \in [Dma -> RoEntry]
      /\ \A e \in Dma : /\ r[e].attr = s.ro[e].attr /\ r[e].listed = s.ro[e].listed
                        /\ r[e].ref = s.ro[e].ref
                        /\ e = s.buf[i].dma /\ r[e].listed => r[e].map = s.buf[i].map
                        /\ e # s.buf[i].dma => r[e].map = s.ro[e].map
  BY <1>2 DEF Good, Shape
<1> HIDE DEF r
<1>5. Is(u, [s.buf EXCEPT ![i] = b], r, s.tracker) BY <1>1, <1>3, <1>4, WithItemRo DEF Good
<1>6. u.buf[i].dma = NoDma /\ \A j \in Index \ {i} : u.buf[j] = s.buf[j]
  BY <1>1, <1>5 DEF Is, Good, Shape
<1>7. u.ro = r BY <1>5 DEF Is
<1>8. \A d \in Dma : d # NoDma BY SizesAssumption
<1>9. ASSUME NEW d \in Dma, u.ro[d].listed, \A j \in Index : u.buf[j].dma # d
      PROVE  u.ro[d].map
  <2>1. CASE d = s.buf[i].dma BY <1>4, <1>7, <1>8, <1>9, <2>1 DEF Maps
  <2>2. CASE d # s.buf[i].dma BY <1>4, <1>6, <1>7, <1>9, <2>2 DEF Maps
  <2> QED BY <2>1, <2>2
<1>10. \A j \in Index : u.buf[j].dma # NoDma => u.buf[j].map BY <1>6 DEF Maps
<1>11. RoKept(s, u) BY <1>4, <1>7 DEF RoKept
<1> QED BY <1>9, <1>10, <1>11 DEF Maps, u

LEMMA MapMaps ==
  ASSUME NEW s, Good(s), NEW i \in Index, NEW d \in Dma, Maps(s),
         s.buf[i].dma = NoDma, \A j \in Index : s.buf[j].dma # d
  PROVE  Maps(Map(s, i, d)) /\ RoKept(s, Map(s, i, d))
<1> DEFINE u == Map(s, i, d)
           b == [s.buf[i] EXCEPT !.dma = d, !.map = s.ro[d].listed => s.ro[d].map]
           e == [s.ro[d] EXCEPT !.map = FALSE]
<1>1. b \in Buffer /\ b.dma = d /\ b.map BY DEF Good, Shape, Buffer, Maps
<1>2. e \in RoEntry /\ e.ref = s.ro[d].ref /\ e.listed = s.ro[d].listed /\ e.attr = s.ro[d].attr
  BY DEF Good, Shape, RoEntry
<1>3. u = [s EXCEPT !.buf[i] = b, !.ro[d] = e] BY DEF Map
<1> HIDE DEF u, b, e
<1>4. Is(u, [s.buf EXCEPT ![i] = b], [s.ro EXCEPT ![d] = e], s.tracker)
  BY <1>1, <1>2, <1>3, WithItemEntry DEF Good
<1>5. u.buf[i] = b /\ \A j \in Index \ {i} : u.buf[j] = s.buf[j]
  BY <1>4 DEF Is, Good, Shape
<1>6. u.ro[d] = e /\ \A g \in Dma \ {d} : u.ro[g] = s.ro[g]
  BY <1>4 DEF Is, Good, Shape
<1>7. \A g \in Dma : g # NoDma BY SizesAssumption
<1>8. ASSUME NEW g \in Dma, u.ro[g].listed, \A j \in Index : u.buf[j].dma # g
      PROVE  u.ro[g].map
  BY <1>1, <1>5, <1>6, <1>7, <1>8 DEF Maps
<1>9. \A j \in Index : u.buf[j].dma # NoDma => u.buf[j].map BY <1>1, <1>5 DEF Maps
<1>10. RoKept(s, u) BY <1>2, <1>6 DEF RoKept
<1> QED BY <1>8, <1>9, <1>10 DEF Maps, u

LEMMA PrepareMaps ==
  ASSUME NEW s, Good(s), NEW i \in Index, NEW d \in Dma, ~s.buf[i].ref, Maps(s),
         \A j \in Index \ {i} : s.buf[j].dma # d
  PROVE  Maps(Prepare(s, i, d)) /\ RoKept(s, Prepare(s, i, d))
<1>1. CASE s.buf[i].dma = d BY <1>1 DEF Prepare, RoKept
<1>2. CASE s.buf[i].dma # d
  <2> DEFINE u == Unmap(s, i)
  <2>1. Prepare(s, i, d) = Map(u, i, d) BY <1>2 DEF Prepare
  <2>2. /\ Good(u) /\ u.buf[i].dma = NoDma
        /\ \A j \in Index \ {i} : u.buf[j].dma = s.buf[j].dma
    BY UnmapKeeps
  <2>3. Maps(u) /\ RoKept(s, u) BY UnmapMaps
  <2> HIDE DEF u
  <2>4. \A j \in Index : u.buf[j].dma # d BY <2>2, SizesAssumption
  <2>5. Maps(Map(u, i, d)) /\ RoKept(u, Map(u, i, d)) BY <2>2, <2>3, <2>4, MapMaps
  <2> QED BY <2>1, <2>3, <2>5 DEF RoKept
<1> QED BY <1>1, <1>2

LEMMA PrepareStep ==
  ASSUME NEW s, Good(s), NEW v, NEW p, NEW mode, NEW c, NEW n, NEW f,
         NEW r \in SUBSET (Index \X Dma), J(s, v, p, mode, c, n, f, r),
         NEW i \in Index, NEW d \in Dma, ~s.buf[i].ref, v[i] = "client",
         \A j \in Index \ {i} : s.buf[j].dma # d
  PROVE  J(Prepare(s, i, d), v, p, mode, c, n, f, r)
<1> DEFINE t == Prepare(s, i, d)
<1>1. /\ Good(t) /\ t.buf[i].dma = d
      /\ \A j \in Index : t.buf[j].ref = s.buf[j].ref /\ t.buf[j].attr = s.buf[j].attr
      /\ \A j \in Index \ {i} : t.buf[j].dma = s.buf[j].dma
  BY PrepareKeeps
<1>2. Maps(s) /\ Attrs(s, v, p) BY DEF J, Lists
<1>3. Maps(t) /\ RoKept(s, t) BY <1>2, PrepareMaps
<1> HIDE DEF t
<1>4. Attrs(t, v, p) BY <1>1, <1>2 DEF Attrs, Queued, Waiting, Done
<1>5. Lists(t, v, p, mode) BY <1>3, <1>4, RoKeptKeeps DEF J, Lists
<1>6. ~Queued(s, i) BY <1>2 DEF Attrs
<1>7. SameView(s, t) BY <1>1, <1>3, <1>6 DEF SameView, RoKept, Queued, Read, Pending
<1>8. Seconds(t, v, n, r) BY <1>1 DEF J, Seconds
<1> QED BY <1>5, <1>7, <1>8, ViewStep DEF t

-----------------------------------------------------------------------------
(* Buffers are handed to the driver.                                       *)

\* vb2 gives the buffers of B to the driver.
Given(v, w, B) ==
  \A i \in Index : /\ i \in B => w[i] = "driver"
                   /\ i \notin B => w[i] = v[i]

LEMMA GetDoes ==
  ASSUME NEW s, Good(s), NEW B \in SUBSET Index
  PROVE  LET g == GetDriverBufs(s, B) IN
         /\ g.ro = s.ro
         /\ \A i \in B : g.buf[i].attr = {"DEFERRED"} /\ g.buf[i].ref
         /\ \A i \in Index \ B : g.buf[i] = s.buf[i]
         /\ \A i \in Index : g.buf[i].dma = s.buf[i].dma /\ g.buf[i].map = s.buf[i].map
<1> DEFINE g == GetDriverBufs(s, B)
           new == {s.buf[i].dma : i \in {j \in B : ~s.buf[j].ref}}
           get(i) == [s.buf[i] EXCEPT !.attr = {"DEFERRED"}, !.ref = TRUE]
           b == [i \in Index |-> IF i \in B THEN get(i) ELSE s.buf[i]]
           n == [d \in Dma |-> s.tracker[d] + IF d \in new THEN 1 ELSE 0]
<1>1. \A i \in Index : /\ get(i) \in Buffer /\ get(i).attr = {"DEFERRED"} /\ get(i).ref
                       /\ get(i).dma = s.buf[i].dma /\ get(i).map = s.buf[i].map
  BY DEF Good, Shape, Buffer, Attributes
<1>2. g = [s EXCEPT !.buf = b, !.tracker = n] BY DEF GetDriverBufs
<1> HIDE DEF g, get
<1>3. b \in [Index -> Buffer] BY <1>1 DEF Good, Shape
<1>4. n \in [Dma -> Int]
  <2> HIDE DEF new
  <2> QED BY DEF Good, Shape
<1>5. /\ \A i \in B : b[i].ref /\ b[i].attr = {"DEFERRED"}
      /\ \A i \in Index \ B : b[i] = s.buf[i]
      /\ \A i \in Index : b[i].dma = s.buf[i].dma /\ b[i].map = s.buf[i].map
  BY <1>1
<1> HIDE DEF b, n
<1>6. Is(g, b, s.ro, n) BY <1>2, <1>3, <1>4, WithBufTracker DEF Good
<1> QED BY <1>5, <1>6 DEF Is, g

LEMMA GetStep ==
  ASSUME NEW s, Good(s), NEW v, NEW w, NEW p, NEW mode, NEW c, NEW n, NEW f,
         NEW r \in SUBSET (Index \X Dma), J(s, v, p, mode, c, n, f, r),
         NEW B \in SUBSET Index, Given(v, w, B),
         \A i \in B : v[i] # "driver",
         \A i \in B, k \in 1..Len(n) : ~Second(n[k], s.buf[i].dma)
  PROVE  J(GetDriverBufs(s, B), w, p, mode, c, n, f, r)
<1> DEFINE g == GetDriverBufs(s, B)
<1>1. /\ g.ro = s.ro
      /\ \A i \in B : g.buf[i].attr = {"DEFERRED"} /\ g.buf[i].ref
      /\ \A i \in Index \ B : g.buf[i] = s.buf[i]
      /\ \A i \in Index : g.buf[i].dma = s.buf[i].dma /\ g.buf[i].map = s.buf[i].map
  BY GetDoes
<1> HIDE DEF g
<1>2. \A i \in B : Waiting(g, i) /\ ~Queued(g, i) /\ ~Done(g, i)
  BY <1>1 DEF Waiting, Queued, Done
<1>3. \A i \in Index \ B : /\ Waiting(g, i) <=> Waiting(s, i)
                           /\ Queued(g, i) <=> Queued(s, i)
                           /\ Done(g, i) <=> Done(s, i)
  BY <1>1 DEF Waiting, Queued, Done
<1>4. Attrs(s, v, p) /\ Maps(s) BY DEF J, Lists
<1>5. \A i \in B : ~Queued(s, i) BY <1>4 DEF Attrs
<1>6. Attrs(g, w, p) BY <1>1, <1>2, <1>3, <1>4 DEF Attrs, Given
<1>7. Maps(g) BY <1>1, <1>4 DEF Maps
<1>8. RoKept(s, g) BY <1>1 DEF RoKept
<1>9. Lists(g, w, p, mode) BY <1>6, <1>7, <1>8, RoKeptKeeps DEF J, Lists
<1>10. SameView(s, g) BY <1>1, <1>2, <1>3, <1>5 DEF SameView, Read, Pending
<1>11. Seconds(s, v, n, r) BY DEF J
<1>12. Seconds(g, w, n, r)
  <2> SUFFICES ASSUME NEW k \in 1..Len(n), NEW d \in Dma, Second(n[k], d)
               PROVE  /\ d \notin ReadBy(r)
                      /\ \A i \in Index : g.buf[i].dma = d => w[i] = "client"
    BY DEF Seconds
  <2>1. /\ d \notin ReadBy(r)
        /\ \A i \in Index : s.buf[i].dma = d => v[i] = "client"
    BY <1>11 DEF Seconds
  <2>2. \A i \in B : s.buf[i].dma # d OBVIOUS
  <2> QED BY <1>1, <2>1, <2>2 DEF Given
<1> QED BY <1>9, <1>10, <1>12, ViewStep DEF g

\* The port starts to stream.
LEMMA OnStep ==
  ASSUME NEW s, NEW v, NEW mode, NEW c, NEW n, NEW f, NEW r,
         J(s, v, "off", mode, c, n, f, r),
         \A i \in Index : Waiting(s, i) => v[i] = "driver"
  PROVE  J(s, v, "on", mode, c, n, f, r)
<1>1. Attrs(s, v, "on") BY DEF J, Lists, Attrs
<1>2. Stops(s, "on", c, n, f) BY DEF J, Stops
<1> QED BY <1>1, <1>2 DEF J, Lists

-----------------------------------------------------------------------------
(* A command is sent that is neither a buffer nor a release.               *)

LEMMA OtherSent ==
  ASSUME NEW s, NEW v, NEW p, NEW mode, NEW c, NEW n, NEW f, NEW r,
         J(s, v, p, mode, c, n, f, r),
         NEW t, NEW x, Grown(c, t, x), x.type \notin {"ftb", "release"}
  PROVE  /\ Places(s, t, n, f) /\ Releasing(s, t, n, f) /\ Modes(mode, t, n)
         /\ Reads(s, t, n, r) /\ Told(t, r)
<1>1. (\A i, d : ~IsFtb(x, i, d) /\ ~IsRelease(x, d)) /\ x.type # "release" /\ x.type # "ftb"
  BY DEF IsFtb, IsRelease
<1>2. /\ \A k \in 1..Len(t) : \/ k \in 1..Len(c) /\ t[k] = c[k]
                              \/ k = Len(c) + 1 /\ t[k] = x /\ k \notin 1..Len(c)
      /\ \A k \in 1..Len(c) : k \in 1..Len(t) /\ t[k] = c[k]
  BY GrownPlaces
<1>3. Places(s, t, n, f)
  <2>1. FtbsPlaced(s, t, n, f) BY <1>1, <1>2 DEF J, Places, FtbsPlaced
  <2>2. Somewhere(s, t, n, f) BY <1>2 DEF J, Places, Somewhere
  <2> QED BY <2>1, <2>2 DEF J, Places
<1>4. Releasing(s, t, n, f)
  <2>1. ReleasesSent(s, c, n, f) BY DEF J, Releasing
  <2>2. ASSUME NEW k \in 1..Len(t), NEW d \in Dma, IsRelease(t[k], d)
        PROVE  /\ Pending(s, d) /\ Read(s, d)
               /\ \A l \in 1..Len(t) : IsRelease(t[l], d) => l = k
               /\ \A l \in 1..Len(n) : ~IsReleased(n[l], d)
               /\ \A i \in Index : <<i, d>> \notin f
               /\ \A i \in Index, l \in 1..Len(n) : ~IsFrame(n[l], i, d)
               /\ \A i \in Index, l \in 1..Len(t) : IsFtb(t[l], i, d) => l > k
    <3>1. k \in 1..Len(c) /\ t[k] = c[k] BY <1>1, <1>2, <2>2
    <3>2. IsRelease(c[k], d) BY <2>2, <3>1
    <3> QED BY <1>1, <1>2, <2>1, <3>1, <3>2 DEF ReleasesSent
  <2>3. ReleasesSent(s, t, n, f) BY <2>2 DEF ReleasesSent
  <2>4. ReleasesPending(s, t, n) BY <1>2 DEF J, Releasing, ReleasesPending
  <2> QED BY <2>3, <2>4 DEF J, Releasing
<1>5. Modes(mode, t, n) BY <1>1, <1>2 DEF J, Modes
<1>6. Reads(s, t, n, r) BY <1>2 DEF J, Reads
<1>7. Told(t, r)
  <2> SUFFICES ASSUME NEW k \in 1..Len(t), t[k].type = "ftb", NEW b \in t[k].bufs,
                      b.d \in ReadBy(r), ~b.ro
               PROVE  \E l \in 1..(k - 1) : IsRelease(t[l], b.d)
    BY DEF Told
  <2>1. k \in 1..Len(c) /\ t[k] = c[k] BY <1>1, <1>2
  <2>2. PICK l \in 1..(k - 1) : IsRelease(c[l], b.d) BY <2>1 DEF J, Told
  <2>3. l \in 1..Len(c) BY <2>1 DEF Grown
  <2> QED BY <1>2, <2>2, <2>3
<1> QED BY <1>3, <1>4, <1>5, <1>6, <1>7

LEMMA StartSent ==
  ASSUME NEW s, NEW v, NEW p, NEW mode, NEW c, NEW n, NEW f, NEW r,
         J(s, v, p, mode, c, n, f, r), p # "stopping",
         NEW t, NEW x, Grown(c, t, x), x.type = "start"
  PROVE  J(s, v, p, mode, t, n, f, r)
<1>1. ~IsStop(x) BY DEF IsStop
<1>2. Stops(s, p, t, n, f) BY <1>1, GrownPlaces DEF J, Stops, NoStop
<1> QED BY <1>2, OtherSent DEF J

\* The stop of a port that streams.
LEMMA StopIsSent ==
  ASSUME NEW s, NEW v, NEW mode, NEW c, NEW n, NEW f, NEW r,
         J(s, v, "on", mode, c, n, f, r),
         NEW t, NEW x, Grown(c, t, x), x.type = "stop"
  PROVE  J(s, v, "stopping", mode, t, n, f, r)
<1>1. IsStop(x) BY DEF IsStop
<1>2. Stops(s, "stopping", t, n, f)
  <2>1. NoStop(c, n) BY DEF J, Stops
  <2>2. \A l \in 1..Len(t) : IsStop(t[l]) => l = Len(c) + 1
    BY <2>1, GrownPlaces DEF NoStop
  <2>3. \A l \in 1..Len(t) : ~(l > Len(c) + 1) BY DEF Grown
  <2>4. \A k \in 1..Len(n) : ~IsStopDone(n[k]) BY <2>1 DEF NoStop
  <2>5. StopSent(t, n) BY <1>1, <2>2, <2>3, <2>4, GrownPlaces DEF StopSent
  <2> QED BY <2>5 DEF Stops
<1>3. Lists(s, v, "stopping", mode) BY DEF J, Lists, Attrs
<1> QED BY <1>2, <1>3, OtherSent DEF J

-----------------------------------------------------------------------------
(* Buffers are sent to the firmware.                                       *)

Gone(s, B) ==
  IF B = {} THEN {}
  ELSE NotRead(s) \cup {s.buf[i].dma : i \in {j \in B : StillRead(s, j)}}

LEMMA UnlistDoes ==
  ASSUME NEW s, Good(s), NEW D
  PROVE  /\ Unlist(s, D).buf = s.buf
         /\ \A d \in Dma : Unlist(s, D).ro[d] = IF d \in D THEN NoEntry ELSE s.ro[d]
<1> DEFINE u == Unlist(s, D)
           r == [d \in Dma |-> IF d \in D THEN NoEntry ELSE s.ro[d]]
           p == Put(s.tracker, {d \in D : s.ro[d].ref})
<1>1. r \in [Dma -> RoEntry] BY DEF Good, Shape, RoEntry, NoEntry, RoAttributes
<1>2. p \in [Dma -> Int] BY DEF Put, Good, Shape
<1>3. u = [s EXCEPT !.ro = r, !.tracker = p] BY DEF Unlist
<1>4. \A d \in Dma : r[d] = IF d \in D THEN NoEntry ELSE s.ro[d] OBVIOUS
<1> HIDE DEF u, r, p
<1>5. Is(u, s.buf, r, p) BY <1>1, <1>2, <1>3, WithRoTracker DEF Good
<1> QED BY <1>4, <1>5 DEF Is, u

LEMMA QueueDoes ==
  ASSUME NEW s, Good(s), NEW B \in SUBSET Index
  PROVE  LET q == Queue(s, B) IN
         /\ \A i \in Index \ B : q.buf[i] = s.buf[i]
         /\ \A i \in Index : /\ q.buf[i].dma = s.buf[i].dma /\ q.buf[i].ref = s.buf[i].ref
                             /\ q.buf[i].map = s.buf[i].map
         /\ \A i \in B : Queued(q, i) /\ ~Waiting(q, i) /\ (Done(q, i) <=> Done(s, i))
         /\ \A d \in Dma : q.ro[d] = IF d \in Gone(s, B) THEN NoEntry ELSE s.ro[d]
<1> DEFINE flag(i) == IF StillRead(s, i) THEN {"READ_ONLY"} ELSE {}
           attr(i) == (s.buf[i].attr \ {"DEFERRED"}) \cup {"QUEUED"} \cup flag(i)
           sent(i) == [s.buf[i] EXCEPT !.attr = attr(i)]
           b == [i \in Index |-> IF i \notin B THEN s.buf[i] ELSE sent(i)]
           t == [s EXCEPT !.buf = b]
           q == Queue(s, B)
<1>1. q = Unlist(t, Gone(s, B)) BY DEF Queue, Gone
<1>2. \A i \in Index : flag(i) \in SUBSET {"READ_ONLY"} OBVIOUS
<1> HIDE DEF flag
<1>3. \A i \in Index : /\ attr(i) \in SUBSET Attributes
                       /\ "QUEUED" \in attr(i) /\ "DEFERRED" \notin attr(i)
                       /\ "BUFFER_DONE" \in attr(i) <=> "BUFFER_DONE" \in s.buf[i].attr
  BY <1>2 DEF Good, Shape, Buffer, Attributes
<1> HIDE DEF attr
<1>4. \A i \in Index : /\ sent(i) \in Buffer /\ sent(i).attr = attr(i)
                       /\ sent(i).ref = s.buf[i].ref /\ sent(i).dma = s.buf[i].dma
                       /\ sent(i).map = s.buf[i].map
  BY <1>3 DEF Good, Shape, Buffer
<1> HIDE DEF sent
<1>5. b \in [Index -> Buffer] BY <1>4 DEF Good, Shape
<1>6. /\ \A i \in Index : /\ b[i].ref = s.buf[i].ref /\ b[i].dma = s.buf[i].dma
                          /\ b[i].map = s.buf[i].map
      /\ \A i \in Index \ B : b[i] = s.buf[i]
      /\ \A i \in B : b[i].attr = attr(i)
  BY <1>4
<1> HIDE DEF b
<1>7. Is(t, b, s.ro, s.tracker) BY <1>5, WithBuf DEF Good
<1> HIDE DEF t
<1>8. \A i \in Index : t.buf[i].ref =>
         Busy(t.buf[i]) /\ "BUFFER_DONE" \notin t.buf[i].attr
  BY <1>3, <1>6, <1>7 DEF Is, Good, Sound, Busy
<1>9. Good(t) BY <1>6, <1>7, <1>8, AttributesKeep DEF Is
<1> HIDE DEF q
<1>10. /\ q.buf = b
       /\ \A d \in Dma : q.ro[d] = IF d \in Gone(s, B) THEN NoEntry ELSE s.ro[d]
  BY <1>1, <1>7, <1>9, UnlistDoes DEF Is
<1> QED BY <1>3, <1>6, <1>10 DEF q, Queued, Waiting, Done

\* The packet that takes the buffers of B.
FtbFor(s, B) ==
  [type |-> "ftb", bufs |-> {[i |-> i, d |-> s.buf[i].dma, ro |-> StillRead(s, i)] : i \in B}]

LEMMA FtbIs ==
  ASSUME NEW s, NEW B \in SUBSET Index
  PROVE  LET x == FtbFor(s, B) IN
         /\ \A i, d : IsFtb(x, i, d) <=> i \in B /\ d = s.buf[i].dma
         /\ \A i, d : ~IsRelease(x, d)
         /\ x.type = "ftb"
         /\ \A b \in x.bufs : /\ b.i \in B /\ b.d = s.buf[b.i].dma
                              /\ ~b.ro => ~StillRead(s, b.i)
<1> DEFINE x == FtbFor(s, B)
           rec(i) == [i |-> i, d |-> s.buf[i].dma, ro |-> StillRead(s, i)]
<1>1. x.type = "ftb" /\ x.bufs = {rec(i) : i \in B} BY DEF FtbFor
<1>2. \A i \in B : rec(i).i = i /\ rec(i).d = s.buf[i].dma /\ rec(i).ro = StillRead(s, i)
  OBVIOUS
<1> HIDE DEF rec, x
<1> QED BY <1>1, <1>2 DEF IsFtb, IsRelease, x

\* What queueing the buffers of B makes of the view.
LEMMA QueueView ==
  ASSUME NEW s, Good(s), NEW v, NEW p, NEW mode, NEW c, NEW n, NEW f, NEW r,
         J(s, v, p, mode, c, n, f, r), NEW B \in SUBSET Index, B # {},
         \A i \in B : Waiting(s, i) /\ s.buf[i].dma \in Dma
  PROVE  LET q == Queue(s, B) IN
         /\ \A i \in B : ~Queued(s, i)
         /\ \A i \in Index, d \in Dma :
              Placed(q, i, d) <=> Placed(s, i, d) \/ (i \in B /\ d = s.buf[i].dma)
         /\ \A d \in Dma : Pending(q, d) <=> Pending(s, d)
         /\ \A d \in Dma : Pending(s, d) => Read(q, d) /\ Read(s, d)
         /\ \A d \in Dma : Read(q, d) =>
              Read(s, d) /\ \A i \in B : s.buf[i].dma = d => Pending(s, d)
         /\ \A d \in Dma : Read(s, d) => Read(q, d) \/ \E i \in B : s.buf[i].dma = d
<1> DEFINE q == Queue(s, B)
<1>1. /\ \A i \in Index \ B : q.buf[i] = s.buf[i]
      /\ \A i \in Index : q.buf[i].dma = s.buf[i].dma
      /\ \A i \in B : Queued(q, i)
      /\ \A d \in Dma : q.ro[d] = IF d \in Gone(s, B) THEN NoEntry ELSE s.ro[d]
  BY QueueDoes
<1> HIDE DEF q
<1>2. \A i \in B : ~Queued(s, i) BY DEF J, Lists, Attrs
<1>3. \A i \in Index, d \in Dma :
         Placed(q, i, d) <=> Placed(s, i, d) \/ (i \in B /\ d = s.buf[i].dma)
  BY <1>1 DEF Placed, Queued
<1>4. \A d \in Dma : Pending(s, d) => Read(s, d)
  BY DEF J, Releasing, ReleasesPending, ReleasesSent, ReleasesAnswered
<1>5. \A d \in Dma : d \in Gone(s, B) <=>
         (s.ro[d].listed /\ ~Read(s, d)) \/ \E i \in B : s.buf[i].dma = d /\ Read(s, d) /\ ~Pending(s, d)
  BY SizesAssumption DEF Gone, NotRead, StillRead, RoHas, Read, Pending
<1>6. \A d \in Dma : d \in Gone(s, B) => ~Pending(s, d) BY <1>4, <1>5
<1>7. \A d \in Dma : /\ d \in Gone(s, B) => ~Pending(q, d) /\ ~Read(q, d)
                     /\ d \notin Gone(s, B) => /\ Pending(q, d) <=> Pending(s, d)
                                               /\ Read(q, d) <=> Read(s, d)
  BY <1>1 DEF Pending, Read, NoEntry
<1>8. \A d \in Dma : Pending(q, d) <=> Pending(s, d) BY <1>6, <1>7
<1>9. \A d \in Dma : Pending(s, d) => Read(q, d) /\ Read(s, d) BY <1>4, <1>6, <1>7
<1>10. \A d \in Dma : Read(q, d) =>
          Read(s, d) /\ \A i \in B : s.buf[i].dma = d => Pending(s, d)
  BY <1>5, <1>7
<1>11. \A d \in Dma : Read(s, d) => Read(q, d) \/ \E i \in B : s.buf[i].dma = d
  BY <1>5, <1>7
<1> QED BY <1>2, <1>3, <1>8, <1>9, <1>10, <1>11 DEF q

LEMMA QueueLists ==
  ASSUME NEW s, Good(s), NEW v, NEW p, NEW mode, Lists(s, v, p, mode),
         NEW B \in SUBSET Index,
         \A i \in B : Waiting(s, i) /\ v[i] = "driver"
  PROVE  Lists(Queue(s, B), v, p, mode)
<1> DEFINE q == Queue(s, B)
<1>1. /\ \A i \in Index \ B : q.buf[i] = s.buf[i]
      /\ \A i \in Index : /\ q.buf[i].dma = s.buf[i].dma /\ q.buf[i].ref = s.buf[i].ref
                          /\ q.buf[i].map = s.buf[i].map
      /\ \A i \in B : Queued(q, i) /\ ~Waiting(q, i) /\ (Done(q, i) <=> Done(s, i))
      /\ \A d \in Dma : q.ro[d] = IF d \in Gone(s, B) THEN NoEntry ELSE s.ro[d]
  BY QueueDoes
<1> HIDE DEF q
<1>2. \A i \in Index \ B : /\ Queued(q, i) <=> Queued(s, i)
                           /\ Waiting(q, i) <=> Waiting(s, i)
                           /\ Done(q, i) <=> Done(s, i)
  BY <1>1 DEF Queued, Waiting, Done
<1>3. Attrs(q, v, p) BY <1>1, <1>2 DEF Lists, Attrs
<1>4. ~NoEntry.listed /\ NoEntry.attr = {} BY DEF NoEntry
<1>5. Maps(q) BY <1>1, <1>4 DEF Lists, Maps
<1>6. Entries(q) BY <1>1, <1>4 DEF Lists, Entries
<1>7. Eligibles(q, mode) BY <1>1, <1>4 DEF Lists, Eligibles, Read, Pending
<1> QED BY <1>3, <1>5, <1>6, <1>7 DEF Lists, q

LEMMA QueueStep ==
  ASSUME NEW s, Good(s), NEW v, NEW mode, NEW c, NEW n, NEW f, NEW r \in SUBSET (Index \X Dma),
         J(s, v, "on", mode, c, n, f, r), NEW B \in SUBSET Index, B # {},
         \A i \in B : Waiting(s, i) /\ s.buf[i].dma \in Dma,
         NEW t, Grown(c, t, FtbFor(s, B))
  PROVE  J(Queue(s, B), v, "on", mode, t, n, f, r)
<1> DEFINE q == Queue(s, B)
           x == FtbFor(s, B)
<1>1. /\ \A i \in B : ~Queued(s, i)
      /\ \A i \in Index, d \in Dma :
           Placed(q, i, d) <=> Placed(s, i, d) \/ (i \in B /\ d = s.buf[i].dma)
      /\ \A d \in Dma : Pending(q, d) <=> Pending(s, d)
      /\ \A d \in Dma : Pending(s, d) => Read(q, d) /\ Read(s, d)
      /\ \A d \in Dma : Read(q, d) =>
           Read(s, d) /\ \A i \in B : s.buf[i].dma = d => Pending(s, d)
      /\ \A d \in Dma : Read(s, d) => Read(q, d) \/ \E i \in B : s.buf[i].dma = d
  BY QueueView
<1>2. Lists(q, v, "on", mode)
  <2>1. Lists(s, v, "on", mode) BY DEF J
  <2>2. \A i \in B : v[i] = "driver" BY <2>1 DEF Lists, Attrs
  <2> QED BY <2>1, <2>2, QueueLists
<1>3. \A i \in Index : q.buf[i].dma = s.buf[i].dma BY QueueDoes
<1>4. /\ \A i, d : IsFtb(x, i, d) <=> i \in B /\ d = s.buf[i].dma
      /\ \A d : ~IsRelease(x, d)
      /\ x.type = "ftb"
      /\ \A b \in x.bufs : /\ b.i \in B /\ b.d = s.buf[b.i].dma
                           /\ ~b.ro => ~StillRead(s, b.i)
  BY FtbIs
<1> HIDE DEF q, x
<1>5. /\ \A k \in 1..Len(t) : \/ k \in 1..Len(c) /\ t[k] = c[k]
                              \/ k = Len(c) + 1 /\ t[k] = x /\ k \notin 1..Len(c)
      /\ \A k \in 1..Len(c) : k \in 1..Len(t) /\ t[k] = c[k] /\ k < Len(c) + 1
      /\ Len(c) + 1 \in 1..Len(t) /\ t[Len(c) + 1] = x
  BY GrownPlaces DEF x
<1>6. \A i \in B, d \in Dma : ~Placed(s, i, d) BY <1>1 DEF Placed
<1>7. Places(q, t, n, f)
  <2>1. ASSUME NEW k \in 1..Len(t), NEW i \in Index, NEW d \in Dma, IsFtb(t[k], i, d)
        PROVE  /\ Placed(q, i, d) /\ <<i, d>> \notin f
               /\ \A l \in 1..Len(t) : IsFtb(t[l], i, d) => l = k
               /\ \A l \in 1..Len(n) : ~IsFrame(n[l], i, d)
    <3>1. CASE k \in 1..Len(c) /\ t[k] = c[k]
      <4>1. /\ Placed(s, i, d) /\ <<i, d>> \notin f
            /\ \A l \in 1..Len(c) : IsFtb(c[l], i, d) => l = k
            /\ \A l \in 1..Len(n) : ~IsFrame(n[l], i, d)
        BY <2>1, <3>1 DEF J, Places, FtbsPlaced
      <4>2. i \notin B BY <1>6, <4>1
      <4> QED BY <1>1, <1>4, <1>5, <4>1, <4>2
    <3>2. CASE k = Len(c) + 1 /\ t[k] = x
      <4>1. i \in B /\ d = s.buf[i].dma /\ ~Placed(s, i, d) BY <1>4, <1>6, <2>1, <3>2
      <4>2. <<i, d>> \notin f BY <4>1 DEF J, Places, QueuedPlaced
      <4>3. \A l \in 1..Len(n) : ~IsFrame(n[l], i, d) BY <4>1 DEF J, Places, FramesPlaced
      <4>4. ASSUME NEW l \in 1..Len(c), IsFtb(c[l], i, d) PROVE FALSE
        <5>1. FtbsPlaced(s, c, n, f) BY DEF J, Places
        <5>2. Placed(s, i, d) BY <4>4, <5>1, Zenon DEF FtbsPlaced
        <5> QED BY <4>1, <5>2
      <4> QED BY <1>1, <1>5, <3>2, <4>1, <4>2, <4>3, <4>4
    <3> QED BY <1>5, <3>1, <3>2
  <2>2. FtbsPlaced(q, t, n, f) BY <2>1 DEF FtbsPlaced
  <2>3. QueuedPlaced(q, n, f) BY <1>1 DEF J, Places, QueuedPlaced
  <2>4. FramesPlaced(q, n) BY <1>1 DEF J, Places, FramesPlaced
  <2>5. ASSUME NEW i \in Index, NEW d \in Dma, Placed(q, i, d)
        PROVE  \/ \E k \in 1..Len(t) : IsFtb(t[k], i, d)
               \/ <<i, d>> \in f
               \/ \E k \in 1..Len(n) : IsFrame(n[k], i, d)
    <3>1. CASE Placed(s, i, d) BY <1>5, <3>1 DEF J, Places, Somewhere
    <3>2. CASE i \in B /\ d = s.buf[i].dma BY <1>4, <1>5, <3>2
    <3> QED BY <1>1, <2>5, <3>1, <3>2
  <2>6. Somewhere(q, t, n, f) BY <2>5 DEF Somewhere
  <2> QED BY <2>2, <2>3, <2>4, <2>6 DEF Places
<1>8. Stops(q, "on", t, n, f) BY <1>4, <1>5 DEF J, Stops, NoStop, IsStop
<1>9. Releasing(q, t, n, f)
  <2>1. ASSUME NEW k \in 1..Len(t), NEW d \in Dma, IsRelease(t[k], d)
        PROVE  /\ Pending(q, d) /\ Read(q, d)
               /\ \A l \in 1..Len(t) : IsRelease(t[l], d) => l = k
               /\ \A l \in 1..Len(n) : ~IsReleased(n[l], d)
               /\ \A i \in Index : <<i, d>> \notin f
               /\ \A i \in Index, l \in 1..Len(n) : ~IsFrame(n[l], i, d)
               /\ \A i \in Index, l \in 1..Len(t) : IsFtb(t[l], i, d) => l > k
    <3>1. k \in 1..Len(c) /\ IsRelease(c[k], d) BY <1>4, <1>5, <2>1
    <3>2. /\ Pending(s, d) /\ Read(s, d)
          /\ \A l \in 1..Len(c) : IsRelease(c[l], d) => l = k
          /\ \A l \in 1..Len(n) : ~IsReleased(n[l], d)
          /\ \A i \in Index : <<i, d>> \notin f
          /\ \A i \in Index, l \in 1..Len(n) : ~IsFrame(n[l], i, d)
          /\ \A i \in Index, l \in 1..Len(c) : IsFtb(c[l], i, d) => l > k
      BY <3>1 DEF J, Releasing, ReleasesSent
    <3>3. \A l \in 1..Len(t) : IsRelease(t[l], d) => l = k BY <1>4, <1>5, <3>2
    <3>4. \A i \in Index, l \in 1..Len(t) : IsFtb(t[l], i, d) => l > k
      BY <1>5, <3>1, <3>2
    <3> QED BY <1>1, <3>2, <3>3, <3>4
  <2>2. ReleasesSent(q, t, n, f) BY <2>1 DEF ReleasesSent
  <2>3. ReleasesAnswered(q, n) BY <1>1 DEF J, Releasing, ReleasesAnswered
  <2>4. ReleasesPending(q, t, n) BY <1>1, <1>5 DEF J, Releasing, ReleasesPending
  <2>5. Flagged(q) BY <1>1 DEF J, Releasing, Flagged
  <2> QED BY <2>2, <2>3, <2>4, <2>5 DEF Releasing
<1>10. Modes(mode, t, n) BY <1>4, <1>5 DEF J, Modes
<1>11. Seconds(q, v, n, r) BY <1>3 DEF J, Seconds
<1>12. Reads(q, t, n, r)
  <2>1. Reads(s, c, n, r) /\ ReadBy(r) \subseteq Dma BY DEF J, ReadBy
  <2>2. \A d \in Dma : OnItsWay(s, d) => OnItsWay(q, d) BY <1>1 DEF OnItsWay
  <2>3. \A i \in B, d \in Dma : s.buf[i].dma = d => OnItsWay(q, d) BY <1>1 DEF OnItsWay
  <2>4. \A d \in ReadBy(r) : Read(q, d) \/ OnItsWay(q, d) BY <1>1, <2>1, <2>2, <2>3 DEF Reads
  <2>5. \A d \in ReadBy(r) : Pending(q, d) =>
           OnItsWay(q, d) \/ \E k \in 1..Len(t) : IsRelease(t[k], d)
    BY <1>1, <1>5, <2>1, <2>2 DEF Reads
  <2> QED BY <2>1, <2>4, <2>5 DEF Reads
<1>13. Told(t, r)
  <2> SUFFICES ASSUME NEW k \in 1..Len(t), t[k].type = "ftb", NEW b \in t[k].bufs,
                      b.d \in ReadBy(r), ~b.ro
               PROVE  \E l \in 1..(k - 1) : IsRelease(t[l], b.d)
    BY DEF Told
  <2>1. CASE k \in 1..Len(c) /\ t[k] = c[k]
    <3>1. PICK l \in 1..(k - 1) : IsRelease(c[l], b.d) BY <2>1 DEF J, Told
    <3>2. l \in 1..Len(c) BY <2>1 DEF Grown
    <3> QED BY <1>5, <3>1, <3>2
  <2>2. CASE k = Len(c) + 1 /\ t[k] = x
    <3>1. b.i \in B /\ b.d = s.buf[b.i].dma /\ ~StillRead(s, b.i) BY <1>4, <2>2
    <3>2. b.d \in Dma /\ b.d # NoDma BY <3>1, SizesAssumption
    <3>3. ~OnItsWay(s, b.d)
      BY <1>1, <3>1, <3>2 DEF OnItsWay, Placed, Good, Apart
    <3>4. Read(s, b.d) BY <3>3 DEF J, Reads
    <3>5. Pending(s, b.d) BY <3>1, <3>2, <3>4 DEF StillRead, RoHas, Read, Pending
    <3>6. PICK l \in 1..Len(c) : IsRelease(c[l], b.d) BY <3>3, <3>5 DEF J, Reads
    <3>7. l \in 1..(k - 1) /\ t[l] = c[l] BY <1>5, <2>2, <3>6 DEF Grown
    <3> QED BY <3>6, <3>7
  <2> QED BY <1>5, <2>1, <2>2
<1> QED BY <1>2, <1>7, <1>8, <1>9, <1>10, <1>11, <1>12, <1>13 DEF J, q

-----------------------------------------------------------------------------
(* Releases are sent.                                                      *)

LEMMA ReleaseDoes ==
  ASSUME NEW s, Good(s), NEW D
  PROVE  LET t == Release(s, D) IN
         /\ t.buf = s.buf
         /\ \A d \in Dma \ D : t.ro[d] = s.ro[d]
         /\ \A d \in Dma : /\ t.ro[d].listed = s.ro[d].listed /\ t.ro[d].ref = s.ro[d].ref
                           /\ t.ro[d].map = s.ro[d].map
                           /\ t.ro[d].attr # {} => s.ro[d].attr # {} \/ d \in D
                           /\ Read(t, d) <=> Read(s, d)
                           /\ Pending(t, d) <=> Pending(s, d) \/ d \in D
         /\ dpb.mode = "input" => \A d \in D \cap Dma : "RELEASE_ELIGIBLE" \notin t.ro[d].attr
<1> DEFINE over == IF dpb.mode = "input" THEN {"RELEASE_ELIGIBLE"} ELSE {}
           attr(d) == (s.ro[d].attr \cup {"PENDING_RELEASE"}) \ over
           e(d) == [s.ro[d] EXCEPT !.attr = attr(d)]
           r == [d \in Dma |-> IF d \notin D THEN s.ro[d] ELSE e(d)]
           t == Release(s, D)
<1>1. t = [s EXCEPT !.ro = r] BY DEF Release
<1>2. over \subseteq {"RELEASE_ELIGIBLE"} /\ (dpb.mode = "input" => "RELEASE_ELIGIBLE" \in over)
  OBVIOUS
<1> HIDE DEF over, t
<1>3. \A d \in Dma : /\ attr(d) \in SUBSET RoAttributes
                     /\ "PENDING_RELEASE" \in attr(d)
                     /\ "READ_ONLY" \in attr(d) <=> "READ_ONLY" \in s.ro[d].attr
                     /\ dpb.mode = "input" => "RELEASE_ELIGIBLE" \notin attr(d)
  BY <1>2 DEF Good, Shape, RoEntry, RoAttributes
<1> HIDE DEF attr
<1>4. \A d \in Dma : /\ e(d) \in RoEntry /\ e(d).attr = attr(d) /\ e(d).map = s.ro[d].map
                     /\ e(d).ref = s.ro[d].ref /\ e(d).listed = s.ro[d].listed
  BY <1>3 DEF Good, Shape, RoEntry
<1> HIDE DEF e
<1>5. /\ r \in [Dma -> RoEntry]
      /\ \A d \in Dma : r[d] = IF d \notin D THEN s.ro[d] ELSE e(d)
  BY <1>4 DEF Good, Shape
<1> HIDE DEF r
<1>6. Is(t, s.buf, r, s.tracker) BY <1>1, <1>5, WithRo DEF Good
<1>7. t.buf = s.buf /\ t.ro = r BY <1>6 DEF Is
<1> QED BY <1>3, <1>4, <1>5, <1>7 DEF Read, Pending, t

ReleaseFor(D) == [type |-> "release", bufs |-> D]

LEMMA ReleaseStep ==
  ASSUME NEW s, Good(s), NEW v, NEW p, NEW c, NEW n, NEW f, NEW r \in SUBSET (Index \X Dma),
         J(s, v, p, dpb.mode, c, n, f, r), NEW D \in SUBSET Dma, D # {},
         \A d \in D : Read(s, d) /\ ~Pending(s, d), dpb.mode # "none",
         NEW t, Grown(c, t, ReleaseFor(D))
  PROVE  J(Release(s, D), v, p, dpb.mode, t, n, f, r)
<1> DEFINE q == Release(s, D)
           x == ReleaseFor(D)
           mode == dpb.mode
<1>1. /\ q.buf = s.buf
      /\ \A d \in Dma \ D : q.ro[d] = s.ro[d]
      /\ \A d \in Dma : /\ q.ro[d].listed = s.ro[d].listed /\ q.ro[d].ref = s.ro[d].ref
                        /\ q.ro[d].map = s.ro[d].map
                        /\ q.ro[d].attr # {} => s.ro[d].attr # {} \/ d \in D
                        /\ Read(q, d) <=> Read(s, d)
                        /\ Pending(q, d) <=> Pending(s, d) \/ d \in D
      /\ mode = "input" => \A d \in D \cap Dma : "RELEASE_ELIGIBLE" \notin q.ro[d].attr
  BY ReleaseDoes
<1>2. /\ \A d : IsRelease(x, d) <=> d \in D
      /\ \A i, d : ~IsFtb(x, i, d)
      /\ x.type = "release"
  BY DEF IsRelease, IsFtb, ReleaseFor
<1> HIDE DEF q, x
<1>3. /\ \A k \in 1..Len(t) : \/ k \in 1..Len(c) /\ t[k] = c[k]
                              \/ k = Len(c) + 1 /\ t[k] = x /\ k \notin 1..Len(c)
      /\ \A k \in 1..Len(c) : k \in 1..Len(t) /\ t[k] = c[k] /\ k < Len(c) + 1
      /\ Len(c) + 1 \in 1..Len(t) /\ t[Len(c) + 1] = x
  BY GrownPlaces DEF x
<1>4. /\ \A i \in Index, d \in Dma : Placed(q, i, d) <=> Placed(s, i, d)
      /\ \A i \in Index : Queued(q, i) <=> Queued(s, i)
      /\ \A d \in Dma : OnItsWay(q, d) <=> OnItsWay(s, d)
  BY <1>1 DEF Placed, Queued, OnItsWay
<1>5. \A d \in D, i \in Index : ~Placed(s, i, d)
  BY DEF J, Releasing, Flagged
<1>6. Lists(q, v, p, mode)
  <2>1. Attrs(q, v, p) BY <1>1 DEF J, Lists, Attrs, Queued, Waiting, Done
  <2>2. Maps(q) BY <1>1 DEF J, Lists, Maps
  <2>3. \A d \in D : s.ro[d].attr # {} BY DEF Read
  <2>4. Entries(q) BY <1>1, <2>3 DEF J, Lists, Entries
  <2>5. ASSUME mode = "input", NEW d \in Dma, "RELEASE_ELIGIBLE" \in q.ro[d].attr
        PROVE  Read(q, d) /\ ~Pending(q, d)
    <3>1. d \notin D BY <1>1, <2>5
    <3>2. "RELEASE_ELIGIBLE" \in s.ro[d].attr BY <1>1, <2>5, <3>1
    <3> QED BY <1>1, <2>5, <3>1, <3>2 DEF J, Lists, Eligibles
  <2>6. Eligibles(q, mode) BY <2>5 DEF Eligibles
  <2> QED BY <2>1, <2>2, <2>4, <2>6 DEF Lists
<1>7. Places(q, t, n, f)
  <2>1. FtbsPlaced(q, t, n, f) BY <1>2, <1>3, <1>4 DEF J, Places, FtbsPlaced
  <2>2. QueuedPlaced(q, n, f) BY <1>4 DEF J, Places, QueuedPlaced
  <2>3. FramesPlaced(q, n) BY <1>4 DEF J, Places, FramesPlaced
  <2>4. Somewhere(q, t, n, f) BY <1>3, <1>4 DEF J, Places, Somewhere
  <2> QED BY <2>1, <2>2, <2>3, <2>4 DEF Places
<1>8. Stops(q, p, t, n, f)
  <2>1. ~IsStop(x) /\ NoFtb(x) BY <1>2 DEF IsStop, NoFtb
  <2>2. ASSUME StopSent(c, n) PROVE StopSent(t, n)
    <3>1. PICK k \in 1..Len(c) :
            /\ IsStop(c[k]) /\ \A l \in 1..Len(c) : IsStop(c[l]) => l = k
            /\ \A l \in 1..Len(c) : l > k => NoFtb(c[l])
      BY <2>2 DEF StopSent
    <3>2. /\ k \in 1..Len(t) /\ IsStop(t[k])
          /\ \A l \in 1..Len(t) : IsStop(t[l]) => l = k
          /\ \A l \in 1..Len(t) : l > k => NoFtb(t[l])
      BY <1>3, <2>1, <3>1
    <3> QED BY <2>2, <3>2 DEF StopSent
  <2>3. ASSUME StopAnswered(c, n, f) PROVE StopAnswered(t, n, f)
    BY <1>3, <2>1, <2>3 DEF StopAnswered
  <2>4. ASSUME NoStop(c, n) PROVE NoStop(t, n)
    BY <1>3, <2>1, <2>4 DEF NoStop
  <2> QED BY <1>4, <2>2, <2>3, <2>4 DEF J, Stops
<1>9. Releasing(q, t, n, f)
  <2>1. /\ \A k \in 1..Len(c), d \in D : ~IsRelease(c[k], d)
        /\ \A k \in 1..Len(n), d \in D : ~IsReleased(n[k], d)
    BY DEF J, Releasing, ReleasesSent, ReleasesAnswered
  <2>2. \A i \in Index, d \in D : <<i, d>> \notin f BY <1>5 DEF J, Places, QueuedPlaced
  <2>3. \A i \in Index, d \in D, l \in 1..Len(n) : ~IsFrame(n[l], i, d)
    BY <1>5 DEF J, Places, FramesPlaced
  <2>4. \A i \in Index, d \in D, l \in 1..Len(c) : ~IsFtb(c[l], i, d)
    <3>1. FtbsPlaced(s, c, n, f) BY DEF J, Places
    <3>2. \A i \in Index, d \in D, l \in 1..Len(c) : IsFtb(c[l], i, d) => Placed(s, i, d)
      BY <3>1 DEF FtbsPlaced
    <3> QED BY <1>5, <3>2
  <2>5. ASSUME NEW k \in 1..Len(t), NEW d \in Dma, IsRelease(t[k], d)
        PROVE  /\ Pending(q, d) /\ Read(q, d)
               /\ \A l \in 1..Len(t) : IsRelease(t[l], d) => l = k
               /\ \A l \in 1..Len(n) : ~IsReleased(n[l], d)
               /\ \A i \in Index : <<i, d>> \notin f
               /\ \A i \in Index, l \in 1..Len(n) : ~IsFrame(n[l], i, d)
               /\ \A i \in Index, l \in 1..Len(t) : IsFtb(t[l], i, d) => l > k
    <3>1. CASE k \in 1..Len(c) /\ t[k] = c[k]
      <4>1. /\ Pending(s, d) /\ Read(s, d)
            /\ \A l \in 1..Len(c) : IsRelease(c[l], d) => l = k
            /\ \A l \in 1..Len(n) : ~IsReleased(n[l], d)
            /\ \A i \in Index : <<i, d>> \notin f
            /\ \A i \in Index, l \in 1..Len(n) : ~IsFrame(n[l], i, d)
            /\ \A i \in Index, l \in 1..Len(c) : IsFtb(c[l], i, d) => l > k
        BY <2>5, <3>1 DEF J, Releasing, ReleasesSent
      <4>2. d \notin D BY <4>1
      <4>3. \A l \in 1..Len(t) : IsRelease(t[l], d) => l = k BY <1>2, <1>3, <4>1, <4>2
      <4>4. \A i \in Index, l \in 1..Len(t) : IsFtb(t[l], i, d) => l > k
        BY <1>2, <1>3, <4>1
      <4> QED BY <1>1, <4>1, <4>3, <4>4
    <3>2. CASE k = Len(c) + 1 /\ t[k] = x
      <4>1. d \in D BY <1>2, <2>5, <3>2
      <4>2. \A l \in 1..Len(t) : IsRelease(t[l], d) => l = k BY <1>3, <2>1, <3>2, <4>1
      <4>3. \A i \in Index, l \in 1..Len(t) : ~IsFtb(t[l], i, d)
        BY <1>2, <1>3, <2>4, <4>1
      <4> QED BY <1>1, <2>1, <2>2, <2>3, <4>1, <4>2, <4>3
    <3> QED BY <1>3, <3>1, <3>2
  <2>6. ReleasesSent(q, t, n, f) BY <2>5 DEF ReleasesSent
  <2>7. ReleasesAnswered(q, n) BY <1>1 DEF J, Releasing, ReleasesAnswered
  <2>8. ReleasesPending(q, t, n) BY <1>1, <1>2, <1>3 DEF J, Releasing, ReleasesPending
  <2>9. Flagged(q) BY <1>1, <1>4 DEF J, Releasing, Flagged
  <2> QED BY <2>6, <2>7, <2>8, <2>9 DEF Releasing
<1>10. Modes(mode, t, n) BY DEF J, Modes
<1>11. Seconds(q, v, n, r) BY <1>1 DEF J, Seconds
<1>12. Reads(q, t, n, r)
  <2>1. Reads(s, c, n, r) /\ ReadBy(r) \subseteq Dma BY DEF J, ReadBy
  <2>2. \A d \in ReadBy(r) : Read(q, d) \/ OnItsWay(q, d) BY <1>1, <1>4, <2>1 DEF Reads
  <2>3. \A d \in ReadBy(r) : Pending(q, d) =>
           OnItsWay(q, d) \/ \E k \in 1..Len(t) : IsRelease(t[k], d)
    BY <1>1, <1>2, <1>3, <1>4, <2>1 DEF Reads
  <2> QED BY <2>1, <2>2, <2>3 DEF Reads
<1>13. Told(t, r)
  <2> SUFFICES ASSUME NEW k \in 1..Len(t), t[k].type = "ftb", NEW b \in t[k].bufs,
                      b.d \in ReadBy(r), ~b.ro
               PROVE  \E l \in 1..(k - 1) : IsRelease(t[l], b.d)
    BY DEF Told
  <2>1. k \in 1..Len(c) /\ t[k] = c[k] BY <1>2, <1>3
  <2>2. PICK l \in 1..(k - 1) : IsRelease(c[l], b.d) BY <2>1 DEF J, Told
  <2>3. l \in 1..Len(c) BY <2>1 DEF Grown
  <2> QED BY <1>3, <2>2, <2>3
<1> QED BY <1>6, <1>7, <1>8, <1>9, <1>10, <1>11, <1>12, <1>13 DEF J, q

-----------------------------------------------------------------------------
(* The steps of the client.                                                *)

LEMMA ConcatGrows ==
  ASSUME NEW T, NEW c \in Seq(T), NEW x \in T
  PROVE  Grown(c, c \o << x >>, x) /\ c \o << >> = c
BY DEF Grown

\* Buffers go out on a port that streams, or none do.
LEMMA SendStep ==
  ASSUME NEW s, Good(s), NEW v, NEW p, NEW mode, NEW c \in Seq(Command), NEW n, NEW f,
         NEW r \in SUBSET (Index \X Dma), J(s, v, p, mode, c, n, f, r),
         NEW B \in SUBSET Index, B # {} => p = "on",
         \A i \in B : Waiting(s, i) /\ s.buf[i].dma \in Dma
  PROVE  J(Queue(s, B), v, p, mode, c \o Ftbs(s, B), n, f, r)
<1>1. CASE B = {}
  <2>1. Ftbs(s, B) = << >> BY <1>1 DEF Ftbs
  <2>2. c \o Ftbs(s, B) = c BY <2>1
  <2>3. Gone(s, B) = {} BY <1>1 DEF Gone
  <2>4. SameLists(s, Queue(s, B)) BY <1>1, <2>3, QueueDoes DEF SameLists
  <2> QED BY <2>2, <2>4, SameListsKeep
<1>2. CASE B # {}
  <2>1. Ftbs(s, B) \in Seq(Command) BY FtbsType
  <2>2. Ftbs(s, B) = << FtbFor(s, B) >> BY <1>2 DEF Ftbs, FtbFor
  <2>3. FtbFor(s, B) \in Command BY <2>1, <2>2
  <2>4. Grown(c, c \o Ftbs(s, B), FtbFor(s, B)) BY <2>2, <2>3, ConcatGrows
  <2> QED BY <1>2, <2>4, QueueStep
<1> QED BY <1>1, <1>2

LEMMA ToReleaseIs ==
  ASSUME NEW s, Eligibles(s, dpb.mode)
  PROVE  /\ \A d \in ToRelease(s) : d \in Dma /\ Read(s, d) /\ ~Pending(s, d)
         /\ dpb.mode = "none" => ToRelease(s) = {}
<1>1. \A d \in Nonref(s) : d \in Dma /\ Read(s, d) /\ ~Pending(s, d)
  BY DEF Nonref, RoHas, Read, Pending
<1>2. CASE dpb.mode = "input"
  <2>1. ToRelease(s) = Eligible(s) BY <1>2 DEF ToRelease
  <2>2. \A d \in Eligible(s) : d \in Dma /\ Read(s, d) /\ ~Pending(s, d)
    BY <1>2 DEF Eligible, RoHas, Eligibles
  <2> QED BY <1>2, <2>1, <2>2
<1>3. CASE dpb.mode = "output"
  <2>1. ToRelease(s) = Nonref(s) BY <1>3 DEF ToRelease
  <2> QED BY <1>1, <1>3, <2>1
<1>4. CASE dpb.mode \notin {"input", "output"}
  <2>1. ToRelease(s) = {} BY <1>4 DEF ToRelease
  <2> QED BY <2>1
<1> QED BY <1>2, <1>3, <1>4

LEMMA ReleaseAllStep ==
  ASSUME NEW s, Good(s), NEW v, NEW p, NEW c \in Seq(Command), NEW n, NEW f,
         NEW r \in SUBSET (Index \X Dma), J(s, v, p, dpb.mode, c, n, f, r)
  PROVE  J(Release(s, ToRelease(s)), v, p, dpb.mode, c \o Releases(ToRelease(s)), n, f, r)
<1> DEFINE D == ToRelease(s)
<1>1. /\ \A d \in D : d \in Dma /\ Read(s, d) /\ ~Pending(s, d)
      /\ dpb.mode = "none" => D = {}
  <2>1. Eligibles(s, dpb.mode) BY DEF J, Lists
  <2> QED BY <2>1, ToReleaseIs
<1> HIDE DEF D
<1>2. CASE D = {}
  <2>1. c \o Releases(D) = c BY <1>2 DEF Releases
  <2>2. /\ Release(s, D).buf = s.buf
        /\ \A d \in Dma \ D : Release(s, D).ro[d] = s.ro[d]
    BY ReleaseDoes
  <2>3. SameLists(s, Release(s, D)) BY <1>2, <2>2 DEF SameLists
  <2>4. J(Release(s, D), v, p, dpb.mode, c, n, f, r) BY <2>3, SameListsKeep
  <2> QED BY <2>1, <2>4 DEF D
<1>3. CASE D # {}
  <2>1. D \in SUBSET Dma BY <1>1
  <2>2. Releases(D) = << ReleaseFor(D) >> BY <1>3 DEF Releases, ReleaseFor
  <2>3. ReleaseFor(D) \in Command BY <2>1 DEF ReleaseFor, Command
  <2>4. Grown(c, c \o Releases(D), ReleaseFor(D)) BY <2>2, <2>3, ConcatGrows
  <2>5. J(Release(s, D), v, p, dpb.mode, c \o Releases(D), n, f, r)
    BY <1>1, <1>3, <2>1, <2>4, ReleaseStep
  <2> QED BY <2>5 DEF D
<1> QED BY <1>2, <1>3

\* The variables, with the lists in another state.
K(s, v, p, c, n) == J(s, v, p, dpb.mode, c, n, fw.queued, fw.refs)

LEMMA KDef ==
  ASSUME IInv PROVE fw.refs \in SUBSET (Index \X Dma) /\ cmds \in Seq(Command) /\ Good(drv)
BY DEF IInv, Rest

\* A dmabuf is queued and the buffers of B go out.
LEMMA QBufStep ==
  ASSUME Events = {}, IInv, JInv, NEW i \in Index, NEW d \in Dma, MayQueue(i, d), port = "on",
         NEW B, B \subseteq Deferred(drv) \cup {i},
         QueueAndRelease(GetDriverBufs(Prepare(drv, i, d), {i}), B),
         vb2' = [vb2 EXCEPT ![i] = "driver"],
         UNCHANGED <<port, dpb, msgs, fw, failed>>
  PROVE  K(drv', vb2', port, cmds', msgs)
<1> DEFINE p == Prepare(drv, i, d)
           s == GetDriverBufs(p, {i})
           q == Queue(s, B)
           r == Release(q, ToRelease(q))
<1>1. /\ Good(p) /\ p.buf[i].dma = d /\ Deferred(p) = Deferred(drv)
      /\ \A j \in Index : p.buf[j].ref = drv.buf[j].ref /\ p.buf[j].attr = drv.buf[j].attr
      /\ \A j \in Index \ {i} : p.buf[j].dma = drv.buf[j].dma
  BY QueuedIsFree
<1>2. fw.refs \in SUBSET (Index \X Dma) /\ cmds \in Seq(Command) /\ Good(drv) BY KDef
<1>3. ~drv.buf[i].ref /\ vb2[i] = "client" /\ \A j \in Index \ {i} : drv.buf[j].dma # d
  BY DEF MayQueue, IInv, Owners
<1>4. K(drv, vb2, port, cmds, msgs) BY DEF JInv, K
<1>5. K(p, vb2, port, cmds, msgs) BY <1>2, <1>3, <1>4, PrepareStep DEF K
<1> HIDE DEF p
<1>6. \A k \in 1..Len(msgs) : ~Second(msgs[k], d) BY DEF MayQueue, InFlightAgain
<1>7. Given(vb2, vb2', {i}) BY DEF Given, IInv, Owners
<1>8. K(s, vb2', port, cmds, msgs)
  <2>1. {i} \in SUBSET Index OBVIOUS
  <2>2. \A j \in {i} : vb2[j] # "driver" BY <1>3
  <2>3. \A j \in {i}, k \in 1..Len(msgs) : ~Second(msgs[k], p.buf[j].dma) BY <1>1, <1>6
  <2> QED BY <1>1, <1>2, <1>5, <1>7, <2>1, <2>2, <2>3, GetStep DEF K
<1>9. /\ Good(s) /\ Deferred(s) = Deferred(p) \cup {i}
      /\ \A j \in Index : s.buf[j].dma = p.buf[j].dma
  BY <1>1, GetKeeps
<1> HIDE DEF s
<1>10. \A j \in Deferred(drv) : drv.buf[j].dma \in Dma
  BY DEF IInv, Owners, Deferred, Has, Busy
<1>11. B \in SUBSET Index BY DEF Deferred
<1>12. \A j \in B : Waiting(s, j) /\ s.buf[j].dma \in Dma
  <2> SUFFICES ASSUME NEW j \in B PROVE Waiting(s, j) /\ s.buf[j].dma \in Dma
    OBVIOUS
  <2>1. j \in Deferred(s) BY <1>1, <1>9
  <2>2. Waiting(s, j) BY <2>1 DEF Deferred, Has, Waiting
  <2>3. s.buf[j].dma \in Dma BY <1>1, <1>9, <1>10, <1>11
  <2> QED BY <2>2, <2>3
<1>13. K(q, vb2', port, cmds \o Ftbs(s, B), msgs)
  BY <1>2, <1>8, <1>9, <1>11, <1>12, SendStep DEF K
<1>14. Good(q) BY <1>9, <1>11, QueueKeeps
<1>15. cmds \o Ftbs(s, B) \in Seq(Command)
  <2>1. Ftbs(s, B) \in Seq(Command) BY <1>9, <1>11, <1>12, FtbsType
  <2> QED BY <1>2, <2>1
<1> HIDE DEF q
<1>16. K(r, vb2', port, (cmds \o Ftbs(s, B)) \o Releases(ToRelease(q)), msgs)
  BY <1>2, <1>13, <1>14, <1>15, ReleaseAllStep DEF K
<1>17. drv' = r /\ cmds' = cmds \o Ftbs(s, B) \o Releases(ToRelease(q))
  BY DEF QueueAndRelease, s, q, p
<1> QED BY <1>16, <1>17

\* What the invariant is after a step.
LEMMA JAfter ==
  ASSUME NEW s, NEW v, NEW p, NEW mode, NEW c, NEW n, NEW f, NEW r,
         J(s, v, p, mode, c, n, f, r),
         drv' = s, vb2' = v, port' = p, dpb'.mode = mode, cmds' = c, msgs' = n,
         fw'.queued = f, fw'.refs = r, failed' = "no"
  PROVE  JInv'
<1>1. J(drv', vb2', port', dpb'.mode, cmds', msgs', fw'.queued, fw'.refs) OBVIOUS
<1>2. Lists(drv, vb2, port, dpb.mode)'
  <2>1. Lists(drv', vb2', port', dpb'.mode) BY <1>1 DEF J
  <2> QED BY <2>1 DEF Lists, Attrs, Maps, Entries, Eligibles, Queued, Waiting, Done, Read, Pending
<1>3. Places(drv, cmds, msgs, fw.queued)'
  <2>1. Places(drv', cmds', msgs', fw'.queued) BY <1>1 DEF J
  <2> QED BY <2>1 DEF Places, FtbsPlaced, QueuedPlaced, FramesPlaced, Somewhere, Placed, Queued,
                      IsFtb, IsFrame
<1>4. Stops(drv, port, cmds, msgs, fw.queued)'
  <2>1. Stops(drv', port', cmds', msgs', fw'.queued) BY <1>1 DEF J
  <2> QED BY <2>1 DEF Stops, StopSent, StopAnswered, NoStop, IsStop, IsStopDone, NoFtb, NoFrame,
                      Queued
<1>5. Releasing(drv, cmds, msgs, fw.queued)'
  <2>1. Releasing(drv', cmds', msgs', fw'.queued) BY <1>1 DEF J
  <2> QED BY <2>1 DEF Releasing, ReleasesSent, ReleasesAnswered, ReleasesPending, Flagged, Placed,
                      Queued, Read, Pending, IsRelease, IsReleased, IsFtb, IsFrame
<1>6. Modes(dpb.mode, cmds, msgs)'
  <2>1. Modes(dpb'.mode, cmds', msgs') BY <1>1 DEF J
  <2> QED BY <2>1 DEF Modes, Second
<1>7. Seconds(drv, vb2, msgs, fw.refs)'
  <2>1. Seconds(drv', vb2', msgs', fw'.refs) BY <1>1 DEF J
  <2> QED BY <2>1 DEF Seconds, Second, ReadBy
<1>8. Reads(drv, cmds, msgs, fw.refs)'
  <2>1. Reads(drv', cmds', msgs', fw'.refs) BY <1>1 DEF J
  <2> QED BY <2>1 DEF Reads, ReadBy, OnItsWay, Placed, Queued, Read, Pending, IsRelease, IsFrame
<1>9. Told(cmds, fw.refs)'
  <2>1. Told(cmds', fw'.refs) BY <1>1 DEF J
  <2> QED BY <2>1 DEF Told, ReadBy, IsRelease
<1> QED BY <1>2, <1>3, <1>4, <1>5, <1>6, <1>7, <1>8, <1>9 DEF JInv, J

LEMMA KAfter ==
  ASSUME NEW s, NEW v, NEW p, NEW c, NEW n, K(s, v, p, c, n),
         drv' = s, vb2' = v, port' = p, cmds' = c, msgs' = n,
         dpb' = dpb, fw' = fw, failed' = "no"
  PROVE  JInv'
BY JAfter DEF K

LEMMA QBufHolds ==
  ASSUME Events = {}, IInv, JInv, NEW i \in Index, NEW d \in Dma,
         \/ QBufPrepares(i, d) \/ QBufSingle(i, d) \/ QBufDefers(i, d)
         \/ \E early \in BOOLEAN : QBufBatch(i, d, early)
  PROVE  JInv'
<1> DEFINE s == GetDriverBufs(Prepare(drv, i, d), {i})
<1>1. MayQueue(i, d) /\ failed = "no" /\ failed' = "no"
  BY DEF QBufPrepares, QBufSingle, QBufDefers, QBufBatch, JInv
<1>2. K(drv, vb2, port, cmds, msgs) BY DEF JInv, K
<1>3. CASE QBufPrepares(i, d)
  <2> DEFINE p == Prepare(drv, i, d)
  <2>1. ~drv.buf[i].ref /\ vb2[i] = "client" /\ \A j \in Index \ {i} : drv.buf[j].dma # d
    BY <1>1 DEF MayQueue, IInv, Owners
  <2>2. K(p, vb2, port, cmds, msgs) BY <1>2, <2>1, KDef, PrepareStep DEF K
  <2>3. p.buf[i].dma = d /\ \A j \in Index \ {i} : p.buf[j].dma = drv.buf[j].dma
    BY <1>1, QueuedIsFree
  <2>4. \A k \in 1..Len(msgs) : ~Second(msgs[k], d)
    BY <1>1 DEF MayQueue, InFlightAgain
  <2>5. /\ drv' = p /\ vb2' = [vb2 EXCEPT ![i] = "prepared"] /\ port = "off"
        /\ UNCHANGED <<port, dpb, cmds, msgs, fw>>
    BY <1>3 DEF QBufPrepares
  <2> HIDE DEF p
  <2>6. \A j \in Index : /\ j # i => vb2'[j] = vb2[j]
                         /\ vb2'[i] = "prepared"
    BY <2>5 DEF IInv, Owners
  <2>7. K(p, vb2', port, cmds, msgs)
    <3>1. Attrs(p, vb2, port) /\ Lists(p, vb2, port, dpb.mode) BY <2>2 DEF K, J, Lists
    <3>2. ~Queued(p, i) BY <2>1, <3>1 DEF Attrs
    <3>3. Attrs(p, vb2', port) BY <2>5, <2>6, <3>1, <3>2 DEF Attrs
    <3>4. Seconds(p, vb2, msgs, fw.refs) BY <2>2 DEF K, J
    <3>5. Seconds(p, vb2', msgs, fw.refs) BY <2>3, <2>4, <2>6, <3>4 DEF Seconds
    <3> QED BY <2>2, <3>1, <3>3, <3>5 DEF K, J, Lists
  <2> QED BY <1>1, <2>5, <2>7, KAfter
<1>4. ASSUME port = "on", NEW B, B \subseteq Deferred(drv) \cup {i}, QueueAndRelease(s, B),
             vb2' = [vb2 EXCEPT ![i] = "driver"],
             UNCHANGED <<port, dpb, msgs, fw, failed>>
      PROVE  JInv'
  <2>1. K(drv', vb2', port, cmds', msgs) BY <1>1, <1>4, QBufStep
  <2> QED BY <1>1, <1>4, <2>1, KAfter
<1>5. CASE QBufSingle(i, d)
  <2>1. {i} \subseteq Deferred(drv) \cup {i} OBVIOUS
  <2> QED BY <1>4, <1>5, <2>1 DEF QBufSingle
<1>6. CASE QBufDefers(i, d)
  <2> DEFINE none == {}
  <2>1. none \subseteq Deferred(drv) \cup {i} OBVIOUS
  <2>2. QueueAndRelease(s, none) BY <1>6 DEF QBufDefers
  <2> HIDE DEF none, s
  <2> QED BY <1>4, <1>6, <2>1, <2>2 DEF QBufDefers
<1>7. ASSUME NEW early \in BOOLEAN, QBufBatch(i, d, early) PROVE JInv'
  <2>1. port = "on" BY <1>7 DEF QBufBatch
  <2>2. Deferred(s) = Deferred(drv) \cup {i} BY <1>1, <2>1, QBufLists
  <2>3. Deferred(s) \subseteq Deferred(drv) \cup {i} BY <2>2
  <2> QED BY <1>4, <1>7, <2>1, <2>3 DEF QBufBatch
<1> QED BY <1>3, <1>5, <1>6, <1>7

\* All that is deferred goes out, if the port streams.
LEMMA ResendStep ==
  ASSUME IInv, JInv, port \in {"on", "stopping", "stopped"},
         Deferred(drv) # {} => port = "on"
  PROVE  K(Queue(drv, Deferred(drv)), vb2, port, cmds \o Ftbs(drv, Deferred(drv)), msgs)
<1> DEFINE B == Deferred(drv)
<1>1. B \in SUBSET Index /\ \A i \in B : Waiting(drv, i) BY DEF Deferred, Has, Waiting
<1>2. \A i \in B : drv.buf[i].dma \in Dma BY DEF IInv, Owners, Deferred, Has, Busy
<1>3. K(drv, vb2, port, cmds, msgs) BY DEF JInv, K
<1>4. B # {} => port = "on" OBVIOUS
<1> HIDE DEF B
<1>5. \A i \in B : Waiting(drv, i) /\ drv.buf[i].dma \in Dma BY <1>1, <1>2
<1>6. K(Queue(drv, B), vb2, port, cmds \o Ftbs(drv, B), msgs)
  BY <1>1, <1>3, <1>4, <1>5, KDef, SendStep DEF K
<1> QED BY <1>6 DEF B

LEMMA StartCmdHolds == ASSUME IInv, JInv, StartCmd PROVE JInv'
<1>1. /\ drv' = Queue(drv, Deferred(drv)) /\ cmds' = cmds \o Ftbs(drv, Deferred(drv))
      /\ UNCHANGED <<vb2, port, dpb, msgs, fw, failed>> /\ port = "on"
  BY DEF StartCmd
<1>2. failed' = "no" BY <1>1 DEF JInv
<1> QED BY <1>1, <1>2, ResendStep, KAfter

LEMMA BatchRunsHolds == ASSUME Events = {}, IInv, JInv, BatchRuns PROVE JInv'
<1>1. UNCHANGED <<vb2, port, dpb, msgs, fw, failed>> /\ failed' = "no"
  BY DEF BatchRuns, JInv
<1>2. CASE port \in {"on", "stopping", "stopped"}
  <2>1. drv' = Queue(drv, Deferred(drv)) /\ cmds' = cmds \o Ftbs(drv, Deferred(drv))
    BY <1>2 DEF BatchRuns, JInv
  <2>2. Deferred(drv) # {} => port = "on" BY <1>2 DEF BatchRuns
  <2> QED BY <1>1, <1>2, <2>1, <2>2, ResendStep, KAfter
<1>3. CASE port \notin {"on", "stopping", "stopped"}
  <2>1. drv' = drv /\ cmds' = cmds BY <1>3 DEF BatchRuns
  <2>2. K(drv, vb2, port, cmds, msgs) BY DEF JInv, K
  <2> QED BY <1>1, <2>1, <2>2, KAfter
<1> QED BY <1>2, <1>3

LEMMA StreamOnHolds == ASSUME Events = {}, IInv, JInv, StreamOn PROVE JInv'
<1> DEFINE kept == {i \in Index : vb2[i] = "prepared"}
           s == GetDriverBufs(drv, kept)
           t == Append(cmds, [type |-> "start"])
<1>1. /\ kept \in SUBSET Index /\ \A i \in kept : vb2[i] = "prepared" /\ drv.buf[i].dma \in Dma
  BY DEF IInv, Owners
<1>2. Deferred(drv) \subseteq kept BY DEF StreamOn, IInv, Owners, Deferred
<1>3. /\ port = "off" /\ port' = "on"
      /\ drv' = Queue(s, Deferred(s)) /\ cmds' = t \o Ftbs(s, Deferred(s))
      /\ vb2' = [i \in Index |-> IF i \in kept THEN "driver" ELSE vb2[i]]
      /\ UNCHANGED <<dpb, msgs, fw, failed>>
  BY DEF StreamOn
<1>4. Given(vb2, vb2', kept) BY <1>3 DEF Given
<1>5. K(drv, vb2, "off", cmds, msgs) BY <1>3 DEF JInv, K
<1>6. \A i \in kept : vb2[i] # "driver" BY <1>1
<1> HIDE DEF kept
<1>7. \A i \in kept, k \in 1..Len(msgs) : ~Second(msgs[k], drv.buf[i].dma)
  <2> SUFFICES ASSUME NEW i \in kept, NEW k \in 1..Len(msgs), Second(msgs[k], drv.buf[i].dma)
               PROVE  FALSE
    OBVIOUS
  <2>1. i \in Index /\ vb2[i] # "client" /\ drv.buf[i].dma \in Dma BY <1>1
  <2>2. Seconds(drv, vb2, msgs, fw.refs) BY <1>5 DEF K, J
  <2> QED BY <2>1, <2>2 DEF Seconds
<1>8. K(s, vb2', "off", cmds, msgs) BY <1>1, <1>4, <1>5, <1>6, <1>7, KDef, GetStep DEF K
<1>9. /\ Good(s) /\ Deferred(s) = Deferred(drv) \cup kept
      /\ \A i \in Index : s.buf[i].dma = drv.buf[i].dma
  BY <1>1, KDef, GetKeeps
<1> HIDE DEF s
<1>10. Deferred(s) = kept BY <1>2, <1>9
<1>11. \A i \in Index : Waiting(s, i) <=> i \in kept
  BY <1>1, <1>10 DEF Deferred, Has, Waiting
<1>12. \A i \in Index : Waiting(s, i) => vb2'[i] = "driver" BY <1>4, <1>11 DEF Given
<1>13. K(s, vb2', "on", cmds, msgs) BY <1>8, <1>12, OnStep DEF K
<1>14. Grown(cmds, t, [type |-> "start"]) /\ t \in Seq(Command)
  <2>1. [type |-> "start"] \in Command BY DEF Command
  <2> QED BY <2>1, KDef, AppendGrows
<1> HIDE DEF t
<1>15. K(s, vb2', "on", t, msgs) BY <1>13, <1>14, StartSent DEF K
<1>16. \A i \in kept : Waiting(s, i) /\ s.buf[i].dma \in Dma BY <1>1, <1>9, <1>11
<1>17. K(Queue(s, kept), vb2', "on", t \o Ftbs(s, kept), msgs)
  BY <1>1, <1>9, <1>14, <1>15, <1>16, KDef, SendStep DEF K
<1>18. failed' = "no" BY <1>3 DEF JInv
<1> QED BY <1>3, <1>10, <1>17, <1>18, KAfter

LEMMA StreamOffHolds == ASSUME IInv, JInv, StreamOff PROVE JInv'
<1>1. /\ port = "on" /\ port' = "stopping" /\ cmds' = Append(cmds, [type |-> "stop"])
      /\ UNCHANGED <<drv, vb2, dpb, msgs, fw, failed>>
  BY DEF StreamOff
<1>2. Grown(cmds, cmds', [type |-> "stop"])
  <2>1. [type |-> "stop"] \in Command BY DEF Command
  <2> QED BY <1>1, <2>1, KDef, AppendGrows
<1>3. K(drv, vb2, "on", cmds, msgs) BY <1>1 DEF JInv, K
<1>4. K(drv, vb2, "stopping", cmds', msgs) BY <1>2, <1>3, StopIsSent DEF K
<1>5. failed' = "no" BY <1>1 DEF JInv
<1> QED BY <1>1, <1>4, <1>5, KAfter

LEMMA ReqBufs0Holds == ASSUME IInv, JInv, ReqBufs0 PROVE JInv'
<1> DEFINE all == {drv.buf[i].dma : i \in Index}
           free(i) == [drv.buf[i] EXCEPT !.dma = NoDma, !.map = FALSE]
           mapped(d) == \E i \in Index : drv.buf[i].dma = d /\ drv.buf[i].map
           back(d) == [drv.ro[d] EXCEPT !.map = mapped(d)]
           b == [i \in Index |-> free(i)]
           r == [d \in Dma |-> IF d \in all /\ drv.ro[d].listed THEN back(d) ELSE drv.ro[d]]
<1>1. drv' = [drv EXCEPT !.buf = b, !.ro = r] BY DEF ReqBufs0
<1>2. K(drv, vb2, "off", cmds, msgs) BY DEF JInv, K, ReqBufs0
<1>3. Good(drv) /\ Maps(drv) /\ Attrs(drv, vb2, "off") BY <1>2, KDef DEF K, J, Lists
<1>4. \A d \in Dma : d \in all <=> \E i \in Index : drv.buf[i].dma = d OBVIOUS
<1>5. \A d \in Dma : mapped(d) \in BOOLEAN /\ (d \in all => mapped(d))
  BY <1>3, <1>4, SizesAssumption DEF Maps
<1> HIDE DEF mapped, all
<1>6. \A d \in Dma : /\ back(d) \in RoEntry /\ back(d).map = mapped(d)
                     /\ back(d).ref = drv.ro[d].ref /\ back(d).listed = drv.ro[d].listed
                     /\ back(d).attr = drv.ro[d].attr
  BY <1>3, <1>5 DEF Good, Shape, RoEntry
<1>7. \A i \in Index : /\ free(i) \in Buffer /\ free(i).dma = NoDma
                       /\ free(i).attr = drv.buf[i].attr
  BY <1>3 DEF Good, Shape, Buffer
<1> HIDE DEF back, free
<1>8. /\ r \in [Dma -> RoEntry]
      /\ \A d \in Dma : /\ r[d].ref = drv.ro[d].ref /\ r[d].listed = drv.ro[d].listed
                        /\ r[d].attr = drv.ro[d].attr
                        /\ d \in all /\ r[d].listed => r[d].map
                        /\ d \notin all => r[d].map = drv.ro[d].map
  BY <1>3, <1>5, <1>6 DEF Good, Shape
<1>9. b \in [Index -> Buffer] /\ \A i \in Index : b[i].dma = NoDma /\ b[i].attr = drv.buf[i].attr
  BY <1>7
<1> HIDE DEF b, r
<1>10. Is(drv', b, r, drv.tracker) BY <1>1, <1>3, <1>8, <1>9, WithBufRo DEF Good
<1>11. drv'.buf = b /\ drv'.ro = r BY <1>10 DEF Is
<1>12. \A i \in Index : ~Queued(drv, i) BY <1>2 DEF K, J, Stops
<1>13. \A i \in Index : vb2'[i] = "client" BY DEF ReqBufs0
<1>14. SameView(drv, drv') BY <1>8, <1>9, <1>11, <1>12 DEF SameView, Queued, Read, Pending
<1>15. Maps(drv')
  <2>1. \A d \in Dma : drv'.ro[d].listed => drv'.ro[d].map
    BY <1>3, <1>4, <1>8, <1>11 DEF Maps
  <2> QED BY <1>9, <1>11, <2>1 DEF Maps
<1>16. RoKept(drv, drv') BY <1>8, <1>11 DEF RoKept
<1>17. Attrs(drv', vb2', "off")
  BY <1>3, <1>9, <1>11, <1>12, <1>13 DEF Attrs, Queued, Waiting, Done
<1>18. Lists(drv', vb2', "off", dpb.mode)
  BY <1>2, <1>15, <1>16, <1>17, RoKeptKeeps DEF K, J, Lists
<1>19. Seconds(drv', vb2', msgs, fw.refs) BY <1>2, <1>13 DEF K, J, Seconds
<1>20. K(drv', vb2', "off", cmds, msgs) BY <1>2, <1>14, <1>18, <1>19, KDef, ViewStep DEF K
<1>21. port' = "off" /\ UNCHANGED <<dpb, cmds, msgs, fw>> /\ failed' = "no"
  BY DEF ReqBufs0, JInv
<1> QED BY <1>20, <1>21, KAfter

LEMMA FlushDoes ==
  ASSUME NEW s, Good(s)
  PROVE  LET q == Flush(s) IN
         /\ \A i \in Index : /\ q.buf[i].attr = s.buf[i].attr /\ q.buf[i].dma = s.buf[i].dma
                             /\ q.buf[i].map = s.buf[i].map
         /\ \A d \in Dma : q.ro[d] = IF d \in NotRead(s) THEN NoEntry ELSE s.ro[d]
<1> DEFINE F == {i \in Index : s.buf[i].attr \cap {"QUEUED", "DEFERRED"} # {}
                                 /\ ~Has(s, i, "BUFFER_DONE")}
           put == {s.buf[i].dma : i \in {j \in F : s.buf[j].ref}}
           drop(i) == [s.buf[i] EXCEPT !.ref = FALSE]
           b == [i \in Index |-> IF i \in F THEN drop(i) ELSE s.buf[i]]
           n == Put(s.tracker, put)
           t == [s EXCEPT !.buf = b, !.tracker = n]
<1>1. Flush(s) = Unlist(t, NotRead(t)) BY DEF Flush
<1>2. F \in SUBSET Index OBVIOUS
<1> HIDE DEF F
<1>3. \A i \in Index : /\ drop(i) \in Buffer /\ ~drop(i).ref /\ drop(i).map = s.buf[i].map
                       /\ drop(i).dma = s.buf[i].dma /\ drop(i).attr = s.buf[i].attr
  BY DEF Good, Shape, Buffer
<1> HIDE DEF drop
<1>4. b \in [Index -> Buffer] BY <1>3 DEF Good, Shape
<1>5. /\ \A i \in Index : /\ b[i].dma = s.buf[i].dma /\ b[i].attr = s.buf[i].attr
                          /\ b[i].map = s.buf[i].map
      /\ \A i \in F : ~b[i].ref
      /\ \A i \in Index \ F : b[i] = s.buf[i]
  BY <1>2, <1>3
<1> HIDE DEF b
<1>6. n \in [Dma -> Int] BY DEF Put, Good, Shape
<1>7. Is(t, b, s.ro, n) BY <1>4, <1>6, WithBufTracker DEF Good
<1> HIDE DEF t
<1>8. Good(t) BY <1>2, <1>5, <1>7, DropKeeps DEF Is
<1>9. NotRead(t) = NotRead(s) BY <1>7 DEF NotRead, RoHas, Is
<1> QED BY <1>1, <1>5, <1>7, <1>8, <1>9, UnlistDoes DEF Is

LEMMA StreamOffEndsHolds == ASSUME IInv, JInv, StreamOffEnds PROVE JInv'
<1>1. /\ port = "stopped" /\ port' = "off" /\ drv' = Flush(drv)
      /\ failed' = IF \E i \in Index : Has(drv, i, "QUEUED") THEN "stop" ELSE "no"
      /\ \A i \in Index : vb2'[i] = "client"
      /\ UNCHANGED <<dpb, cmds, msgs, fw>>
  BY DEF StreamOffEnds
<1>2. K(drv, vb2, "stopped", cmds, msgs) BY <1>1 DEF JInv, K
<1>3. \A i \in Index : ~Queued(drv, i) BY <1>2 DEF K, J, Stops
<1>4. failed' = "no" BY <1>1, <1>3 DEF Has, Queued
<1>5. /\ \A i \in Index : /\ drv'.buf[i].attr = drv.buf[i].attr
                          /\ drv'.buf[i].dma = drv.buf[i].dma /\ drv'.buf[i].map = drv.buf[i].map
      /\ \A d \in Dma : drv'.ro[d] = IF d \in NotRead(drv) THEN NoEntry ELSE drv.ro[d]
  BY <1>1, KDef, FlushDoes
<1>6. Lists(drv, vb2, "stopped", dpb.mode) BY <1>2 DEF K, J
<1>7. \A d \in Dma : Pending(drv, d) => Read(drv, d)
  BY <1>2 DEF K, J, Releasing, ReleasesPending, ReleasesSent, ReleasesAnswered
<1>8. ~NoEntry.listed /\ NoEntry.attr = {} BY DEF NoEntry
<1>9. \A d \in NotRead(drv) : ~Read(drv, d) /\ ~Pending(drv, d)
  BY <1>7 DEF NotRead, RoHas, Read
<1>10. SameView(drv, drv') BY <1>3, <1>5, <1>8, <1>9 DEF SameView, Queued, Read, Pending
<1>11. Attrs(drv', vb2', "off")
  BY <1>1, <1>3, <1>5, <1>6 DEF Lists, Attrs, Queued, Waiting, Done
<1>12. Maps(drv') BY <1>5, <1>6, <1>8 DEF Lists, Maps
<1>13. Entries(drv') BY <1>5, <1>6, <1>8 DEF Lists, Entries
<1>14. Eligibles(drv', dpb.mode) BY <1>5, <1>6, <1>8 DEF Lists, Eligibles, Read, Pending
<1>15. /\ Places(drv', cmds, msgs, fw.queued) /\ Stops(drv', "stopped", cmds, msgs, fw.queued)
       /\ Releasing(drv', cmds, msgs, fw.queued) /\ Reads(drv', cmds, msgs, fw.refs)
  BY <1>2, <1>10, KDef, ViewKeeps DEF K, J
<1>16. Stops(drv', "off", cmds, msgs, fw.queued) BY <1>15 DEF Stops
<1>17. Seconds(drv', vb2', msgs, fw.refs) BY <1>1, <1>2 DEF K, J, Seconds
<1>18. K(drv', vb2', "off", cmds, msgs)
  BY <1>2, <1>11, <1>12, <1>13, <1>14, <1>15, <1>16, <1>17 DEF K, J, Lists
<1> QED BY <1>1, <1>4, <1>18, KAfter

\* Nothing is queued, sent or read.
LEMMA FreshHolds ==
  ASSUME NEW s, \A i \in Index : s.buf[i] = FreshBuffer, \A d \in Dma : s.ro[d] = NoEntry,
         NEW v, \A i \in Index : v[i] = "client", NEW p \in {"off", "closed"}, NEW mode
  PROVE  J(s, v, p, mode, << >>, << >>, {}, {})
<1>1. FreshBuffer.attr = {} /\ FreshBuffer.dma = NoDma BY DEF FreshBuffer
<1>2. NoEntry.attr = {} /\ ~NoEntry.listed BY DEF NoEntry
<1>3. /\ \A i \in Index : ~Queued(s, i) /\ ~Waiting(s, i) /\ ~Done(s, i)
      /\ \A d \in Dma : ~Read(s, d) /\ ~Pending(s, d) /\ s.ro[d].attr = {} /\ ~s.ro[d].listed
      /\ \A i \in Index, d \in Dma : ~Placed(s, i, d)
  BY <1>1, <1>2 DEF Queued, Waiting, Done, Read, Pending, Placed
<1>4. Lists(s, v, p, mode)
  BY <1>1, <1>2, <1>3 DEF Lists, Attrs, Maps, Entries, Eligibles
<1>5. \A k : k \notin 1..Len(<< >>)
  <2>1. Len(<< >>) = 0 OBVIOUS
  <2> QED BY <2>1
<1>6. Places(s, << >>, << >>, {})
  BY <1>3, <1>5, Zenon DEF Places, FtbsPlaced, QueuedPlaced, FramesPlaced, Somewhere
<1>7. Stops(s, p, << >>, << >>, {}) BY <1>3, <1>5 DEF Stops, NoStop
<1>8. Releasing(s, << >>, << >>, {})
  BY <1>3, <1>5, Zenon
     DEF Releasing, ReleasesSent, ReleasesAnswered, ReleasesPending, Flagged
<1>9. Modes(mode, << >>, << >>) BY <1>5, Zenon DEF Modes
<1>10. Seconds(s, v, << >>, {}) BY <1>5, Zenon DEF Seconds
<1>11. ReadBy({}) = {} BY DEF ReadBy
<1>12. Reads(s, << >>, << >>, {}) BY <1>11 DEF Reads
<1>13. Told(<< >>, {}) BY <1>5, Zenon DEF Told
<1> QED BY <1>4, <1>6, <1>7, <1>8, <1>9, <1>10, <1>12, <1>13 DEF J

LEMMA CloseHolds == ASSUME JInv, Close PROVE JInv'
<1>1. /\ \A i \in Index : drv'.buf[i] = FreshBuffer
      /\ \A d \in Dma : drv'.ro[d] = NoEntry
      /\ \A i \in Index : vb2'[i] = "client"
      /\ port' = "closed" /\ dpb' = dpb /\ cmds' = << >> /\ msgs' = << >>
      /\ fw'.queued = {} /\ fw'.refs = {} /\ failed' = "no"
  BY DEF Close, JInv
<1>2. J(drv', vb2', "closed", dpb.mode, << >>, << >>, {}, {}) BY <1>1, FreshHolds
<1> QED BY <1>1, <1>2, JAfter

LEMMA InitIsJ == Init => JInv
<1> SUFFICES ASSUME Init PROVE JInv OBVIOUS
<1>1. /\ \A i \in Index : drv.buf[i] = FreshBuffer /\ vb2[i] = "client"
      /\ \A d \in Dma : drv.ro[d] = NoEntry
      /\ port = "off" /\ cmds = << >> /\ msgs = << >> /\ fw.queued = {} /\ fw.refs = {}
      /\ failed = "no"
  BY DEF Init
<1>2. J(drv, vb2, "off", dpb.mode, << >>, << >>, {}, {}) BY <1>1, FreshHolds
<1> QED BY <1>1, <1>2 DEF JInv

-----------------------------------------------------------------------------
(* The steps of the interrupt thread.                                      *)

\* The lists q once the first message of n is handled: its buffer is no
\* longer queued, its releases are no longer pending.
Handled(s, q, m, r) ==
  /\ \A i \in Index, d \in Dma : Placed(q, i, d) <=> Placed(s, i, d) /\ ~IsFrame(m, i, d)
  /\ \A i \in Index : Queued(q, i) => Queued(s, i)
  /\ \A d \in Dma : Pending(q, d) <=> Pending(s, d) /\ ~IsReleased(m, d)
  /\ \A d \in Dma : IsReleased(m, d) => ~Read(q, d)
  /\ \A d \in Dma : Read(s, d) => Read(q, d) \/ IsReleased(m, d)
  /\ \A i \in Index, d \in Dma : Read(q, d) /\ Placed(q, i, d) => Read(s, d)
  /\ \A i \in Index, d \in Dma : IsFrame(m, i, d) => /\ ~Pending(s, d)
                                                     /\ d \in ReadBy(r) => Read(q, d)

LEMMA ShiftKeeps ==
  ASSUME NEW s, NEW v, NEW p, NEW mode, NEW c, NEW n, NEW f, NEW r \in SUBSET (Index \X Dma),
         J(s, v, p, mode, c, n, f, r), NEW q, Handled(s, q, n[1], r), NEW t, Shifted(n, t)
  PROVE  /\ Places(q, c, t, f) /\ Releasing(q, c, t, f) /\ Modes(mode, c, t)
         /\ Reads(q, c, t, r)
<1> DEFINE m == n[1]
<1>1. /\ \A k \in 1..Len(t) : k + 1 \in 1..Len(n) /\ t[k] = n[k + 1] /\ k + 1 # 1 /\ k \in Nat
      /\ \A k \in 1..Len(n) : k = 1 \/ (k - 1 \in 1..Len(t) /\ t[k - 1] = n[k] /\ k \in Int)
      /\ 1 \in 1..Len(n)
  BY ShiftedPlaces
<1>2. /\ \A i \in Index, d \in Dma : Placed(q, i, d) <=> Placed(s, i, d) /\ ~IsFrame(m, i, d)
      /\ \A d \in Dma : Pending(q, d) <=> Pending(s, d) /\ ~IsReleased(m, d)
      /\ \A d \in Dma : IsReleased(m, d) => ~Read(q, d)
      /\ \A d \in Dma : Read(s, d) => Read(q, d) \/ IsReleased(m, d)
      /\ \A i \in Index, d \in Dma : Read(q, d) /\ Placed(q, i, d) => Read(s, d)
      /\ \A i \in Index, d \in Dma : IsFrame(m, i, d) => /\ ~Pending(s, d)
                                                         /\ d \in ReadBy(r) => Read(q, d)
  BY DEF Handled
<1>3. Places(q, c, t, f)
  <2>1. ASSUME NEW k \in 1..Len(c), NEW i \in Index, NEW d \in Dma, IsFtb(c[k], i, d)
        PROVE  /\ Placed(q, i, d) /\ <<i, d>> \notin f
               /\ \A l \in 1..Len(c) : IsFtb(c[l], i, d) => l = k
               /\ \A l \in 1..Len(t) : ~IsFrame(t[l], i, d)
    <3>1. /\ Placed(s, i, d) /\ <<i, d>> \notin f
          /\ \A l \in 1..Len(c) : IsFtb(c[l], i, d) => l = k
          /\ \A l \in 1..Len(n) : ~IsFrame(n[l], i, d)
      BY <2>1 DEF J, Places, FtbsPlaced
    <3>2. ~IsFrame(m, i, d) BY <1>1, <3>1
    <3> QED BY <1>1, <1>2, <3>1, <3>2
  <2>2. ASSUME NEW i \in Index, NEW d \in Dma, <<i, d>> \in f
        PROVE  Placed(q, i, d) /\ \A l \in 1..Len(t) : ~IsFrame(t[l], i, d)
    <3>1. Placed(s, i, d) /\ \A l \in 1..Len(n) : ~IsFrame(n[l], i, d)
      BY <2>2 DEF J, Places, QueuedPlaced
    <3>2. ~IsFrame(m, i, d) BY <1>1, <3>1
    <3> QED BY <1>1, <1>2, <3>1, <3>2
  <2>3. ASSUME NEW k \in 1..Len(t), NEW i \in Index, NEW d \in Dma, IsFrame(t[k], i, d)
        PROVE  Placed(q, i, d) /\ \A l \in 1..Len(t) : IsFrame(t[l], i, d) => l = k
    <3>1. k + 1 \in 1..Len(n) /\ IsFrame(n[k + 1], i, d) /\ k + 1 # 1 BY <1>1, <2>3
    <3>2. Placed(s, i, d) /\ \A l \in 1..Len(n) : IsFrame(n[l], i, d) => l = k + 1
      BY <3>1 DEF J, Places, FramesPlaced
    <3>3. ~IsFrame(m, i, d) BY <1>1, <3>1, <3>2
    <3>4. ASSUME NEW l \in 1..Len(t), IsFrame(t[l], i, d) PROVE l = k
      <4>1. l + 1 \in 1..Len(n) /\ IsFrame(n[l + 1], i, d) /\ l \in Nat /\ k \in Nat
        BY <1>1, <3>4
      <4>2. l + 1 = k + 1 BY <3>2, <4>1
      <4> QED BY <4>1, <4>2
    <3> QED BY <1>2, <3>2, <3>3, <3>4
  <2>4. ASSUME NEW i \in Index, NEW d \in Dma, Placed(q, i, d)
        PROVE  \/ \E k \in 1..Len(c) : IsFtb(c[k], i, d)
               \/ <<i, d>> \in f
               \/ \E k \in 1..Len(t) : IsFrame(t[k], i, d)
    <3>1. Placed(s, i, d) /\ ~IsFrame(n[1], i, d) BY <1>2, <2>4
    <3>2. ASSUME NEW k \in 1..Len(n), IsFrame(n[k], i, d)
          PROVE  \E l \in 1..Len(t) : IsFrame(t[l], i, d)
      BY <1>1, <3>1, <3>2
    <3> QED BY <3>1, <3>2 DEF J, Places, Somewhere
  <2> QED BY <2>1, <2>2, <2>3, <2>4
          DEF Places, FtbsPlaced, QueuedPlaced, FramesPlaced, Somewhere
<1>4. Releasing(q, c, t, f)
  <2>1. ASSUME NEW k \in 1..Len(c), NEW d \in Dma, IsRelease(c[k], d)
        PROVE  /\ Pending(q, d) /\ Read(q, d)
               /\ \A l \in 1..Len(c) : IsRelease(c[l], d) => l = k
               /\ \A l \in 1..Len(t) : ~IsReleased(t[l], d)
               /\ \A i \in Index : <<i, d>> \notin f
               /\ \A i \in Index, l \in 1..Len(t) : ~IsFrame(t[l], i, d)
               /\ \A i \in Index, l \in 1..Len(c) : IsFtb(c[l], i, d) => l > k
    <3>1. /\ Pending(s, d) /\ Read(s, d)
          /\ \A l \in 1..Len(c) : IsRelease(c[l], d) => l = k
          /\ \A l \in 1..Len(n) : ~IsReleased(n[l], d)
          /\ \A i \in Index : <<i, d>> \notin f
          /\ \A i \in Index, l \in 1..Len(n) : ~IsFrame(n[l], i, d)
          /\ \A i \in Index, l \in 1..Len(c) : IsFtb(c[l], i, d) => l > k
      BY <2>1 DEF J, Releasing, ReleasesSent
    <3>2. ~IsReleased(m, d) BY <1>1, <3>1
    <3>3. \A l \in 1..Len(t) : ~IsReleased(t[l], d) BY <1>1, <3>1
    <3>4. \A i \in Index, l \in 1..Len(t) : ~IsFrame(t[l], i, d) BY <1>1, <3>1
    <3> QED BY <1>2, <3>1, <3>2, <3>3, <3>4
  <2>2. ReleasesSent(q, c, t, f) BY <2>1 DEF ReleasesSent
  <2>3. ASSUME NEW k \in 1..Len(t), NEW d \in Dma, IsReleased(t[k], d)
        PROVE  /\ Pending(q, d) /\ Read(q, d)
               /\ \A l \in 1..Len(t) : IsReleased(t[l], d) => l = k
               /\ \A i \in Index, l \in 1..Len(t) : IsFrame(t[l], i, d) => l > k
    <3>1. k + 1 \in 1..Len(n) /\ IsReleased(n[k + 1], d) /\ k + 1 # 1 /\ k \in Nat
      BY <1>1, <2>3
    <3>2. /\ Pending(s, d) /\ Read(s, d)
          /\ \A l \in 1..Len(n) : IsReleased(n[l], d) => l = k + 1
          /\ \A i \in Index, l \in 1..Len(n) : IsFrame(n[l], i, d) => l > k + 1
      BY <3>1 DEF J, Releasing, ReleasesAnswered
    <3>3. ~IsReleased(m, d) BY <1>1, <3>1, <3>2
    <3>4. ASSUME NEW l \in 1..Len(t), IsReleased(t[l], d) PROVE l = k
      <4>1. l + 1 \in 1..Len(n) /\ IsReleased(n[l + 1], d) /\ l \in Nat BY <1>1, <3>4
      <4>2. l + 1 = k + 1 BY <3>2, <4>1
      <4> QED BY <3>1, <4>1, <4>2
    <3>5. ASSUME NEW i \in Index, NEW l \in 1..Len(t), IsFrame(t[l], i, d) PROVE l > k
      <4>1. l + 1 \in 1..Len(n) /\ IsFrame(n[l + 1], i, d) /\ l \in Nat BY <1>1, <3>5
      <4>2. l + 1 > k + 1 BY <3>2, <4>1
      <4> QED BY <3>1, <4>1, <4>2
    <3> QED BY <1>2, <3>2, <3>3, <3>4, <3>5
  <2>4. ReleasesAnswered(q, t) BY <2>3 DEF ReleasesAnswered
  <2>5. ASSUME NEW d \in Dma, Pending(q, d)
        PROVE  \/ \E k \in 1..Len(c) : IsRelease(c[k], d)
               \/ \E k \in 1..Len(t) : IsReleased(t[k], d)
    <3>1. Pending(s, d) /\ ~IsReleased(n[1], d) BY <1>2, <2>5
    <3>2. ASSUME NEW k \in 1..Len(n), IsReleased(n[k], d)
          PROVE  \E l \in 1..Len(t) : IsReleased(t[l], d)
      BY <1>1, <3>1, <3>2
    <3> QED BY <3>1, <3>2 DEF J, Releasing, ReleasesPending
  <2>6. ReleasesPending(q, c, t) BY <2>5 DEF ReleasesPending
  <2>7. Flagged(q) BY <1>2 DEF J, Releasing, Flagged
  <2> QED BY <2>2, <2>4, <2>6, <2>7 DEF Releasing
<1>5. Modes(mode, c, t)
  <2>1. CASE mode = "none" BY <1>1, <2>1 DEF J, Modes
  <2>2. CASE mode # "none" BY <1>1, <2>2 DEF J, Modes
  <2> QED BY <2>1, <2>2
<1>6. Reads(q, c, t, r)
  <2>1. Reads(s, c, n, r) /\ ReadBy(r) \subseteq Dma BY DEF J, ReadBy
  <2>2. \A d \in Dma : OnItsWay(s, d) => OnItsWay(q, d) \/ \E i \in Index : IsFrame(m, i, d)
    BY <1>2 DEF OnItsWay
  <2>3. ASSUME NEW d \in ReadBy(r), IsReleased(m, d) PROVE OnItsWay(q, d)
    <3>1. d \in Dma BY <2>1
    <3>2. Pending(s, d) BY <1>1, <2>3, <3>1 DEF J, Releasing, ReleasesAnswered
    <3>3. \A k \in 1..Len(c) : ~IsRelease(c[k], d)
      BY <1>1, <2>3, <3>1 DEF J, Releasing, ReleasesSent
    <3>4. OnItsWay(s, d) BY <2>1, <3>2, <3>3 DEF Reads
    <3>5. \A i : ~IsFrame(m, i, d) BY <2>3 DEF IsFrame, IsReleased
    <3> QED BY <2>2, <3>1, <3>4, <3>5
  <2>4. ASSUME NEW d \in ReadBy(r) PROVE Read(q, d) \/ OnItsWay(q, d)
    <3>1. d \in Dma BY <2>1
    <3>2. Read(s, d) \/ OnItsWay(s, d) BY <2>1 DEF Reads
    <3> QED BY <1>2, <2>2, <2>3, <3>1, <3>2
  <2>5. ASSUME NEW d \in ReadBy(r), Pending(q, d)
        PROVE  OnItsWay(q, d) \/ \E k \in 1..Len(c) : IsRelease(c[k], d)
    <3>1. d \in Dma /\ Pending(s, d) BY <1>2, <2>1, <2>5
    <3>2. \A i \in Index : ~IsFrame(m, i, d) BY <1>2, <3>1
    <3> QED BY <2>1, <2>2, <3>1, <3>2 DEF Reads
  <2>6. ASSUME NEW i \in Index, NEW d \in ReadBy(r), NEW k \in 1..Len(t), IsFrame(t[k], i, d)
        PROVE  t[k].ro
    <3>1. k + 1 \in 1..Len(n) /\ t[k] = n[k + 1] BY <1>1
    <3>2. \A l \in 1..Len(n) : IsFrame(n[l], i, d) => n[l].ro BY <2>1 DEF Reads
    <3> QED BY <2>6, <3>1, <3>2
  <2>7. \A x, y \in r : x[2] = y[2] => x = y BY <2>1 DEF Reads
  <2>8. \A d \in ReadBy(r) : Read(q, d) \/ OnItsWay(q, d) BY <2>4
  <2>9. \A d \in ReadBy(r) : Pending(q, d) =>
          OnItsWay(q, d) \/ \E k \in 1..Len(c) : IsRelease(c[k], d)
    BY <2>5
  <2> QED BY <2>6, <2>7, <2>8, <2>9, Zenon DEF Reads
<1> QED BY <1>3, <1>4, <1>5, <1>6

\* A message that is not the answer to a stop leaves the stop where it is.
LEMMA ShiftStops ==
  ASSUME NEW s, NEW p, NEW c, NEW n, NEW f, Stops(s, p, c, n, f), NEW t, Shifted(n, t),
         ~IsStopDone(n[1]), NEW q, \A i \in Index : Queued(q, i) => Queued(s, i)
  PROVE  Stops(q, p, c, t, f)
<1>1. /\ \A k \in 1..Len(t) : k + 1 \in 1..Len(n) /\ t[k] = n[k + 1] /\ k + 1 # 1 /\ k \in Nat
      /\ \A k \in 1..Len(n) : k = 1 \/ (k - 1 \in 1..Len(t) /\ t[k - 1] = n[k] /\ k \in Int)
  BY ShiftedPlaces
<1>2. (\A k \in 1..Len(n) : ~IsStopDone(n[k])) => \A k \in 1..Len(t) : ~IsStopDone(t[k])
  BY <1>1
<1>3. ASSUME StopAnswered(c, n, f) PROVE StopAnswered(c, t, f)
  <2>1. PICK k \in 1..Len(n) :
          /\ IsStopDone(n[k]) /\ \A l \in 1..Len(n) : IsStopDone(n[l]) => l = k
          /\ \A l \in 1..Len(n) : l > k => NoFrame(n[l])
    BY <1>3 DEF StopAnswered
  <2>2. k - 1 \in 1..Len(t) /\ t[k - 1] = n[k] /\ k \in Int BY <1>1, <2>1
  <2>3. ASSUME NEW l \in 1..Len(t)
        PROVE  /\ IsStopDone(t[l]) => l = k - 1
               /\ l > k - 1 => NoFrame(t[l])
    <3>1. l + 1 \in 1..Len(n) /\ t[l] = n[l + 1] /\ l \in Nat BY <1>1
    <3>2. IsStopDone(t[l]) => l + 1 = k BY <2>1, <3>1
    <3>3. l + 1 > k => NoFrame(t[l]) BY <2>1, <3>1
    <3> QED BY <2>2, <3>1, <3>2, <3>3
  <2> QED BY <1>3, <2>1, <2>2, <2>3 DEF StopAnswered
<1> QED BY <1>2, <1>3 DEF Stops, StopSent, NoStop

LEMMA ShiftSeconds ==
  ASSUME NEW s, NEW v, NEW n, NEW r, Seconds(s, v, n, r), NEW t, Shifted(n, t),
         NEW q, \A i \in Index : q.buf[i].dma = s.buf[i].dma,
         NEW w, \A i \in Index : v[i] = "client" => w[i] = "client"
  PROVE  Seconds(q, w, t, r)
<1>1. \A k \in 1..Len(t) : k + 1 \in 1..Len(n) /\ t[k] = n[k + 1] BY ShiftedPlaces
<1> QED BY <1>1 DEF Seconds

LEMMA MarkDoes ==
  ASSUME NEW s, Good(s), NEW D
  PROVE  LET t == MarkEligible(s, D) IN
         /\ t.buf = s.buf
         /\ \A d \in Dma : /\ t.ro[d].listed = s.ro[d].listed /\ t.ro[d].ref = s.ro[d].ref
                           /\ t.ro[d].map = s.ro[d].map
                           /\ Read(t, d) <=> Read(s, d)
                           /\ Pending(t, d) <=> Pending(s, d)
                           /\ \/ t.ro[d].attr = s.ro[d].attr
                              \/ Read(s, d) /\ ~Pending(s, d)
<1> DEFINE C(d) == RoHas(s, d, "READ_ONLY") /\ ~RoHas(s, d, "PENDING_RELEASE") /\ d \notin D
           e(d) == [s.ro[d] EXCEPT !.attr = s.ro[d].attr \cup {"RELEASE_ELIGIBLE"}]
           r == [d \in Dma |-> IF C(d) THEN e(d) ELSE s.ro[d]]
           t == MarkEligible(s, D)
<1>1. t = [s EXCEPT !.ro = r] BY DEF MarkEligible
<1>2. \A d \in Dma : C(d) => Read(s, d) /\ ~Pending(s, d) BY DEF RoHas, Read, Pending
<1> HIDE DEF C, t
<1>3. \A d \in Dma : /\ e(d) \in RoEntry /\ e(d).attr = s.ro[d].attr \cup {"RELEASE_ELIGIBLE"}
                     /\ e(d).ref = s.ro[d].ref /\ e(d).listed = s.ro[d].listed
                     /\ e(d).map = s.ro[d].map
  BY DEF Good, Shape, RoEntry, RoAttributes
<1> HIDE DEF e
<1>4. /\ r \in [Dma -> RoEntry]
      /\ \A d \in Dma : r[d] = IF C(d) THEN e(d) ELSE s.ro[d]
  BY <1>3 DEF Good, Shape
<1> HIDE DEF r
<1>5. Is(t, s.buf, r, s.tracker) BY <1>1, <1>4, WithRo DEF Good
<1>6. t.buf = s.buf /\ t.ro = r BY <1>5 DEF Is
<1>7. \A d \in Dma : C(d) => /\ Read(t, d) <=> Read(s, d)
                             /\ Pending(t, d) <=> Pending(s, d)
  BY <1>3, <1>4, <1>6 DEF Read, Pending
<1>8. \A d \in Dma : ~C(d) => t.ro[d] = s.ro[d] BY <1>4, <1>6
<1> QED BY <1>2, <1>3, <1>4, <1>6, <1>7, <1>8 DEF Read, Pending, t

LEMMA MarkStep ==
  ASSUME NEW s, Good(s), NEW v, NEW p, NEW mode, NEW c, NEW n, NEW f,
         NEW r \in SUBSET (Index \X Dma), J(s, v, p, mode, c, n, f, r), NEW D
  PROVE  J(MarkEligible(s, D), v, p, mode, c, n, f, r)
<1> DEFINE t == MarkEligible(s, D)
<1>1. /\ t.buf = s.buf
      /\ \A d \in Dma : /\ t.ro[d].listed = s.ro[d].listed /\ t.ro[d].ref = s.ro[d].ref
                        /\ t.ro[d].map = s.ro[d].map
                        /\ Read(t, d) <=> Read(s, d)
                        /\ Pending(t, d) <=> Pending(s, d)
                        /\ \/ t.ro[d].attr = s.ro[d].attr
                           \/ Read(s, d) /\ ~Pending(s, d)
  BY MarkDoes
<1> HIDE DEF t
<1>2. SameView(s, t) BY <1>1 DEF SameView, Queued
<1>3. Lists(s, v, p, mode) BY DEF J
<1>4. Attrs(t, v, p) BY <1>1, <1>3 DEF Lists, Attrs, Queued, Waiting, Done
<1>5. Maps(t) BY <1>1, <1>3 DEF Lists, Maps
<1>6. \A d \in Dma : Read(s, d) => s.ro[d].listed BY <1>3 DEF Lists, Entries, Read
<1>7. Entries(t) BY <1>1, <1>3, <1>6 DEF Lists, Entries
<1>8. Eligibles(t, mode) BY <1>1, <1>3 DEF Lists, Eligibles
<1>9. Seconds(t, v, n, r) BY <1>1 DEF J, Seconds
<1> QED BY <1>2, <1>4, <1>5, <1>7, <1>8, <1>9, ViewStep DEF Lists, t

LEMMA NoLongerReadDoes ==
  ASSUME NEW s, Good(s), NEW d \in Dma
  PROVE  LET t == NoLongerRead(s, d) IN
         /\ t.buf = s.buf
         /\ \A e \in Dma \ {d} : t.ro[e] = s.ro[e]
         /\ t.ro[d].attr = s.ro[d].attr \ {"READ_ONLY"}
         /\ t.ro[d].listed = s.ro[d].listed /\ t.ro[d].ref = s.ro[d].ref
         /\ t.ro[d].map = s.ro[d].map
<1> DEFINE a == s.ro[d].attr \ {"READ_ONLY"}
           e == [s.ro[d] EXCEPT !.attr = a]
           t == NoLongerRead(s, d)
<1>1. a \in SUBSET RoAttributes BY DEF Good, Shape, RoEntry
<1>2. t = [s EXCEPT !.ro[d].attr = a] BY DEF NoLongerRead
<1> HIDE DEF a, t
<1>3. /\ e.attr = a /\ e.ref = s.ro[d].ref /\ e.listed = s.ro[d].listed /\ e.map = s.ro[d].map
  BY DEF Good, Shape, RoEntry
<1>4. Is(t, s.buf, [s.ro EXCEPT ![d] = e], s.tracker) BY <1>1, <1>2, WithEntryAttr DEF Good
<1> HIDE DEF e
<1>5. t.buf = s.buf /\ t.ro[d] = e /\ \A g \in Dma \ {d} : t.ro[g] = s.ro[g]
  BY <1>4 DEF Is, Good, Shape
<1> QED BY <1>3, <1>5 DEF a, t

\* The firmware has let go of a buffer that it does not read, and whose
\* release is not pending.
LEMMA NoLongerReadStep ==
  ASSUME NEW s, Good(s), NEW v, NEW p, NEW mode, NEW c, NEW n, NEW f,
         NEW r \in SUBSET (Index \X Dma), J(s, v, p, mode, c, n, f, r), NEW d \in Dma,
         ~Pending(s, d), d \notin ReadBy(r), mode = "input" => ~Read(s, d)
  PROVE  J(NoLongerRead(s, d), v, p, mode, c, n, f, r)
<1> DEFINE t == NoLongerRead(s, d)
<1>1. /\ t.buf = s.buf
      /\ \A e \in Dma \ {d} : t.ro[e] = s.ro[e]
      /\ t.ro[d].attr = s.ro[d].attr \ {"READ_ONLY"}
      /\ t.ro[d].listed = s.ro[d].listed /\ t.ro[d].ref = s.ro[d].ref
      /\ t.ro[d].map = s.ro[d].map
  BY NoLongerReadDoes
<1> HIDE DEF t
<1>2. /\ \A e \in Dma : Pending(t, e) <=> Pending(s, e)
      /\ \A e \in Dma \ {d} : Read(t, e) <=> Read(s, e)
      /\ ~Read(t, d)
  BY <1>1 DEF Read, Pending
<1>3. /\ \A i \in Index, e \in Dma : Placed(t, i, e) <=> Placed(s, i, e)
      /\ \A i \in Index : Queued(t, i) <=> Queued(s, i)
      /\ \A e \in Dma : OnItsWay(t, e) <=> OnItsWay(s, e)
  BY <1>1 DEF Placed, Queued, OnItsWay
<1>4. Lists(t, v, p, mode)
  <2>1. Lists(s, v, p, mode) BY DEF J
  <2>2. Attrs(t, v, p) BY <1>1, <2>1 DEF Lists, Attrs, Queued, Waiting, Done
  <2>3. Maps(t) BY <1>1, <2>1 DEF Lists, Maps
  <2>4. Entries(t) BY <1>1, <2>1 DEF Lists, Entries
  <2>5. Eligibles(t, mode) BY <1>1, <1>2, <2>1 DEF Lists, Eligibles
  <2> QED BY <2>2, <2>3, <2>4, <2>5 DEF Lists
<1>5. Places(t, c, n, f)
  BY <1>3 DEF J, Places, FtbsPlaced, QueuedPlaced, FramesPlaced, Somewhere
<1>6. Stops(t, p, c, n, f) BY <1>3 DEF J, Stops
<1>7. Releasing(t, c, n, f)
  <2>1. ReleasesSent(t, c, n, f) BY <1>2 DEF J, Releasing, ReleasesSent
  <2>2. ReleasesAnswered(t, n) BY <1>2 DEF J, Releasing, ReleasesAnswered
  <2>3. ReleasesPending(t, c, n) BY <1>2 DEF J, Releasing, ReleasesPending
  <2>4. Flagged(t) BY <1>2, <1>3 DEF J, Releasing, Flagged
  <2> QED BY <2>1, <2>2, <2>3, <2>4 DEF Releasing
<1>8. Seconds(t, v, n, r) BY <1>1 DEF J, Seconds
<1>9. Reads(t, c, n, r)
  <2>1. Reads(s, c, n, r) /\ ReadBy(r) \subseteq Dma BY DEF J, ReadBy
  <2> QED BY <1>2, <1>3, <2>1 DEF Reads
<1> QED BY <1>4, <1>5, <1>6, <1>7, <1>8, <1>9 DEF J, t

LEMMA AddReadOnlyDoes ==
  ASSUME NEW s, Good(s), NEW i \in Index, s.buf[i].dma \in Dma, Entries(s)
  PROVE  LET t == AddReadOnly(s, i)
             d == s.buf[i].dma IN
         /\ \A j \in Index : /\ t.buf[j].attr = s.buf[j].attr /\ t.buf[j].dma = s.buf[j].dma
                             /\ t.buf[j].map = s.buf[j].map
         /\ \A j \in Index \ {i} : t.buf[j] = s.buf[j]
         /\ \A e \in Dma \ {d} : t.ro[e] = s.ro[e]
         /\ t.ro[d].listed /\ t.ro[d].attr = s.ro[d].attr \cup {"READ_ONLY"}
         /\ s.buf[i].ref => t.ro[d].ref
<1> DEFINE d == s.buf[i].dma
           t == AddReadOnly(s, i)
<1>1. CASE s.ro[d].listed
  <2> DEFINE a == s.ro[d].attr \cup {"READ_ONLY"}
             e == [s.ro[d] EXCEPT !.attr = a]
  <2>1. a \in SUBSET RoAttributes BY DEF Good, Shape, RoEntry, RoAttributes
  <2>2. t = [s EXCEPT !.ro[d].attr = a] BY <1>1 DEF AddReadOnly
  <2>3. d \in Dma OBVIOUS
  <2> HIDE DEF a, d, t
  <2>4. e.attr = a /\ e.ref = s.ro[d].ref /\ e.listed = s.ro[d].listed
    BY <2>3 DEF Good, Shape, RoEntry
  <2>5. Is(t, s.buf, [s.ro EXCEPT ![d] = e], s.tracker)
    BY <2>1, <2>2, <2>3, WithEntryAttr DEF Good
  <2> HIDE DEF e
  <2>6. t.buf = s.buf /\ t.ro[d] = e /\ \A g \in Dma \ {d} : t.ro[g] = s.ro[g]
    BY <2>3, <2>5 DEF Is, Good, Shape
  <2>7. s.ro[d].ref BY <1>1, <2>3 DEF Entries
  <2> QED BY <1>1, <2>4, <2>6, <2>7 DEF a, d, t
<1>2. CASE ~s.ro[d].listed
  <2> DEFINE e == [listed |-> TRUE, attr |-> {"READ_ONLY"}, ref |-> s.buf[i].ref,
                   map |-> FALSE]
             b == [s.buf[i] EXCEPT !.ref = FALSE]
  <2>1. t = [s EXCEPT !.ro[d] = e, !.buf[i] = b] BY <1>2 DEF AddReadOnly
  <2>2. e \in RoEntry /\ e.ref = s.buf[i].ref /\ e.listed /\ e.attr = {"READ_ONLY"}
    BY DEF Good, Shape, RoEntry, RoAttributes, Buffer
  <2>3. b \in Buffer /\ b.attr = s.buf[i].attr /\ b.dma = d /\ b.map = s.buf[i].map
    BY DEF Good, Shape, Buffer
  <2>4. d \in Dma OBVIOUS
  <2>5. s.ro[d].attr = {} BY <1>2, <2>4 DEF Entries
  <2> HIDE DEF e, b, d, t
  <2>6. Is(t, [s.buf EXCEPT ![i] = b], [s.ro EXCEPT ![d] = e], s.tracker)
    BY <2>1, <2>2, <2>3, <2>4, WithItemEntry DEF Good
  <2>7. /\ t.buf[i] = b /\ \A j \in Index \ {i} : t.buf[j] = s.buf[j]
        /\ t.ro[d] = e /\ \A g \in Dma \ {d} : t.ro[g] = s.ro[g]
    BY <2>4, <2>6 DEF Is, Good, Shape
  <2> QED BY <2>2, <2>3, <2>5, <2>7 DEF d, t
<1> QED BY <1>1, <1>2

\* The lists q after the buffer of a frame is returned.
ReturnIs(s, i, m, q) ==
  LET d == s.buf[i].dma IN
  /\ \A j \in Index : q.buf[j].dma = s.buf[j].dma /\ q.buf[j].map = s.buf[j].map
  /\ \A j \in Index \ {i} : q.buf[j] = s.buf[j]
  /\ ~Queued(q, i) /\ (Waiting(q, i) <=> Waiting(s, i))
  /\ \A e \in Dma \ {d} : q.ro[e] = s.ro[e]
  /\ ~m.ro => q.ro[d] = s.ro[d]
  /\ m.ro => /\ q.ro[d].listed /\ q.ro[d].attr = s.ro[d].attr \cup {"READ_ONLY"}
             /\ s.buf[i].ref => q.ro[d].ref

LEMMA ReturnDoes ==
  ASSUME NEW s, Good(s), NEW i \in Index, s.buf[i].dma \in Dma, Entries(s), NEW m
  PROVE  ReturnIs(s, i, m, Return(s, i, m))
<1> DEFINE d == s.buf[i].dma
           t == IF m.ro THEN AddReadOnly(s, i) ELSE s
           put == IF t.buf[i].ref THEN {t.buf[i].dma} ELSE {}
           flag == IF m.ro THEN {"READ_ONLY"} ELSE {}
           attr == (t.buf[i].attr \ {"QUEUED", "READ_ONLY"}) \cup {"BUFFER_DONE"} \cup flag
           b == [t.buf[i] EXCEPT !.attr = attr, !.ref = FALSE]
           n == Put(t.tracker, put)
           q == Return(s, i, m)
<1>1. q = [t EXCEPT !.buf[i] = b, !.tracker = n] BY DEF Return
<1>2. Good(t) BY AddReadOnlyKeeps
<1>3. /\ \A j \in Index : /\ t.buf[j].attr = s.buf[j].attr /\ t.buf[j].dma = s.buf[j].dma
                          /\ t.buf[j].map = s.buf[j].map
      /\ \A j \in Index \ {i} : t.buf[j] = s.buf[j]
      /\ \A e \in Dma \ {d} : t.ro[e] = s.ro[e]
      /\ ~m.ro => t.ro[d] = s.ro[d]
      /\ m.ro => /\ t.ro[d].listed /\ t.ro[d].attr = s.ro[d].attr \cup {"READ_ONLY"}
                 /\ s.buf[i].ref => t.ro[d].ref
  <2>1. CASE m.ro BY <2>1, AddReadOnlyDoes
  <2>2. CASE ~m.ro BY <2>2
  <2> QED BY <2>1, <2>2
<1> HIDE DEF t, q
<1>4. flag \in SUBSET {"READ_ONLY"} OBVIOUS
<1> HIDE DEF flag
<1>5. /\ attr \in SUBSET Attributes /\ "QUEUED" \notin attr
      /\ "DEFERRED" \in attr <=> "DEFERRED" \in s.buf[i].attr
  BY <1>2, <1>3, <1>4 DEF Good, Shape, Buffer, Attributes
<1> HIDE DEF attr
<1>6. b \in Buffer /\ b.attr = attr /\ b.dma = t.buf[i].dma /\ b.map = t.buf[i].map
  <2>1. t.buf[i] \in Buffer BY <1>2 DEF Good, Shape
  <2> QED BY <1>5, <2>1 DEF Buffer
<1>7. n \in [Dma -> Int] BY <1>2 DEF Put, Good, Shape
<1> HIDE DEF b, n
<1>8. Is(q, [t.buf EXCEPT ![i] = b], t.ro, n)
  BY <1>1, <1>2, <1>6, <1>7, WithItemTracker DEF Good
<1>9. q.buf[i] = b /\ (\A j \in Index \ {i} : q.buf[j] = t.buf[j]) /\ q.ro = t.ro
  BY <1>2, <1>8 DEF Is, Good, Shape
<1> HIDE DEF d
<1>10. /\ \A j \in Index : q.buf[j].dma = s.buf[j].dma /\ q.buf[j].map = s.buf[j].map
       /\ \A j \in Index \ {i} : q.buf[j] = s.buf[j]
  BY <1>3, <1>6, <1>9
<1>11. ~Queued(q, i) /\ (Waiting(q, i) <=> Waiting(s, i))
  BY <1>5, <1>6, <1>9 DEF Queued, Waiting
<1> QED BY <1>3, <1>9, <1>10, <1>11 DEF q, d, ReturnIs

\* What is known of a frame that is next.
LEMMA NextFrame ==
  ASSUME NEW s, NEW v, NEW p, NEW mode, NEW c, NEW n, NEW f, NEW r \in SUBSET (Index \X Dma),
         J(s, v, p, mode, c, n, f, r), 1 \in 1..Len(n),
         n[1].type = "frame", n[1].i \in Index, n[1].d \in Dma
  PROVE  /\ ~Pending(s, n[1].d)
         /\ ~n[1].again => /\ Placed(s, n[1].i, n[1].d)
                           /\ ~Read(s, n[1].d)
                           /\ n[1].d \in ReadBy(r) => n[1].ro
         /\ n[1].again => /\ mode = "none" /\ n[1].d \notin ReadBy(r)
                          /\ \A i \in Index : ~Placed(s, i, n[1].d)
<1> DEFINE m == n[1]
           d == n[1].d
<1>1. m.again => Second(m, d) BY DEF Second
<1>2. ~m.again => IsFrame(n[1], m.i, d) BY DEF IsFrame
<1>3. m.again => mode = "none" BY <1>1 DEF J, Modes
<1>4. ASSUME Pending(s, d) PROVE FALSE
  <2>1. \/ \E k \in 1..Len(c) : IsRelease(c[k], d)
        \/ \E k \in 1..Len(n) : IsReleased(n[k], d)
    BY <1>4 DEF J, Releasing, ReleasesPending
  <2>2. CASE m.again
    <3>1. /\ \A k \in 1..Len(c) : c[k].type # "release"
          /\ \A k \in 1..Len(n) : n[k].type # "release_done"
      BY <1>3, <2>2 DEF J, Modes
    <3> QED BY <2>1, <3>1 DEF IsRelease, IsReleased
  <2>3. CASE ~m.again
    <3>1. ASSUME NEW k \in 1..Len(c), IsRelease(c[k], d) PROVE FALSE
      BY <1>2, <2>3, <3>1 DEF J, Releasing, ReleasesSent
    <3>2. ASSUME NEW k \in 1..Len(n), IsReleased(n[k], d) PROVE FALSE
      <4>1. 1 > k BY <1>2, <2>3, <3>2 DEF J, Releasing, ReleasesAnswered
      <4> QED BY <4>1
    <3> QED BY <2>1, <3>1, <3>2
  <2> QED BY <2>2, <2>3
<1>5. ASSUME ~m.again
      PROVE  Placed(s, m.i, d) /\ ~Read(s, d) /\ (d \in ReadBy(r) => m.ro)
  <2>1. Placed(s, m.i, d) BY <1>2, <1>5 DEF J, Places, FramesPlaced
  <2>2. Flagged(s) /\ Reads(s, c, n, r) BY DEF J, Releasing
  <2>3. ~Read(s, d) BY <1>4, <2>1, <2>2 DEF Flagged
  <2>4. d \in ReadBy(r) => m.ro BY <1>2, <1>5, <2>2 DEF Reads
  <2> QED BY <2>1, <2>3, <2>4
<1>6. ASSUME m.again
      PROVE  d \notin ReadBy(r) /\ \A i \in Index : ~Placed(s, i, d)
  <2>1. d \notin ReadBy(r) /\ \A i \in Index : s.buf[i].dma = d => v[i] = "client"
    BY <1>1, <1>6 DEF J, Seconds
  <2>2. \A i \in Index : Queued(s, i) => v[i] = "driver" BY DEF J, Lists, Attrs
  <2> QED BY <2>1, <2>2 DEF Placed
<1> QED BY <1>3, <1>4, <1>5, <1>6

\* A frame that comes the second time finds no queued buffer.
LEMMA SecondIsHandled ==
  ASSUME NEW s, NEW v, NEW p, NEW mode, NEW c, NEW n, NEW f, NEW r \in SUBSET (Index \X Dma),
         J(s, v, p, mode, c, n, f, r), NEW t, Shifted(n, t),
         n[1].type = "frame", n[1].again
  PROVE  J(s, v, p, mode, c, t, f, r)
<1>1. \A i, d : ~IsFrame(n[1], i, d) /\ ~IsReleased(n[1], d) BY DEF IsFrame, IsReleased
<1>2. Handled(s, s, n[1], r) BY <1>1 DEF Handled
<1>3. Places(s, c, t, f) /\ Releasing(s, c, t, f) /\ Modes(mode, c, t) /\ Reads(s, c, t, r)
  BY <1>2, ShiftKeeps
<1>4. Stops(s, p, c, t, f)
  <2>1. ~IsStopDone(n[1]) BY DEF IsStopDone
  <2> QED BY <2>1, ShiftStops DEF J
<1>5. Seconds(s, v, t, r) BY ShiftSeconds DEF J
<1> QED BY <1>3, <1>4, <1>5 DEF J

\* A frame that comes the first time returns the buffer it is in.
LEMMA ReturnStep ==
  ASSUME NEW s, Good(s), NEW v, NEW p, NEW mode, NEW c, NEW n, NEW f,
         NEW r \in SUBSET (Index \X Dma), J(s, v, p, mode, c, n, f, r),
         NEW t, Shifted(n, t), n[1].type = "frame", ~n[1].again,
         NEW i \in Index, NEW d \in Dma, n[1].i = i, n[1].d = d,
         NEW w, w[i] = "client", \A j \in Index \ {i} : w[j] = v[j]
  PROVE  J(Return(s, i, n[1]), w, p, mode, c, t, f, r)
<1> DEFINE m == n[1]
           q == Return(s, i, m)
<1>1. 1 \in 1..Len(n) BY ShiftedPlaces
<1>2. ~Pending(s, d) /\ Placed(s, i, d) /\ (d \in ReadBy(r) => m.ro) BY <1>1, NextFrame
<1>3. s.buf[i].dma = d /\ Queued(s, i) BY <1>2 DEF Placed
<1>4. Attrs(s, v, p) /\ Maps(s) /\ Entries(s) /\ Eligibles(s, mode) BY DEF J, Lists
<1>5. s.buf[i].ref /\ ~Waiting(s, i) BY <1>3, <1>4 DEF Attrs
<1>6. /\ \A j \in Index : q.buf[j].dma = s.buf[j].dma /\ q.buf[j].map = s.buf[j].map
      /\ \A j \in Index \ {i} : q.buf[j] = s.buf[j]
      /\ ~Queued(q, i) /\ ~Waiting(q, i)
      /\ \A e \in Dma \ {d} : q.ro[e] = s.ro[e]
      /\ ~m.ro => q.ro[d] = s.ro[d]
      /\ m.ro => q.ro[d].listed /\ q.ro[d].attr = s.ro[d].attr \cup {"READ_ONLY"} /\ q.ro[d].ref
  <2>1. ReturnIs(s, i, m, q) BY <1>3, <1>4, ReturnDoes
  <2> HIDE DEF q, m
  <2> QED BY <1>3, <1>5, <2>1 DEF ReturnIs
<1>7. /\ \A j, e : IsFrame(m, j, e) <=> j = i /\ e = d
      /\ \A e : ~IsReleased(m, e)
      /\ ~IsStopDone(m)
  BY DEF IsFrame, IsReleased, IsStopDone
<1> HIDE DEF q, m
<1>8. /\ \A j \in Index \ {i} : /\ Queued(q, j) <=> Queued(s, j)
                                /\ Waiting(q, j) <=> Waiting(s, j)
                                /\ Done(q, j) <=> Done(s, j)
      /\ \A e \in Dma : Pending(q, e) <=> Pending(s, e)
      /\ \A e \in Dma \ {d} : Read(q, e) <=> Read(s, e)
      /\ Read(s, d) => Read(q, d)
      /\ m.ro => Read(q, d)
  BY <1>6 DEF Queued, Waiting, Done, Pending, Read
<1>9. \A j \in Index, e \in Dma : Placed(q, j, e) <=> Placed(s, j, e) /\ ~IsFrame(m, j, e)
  BY <1>3, <1>6, <1>7, <1>8 DEF Placed
<1>10. \A j \in Index : ~Placed(q, j, d)
  <2>1. \A j \in Index \ {i} : s.buf[j].dma # d
    BY <1>3, SizesAssumption DEF Good, Apart
  <2> QED BY <1>6, <2>1 DEF Placed
<1>11. Handled(s, q, m, r)
  BY <1>2, <1>6, <1>7, <1>8, <1>9, <1>10 DEF Handled
<1>12. Places(q, c, t, f) /\ Releasing(q, c, t, f) /\ Modes(mode, c, t) /\ Reads(q, c, t, r)
  BY <1>11, ShiftKeeps DEF m
<1>13. Stops(q, p, c, t, f)
  <2>1. \A j \in Index : Queued(q, j) => Queued(s, j) BY <1>6, <1>8
  <2> QED BY <1>7, <2>1, ShiftStops DEF J, m
<1>14. Seconds(q, w, t, r)
  <2>1. \A j \in Index : v[j] = "client" => w[j] = "client" OBVIOUS
  <2> QED BY <1>6, <2>1, ShiftSeconds DEF J
<1>15. Attrs(q, w, p) BY <1>4, <1>6, <1>8 DEF Attrs
<1>16. Maps(q) BY <1>3, <1>4, <1>6 DEF Maps
<1>17. Entries(q) BY <1>4, <1>6 DEF Entries
<1>18. Eligibles(q, mode)
  <2> SUFFICES ASSUME mode = "input", NEW e \in Dma, "RELEASE_ELIGIBLE" \in q.ro[e].attr
               PROVE  Read(q, e) /\ ~Pending(q, e)
    BY DEF Eligibles
  <2>1. CASE e # d BY <1>4, <1>6, <1>8, <2>1 DEF Eligibles
  <2>2. CASE e = d /\ m.ro BY <1>2, <1>8, <2>2
  <2>3. CASE e = d /\ ~m.ro BY <1>4, <1>6, <1>8, <2>3 DEF Eligibles
  <2> QED BY <2>1, <2>2, <2>3
<1> QED BY <1>12, <1>13, <1>14, <1>15, <1>16, <1>17, <1>18 DEF J, Lists, q, m

LEMMA HandleFrameHolds == ASSUME IInv, JInv, HandleFrame PROVE JInv'
<1> DEFINE m == Head(msgs)
           l == IF dpb.mode = "none" THEN drv ELSE MarkEligible(drv, m.list)
           s == IF m.ro THEN l ELSE NoLongerRead(l, m.d)
           hit == {i \in Index : Matches(s, i, m)}
<1>1. msgs # << >> /\ m.type = "frame" /\ msgs' = Tail(msgs) /\ msgs \in Seq(Message)
  BY DEF HandleFrame, Handles, IInv, Rest
<1>2. m = msgs[1] /\ Shifted(msgs, msgs') /\ 1 \in 1..Len(msgs)
  BY <1>1, TailShifts, ShiftedPlaces
<1>3. m.i \in Index /\ m.d \in Dma /\ m.list \in SUBSET Dma
  <2>1. m \in Message BY <1>1
  <2> QED BY <1>1, <2>1, FrameType
<1>4. /\ IF hit = {} THEN drv' = s /\ vb2' = vb2
         ELSE \E i \in hit :
                /\ drv' = Return(s, i, m)
                /\ vb2' = IF Has(s, i, "BUFFER_DONE") \/ vb2[i] # "driver"
                          THEN vb2 ELSE [vb2 EXCEPT ![i] = "client"]
      /\ dpb' = IF dpb.mode = "none" THEN dpb ELSE [dpb EXCEPT !.list = m.list]
      /\ UNCHANGED <<port, cmds, fw, failed>>
  BY DEF HandleFrame
<1>5. K(drv, vb2, port, cmds, msgs) BY DEF JInv, K
<1>6. Good(l) /\ K(l, vb2, port, cmds, msgs)
  <2>1. CASE dpb.mode = "none" BY <1>5, <2>1, KDef
  <2>2. CASE dpb.mode # "none"
    <3>1. l = MarkEligible(drv, m.list) BY <2>2
    <3>2. Good(MarkEligible(drv, m.list)) BY KDef, MarkEligibleKeeps
    <3>3. K(MarkEligible(drv, m.list), vb2, port, cmds, msgs) BY <1>5, KDef, MarkStep DEF K
    <3> QED BY <3>1, <3>2, <3>3
  <2> QED BY <2>1, <2>2
<1> HIDE DEF l
<1>7. /\ ~Pending(l, m.d)
      /\ ~m.again => ~Read(l, m.d) /\ (m.d \in ReadBy(fw.refs) => m.ro)
      /\ m.again => dpb.mode = "none" /\ m.d \notin ReadBy(fw.refs)
  BY <1>1, <1>2, <1>3, <1>6, KDef, NextFrame DEF K
<1> HIDE DEF m
<1>8. Good(s) /\ K(s, vb2, port, cmds, msgs)
  <2>1. CASE m.ro BY <1>6, <2>1
  <2>2. CASE ~m.ro
    <3>1. s = NoLongerRead(l, m.d) BY <2>2
    <3>2. Good(NoLongerRead(l, m.d)) BY <1>3, <1>6, NoLongerReadKeeps
    <3>3. m.d \notin ReadBy(fw.refs) /\ (dpb.mode = "input" => ~Read(l, m.d))
      BY <1>7, <2>2
    <3>4. K(NoLongerRead(l, m.d), vb2, port, cmds, msgs)
      BY <1>3, <1>6, <1>7, <3>3, KDef, NoLongerReadStep DEF K
    <3> QED BY <3>1, <3>2, <3>4
  <2> QED BY <2>1, <2>2
<1> HIDE DEF s
<1>9. dpb'.mode = dpb.mode /\ failed' = "no" BY <1>4 DEF IInv, Rest, JInv
<1>10. \A i : Matches(s, i, m) <=> i = m.i /\ Queued(s, i) /\ s.buf[i].dma = m.d
  BY DEF Matches, Has, Queued
<1>11. /\ ~m.again => Placed(s, m.i, m.d)
       /\ m.again => \A i \in Index : ~Placed(s, i, m.d)
  BY <1>1, <1>2, <1>3, <1>8, KDef, NextFrame DEF K
<1>12. ~m.again <=> m.i \in hit BY <1>3, <1>10, <1>11 DEF Placed
<1>13. \A i \in hit : i = m.i BY <1>10
<1> HIDE DEF hit
<1>14. CASE m.again
  <2>1. drv' = s /\ vb2' = vb2 BY <1>4, <1>12, <1>13, <1>14
  <2>2. K(s, vb2, port, cmds, msgs') BY <1>1, <1>2, <1>8, <1>14, KDef, SecondIsHandled DEF K
  <2> QED BY <1>4, <1>9, <2>1, <2>2, JAfter DEF K
<1>15. CASE ~m.again
  <2> DEFINE i == m.i
  <2>1. /\ drv' = Return(s, i, m)
        /\ vb2' = IF Has(s, i, "BUFFER_DONE") \/ vb2[i] # "driver"
                  THEN vb2 ELSE [vb2 EXCEPT ![i] = "client"]
    BY <1>4, <1>12, <1>13, <1>15
  <2>2. Attrs(s, vb2, port) /\ Queued(s, i) BY <1>8, <1>11, <1>15 DEF K, J, Lists, Placed
  <2>3. ~Has(s, i, "BUFFER_DONE") /\ vb2[i] = "driver" BY <1>3, <2>2 DEF Attrs, Done, Has
  <2>4. vb2' = [vb2 EXCEPT ![i] = "client"] BY <2>1, <2>3
  <2>5. vb2'[i] = "client" /\ \A j \in Index \ {i} : vb2'[j] = vb2[j]
    BY <1>3, <2>4 DEF IInv, Owners
  <2>6. K(Return(s, i, m), vb2', port, cmds, msgs')
    BY <1>1, <1>2, <1>3, <1>8, <1>15, <2>5, KDef, ReturnStep DEF K
  <2> QED BY <1>4, <1>9, <2>1, <2>6, JAfter DEF K
<1> QED BY <1>14, <1>15

LEMMA HandleReleaseDoneHolds == ASSUME IInv, JInv, HandleReleaseDone PROVE JInv'
<1> DEFINE m == msgs[1]
           D == msgs[1].bufs
           known == {d \in D : RoHas(drv, d, "PENDING_RELEASE")}
           over(d) == [drv.ro[d] EXCEPT !.attr = @ \ {"READ_ONLY", "PENDING_RELEASE"}]
           r == [d \in Dma |-> IF d \in known THEN over(d) ELSE drv.ro[d]]
<1>1. msgs # << >> /\ Head(msgs).type = "release_done" /\ msgs' = Tail(msgs)
      /\ msgs \in Seq(Message)
  BY DEF HandleReleaseDone, Handles, IInv, Rest
<1>2. Head(msgs) = m /\ Shifted(msgs, msgs') /\ 1 \in 1..Len(msgs)
  BY <1>1, TailShifts, ShiftedPlaces
<1>3. D \in SUBSET Dma /\ m.type = "release_done"
  <2>1. m \in Message BY <1>1, <1>2
  <2> QED BY <1>1, <1>2, <2>1 DEF Message, Frame
<1>4. /\ drv' = [drv EXCEPT !.ro = r] /\ failed' = IF known = D THEN "no" ELSE "release"
      /\ UNCHANGED <<vb2, port, dpb, cmds, fw>>
  BY <1>2 DEF HandleReleaseDone
<1>5. K(drv, vb2, port, cmds, msgs) /\ Good(drv) BY KDef DEF JInv, K
<1>6. \A d \in Dma : IsReleased(m, d) <=> d \in D BY <1>3 DEF IsReleased
<1>7. \A d \in D : Pending(drv, d)
  BY <1>2, <1>3, <1>5, <1>6 DEF K, J, Releasing, ReleasesAnswered
<1>8. known = D BY <1>7 DEF Pending, RoHas
<1>9. \A d \in Dma : /\ over(d) \in RoEntry
                     /\ over(d).attr = drv.ro[d].attr \ {"READ_ONLY", "PENDING_RELEASE"}
                     /\ over(d).listed = drv.ro[d].listed /\ over(d).ref = drv.ro[d].ref
                     /\ over(d).map = drv.ro[d].map
  BY <1>5 DEF Good, Shape, RoEntry
<1> HIDE DEF over, known, m
<1>10. r \in [Dma -> RoEntry] /\ \A d \in Dma : r[d] = IF d \in D THEN over(d) ELSE drv.ro[d]
  BY <1>5, <1>8, <1>9 DEF Good, Shape
<1> HIDE DEF r, D
<1>11. drv'.buf = drv.buf /\ drv'.ro = r BY <1>4, <1>5, <1>10, WithRo DEF Good, Is
<1>12. /\ \A d \in Dma : Pending(drv', d) <=> Pending(drv, d) /\ d \notin D
       /\ \A d \in Dma : Read(drv', d) <=> Read(drv, d) /\ d \notin D
  BY <1>9, <1>10, <1>11 DEF Pending, Read
<1>13. /\ \A i \in Index, d \in Dma : Placed(drv', i, d) <=> Placed(drv, i, d)
       /\ \A i \in Index : Queued(drv', i) <=> Queued(drv, i)
  BY <1>11 DEF Placed, Queued
<1>14. \A i, d : ~IsFrame(m, i, d) BY <1>3 DEF IsFrame
<1>15. Handled(drv, drv', m, fw.refs) BY <1>6, <1>12, <1>13, <1>14 DEF Handled
<1>16. /\ Places(drv', cmds, msgs', fw.queued) /\ Releasing(drv', cmds, msgs', fw.queued)
       /\ Modes(dpb.mode, cmds, msgs') /\ Reads(drv', cmds, msgs', fw.refs)
  BY <1>2, <1>5, <1>15, KDef, ShiftKeeps DEF K, m
<1>17. Stops(drv', port, cmds, msgs', fw.queued)
  <2>1. ~IsStopDone(m) BY <1>3 DEF IsStopDone
  <2> QED BY <1>2, <1>5, <1>13, <2>1, ShiftStops DEF K, J, m
<1>18. Seconds(drv', vb2, msgs', fw.refs) BY <1>2, <1>5, <1>11, ShiftSeconds DEF K, J
<1>19. Lists(drv', vb2, port, dpb.mode)
  <2>1. Lists(drv, vb2, port, dpb.mode) BY <1>5 DEF K, J
  <2>2. Attrs(drv', vb2, port) BY <1>11, <2>1 DEF Lists, Attrs, Queued, Waiting, Done
  <2>3. Maps(drv') BY <1>9, <1>10, <1>11, <2>1 DEF Lists, Maps
  <2>4. Entries(drv') BY <1>9, <1>10, <1>11, <2>1 DEF Lists, Entries
  <2>5. Eligibles(drv', dpb.mode)
    BY <1>7, <1>9, <1>10, <1>11, <1>12, <2>1 DEF Lists, Eligibles
  <2> QED BY <2>2, <2>3, <2>4, <2>5 DEF Lists
<1>20. K(drv', vb2, port, cmds, msgs')
  BY <1>5, <1>16, <1>17, <1>18, <1>19 DEF K, J
<1>21. failed' = "no" BY <1>4, <1>8
<1> QED BY <1>4, <1>20, <1>21, KAfter

\* The answer to a stop leaves nothing queued.
LEMMA StopStep ==
  ASSUME NEW s, NEW v, NEW mode, NEW c, NEW n, NEW f, NEW r \in SUBSET (Index \X Dma),
         J(s, v, "stopping", mode, c, n, f, r), NEW t, Shifted(n, t), IsStopDone(n[1]),
         \A i \in Index : Queued(s, i) => s.buf[i].dma \in Dma
  PROVE  J(s, v, "stopped", mode, c, t, f, r)
<1>1. /\ \A k \in 1..Len(t) : k + 1 \in 1..Len(n) /\ t[k] = n[k + 1] /\ k + 1 # 1 /\ k \in Nat
      /\ 1 \in 1..Len(n)
  BY ShiftedPlaces
<1>2. \A i, d : ~IsFrame(n[1], i, d) /\ ~IsReleased(n[1], d)
  BY DEF IsFrame, IsReleased, IsStopDone
<1>3. Handled(s, s, n[1], r) BY <1>2 DEF Handled
<1>4. Places(s, c, t, f) /\ Releasing(s, c, t, f) /\ Modes(mode, c, t) /\ Reads(s, c, t, r)
  BY <1>3, ShiftKeeps
<1>5. StopAnswered(c, n, f) BY <1>1 DEF J, Stops, StopSent
<1>6. /\ \A l \in 1..Len(n) : IsStopDone(n[l]) => l = 1
      /\ \A l \in 1..Len(n) : l > 1 => NoFrame(n[l])
  BY <1>1, <1>5 DEF StopAnswered
<1>7. NoStop(c, t) BY <1>1, <1>5, <1>6 DEF StopAnswered, NoStop
<1>8. ASSUME NEW i \in Index, Queued(s, i) PROVE FALSE
  <2>1. PICK d \in Dma : Placed(s, i, d) BY <1>8 DEF Placed
  <2>2. \A k \in 1..Len(c) : ~IsFtb(c[k], i, d) BY <1>5 DEF StopAnswered, NoFtb, IsFtb
  <2>3. <<i, d>> \notin f BY <1>5 DEF StopAnswered
  <2>4. ASSUME NEW k \in 1..Len(n), IsFrame(n[k], i, d) PROVE FALSE
    <3>1. k = 1 \/ k > 1 OBVIOUS
    <3>2. ~NoFrame(n[k]) BY <2>4 DEF IsFrame, NoFrame
    <3> QED BY <1>2, <1>6, <2>4, <3>1, <3>2
  <2> QED BY <2>1, <2>2, <2>3, <2>4 DEF J, Places, Somewhere
<1>9. Stops(s, "stopped", c, t, f) BY <1>7, <1>8 DEF Stops
<1>10. Seconds(s, v, t, r) BY ShiftSeconds DEF J
<1>11. Lists(s, v, "stopped", mode) BY DEF J, Lists, Attrs
<1> QED BY <1>4, <1>9, <1>10, <1>11 DEF J

LEMMA HandleStopDoneHolds == ASSUME IInv, JInv, HandleStopDone PROVE JInv'
<1>1. /\ port = "stopping" /\ port' = "stopped" /\ msgs' = Tail(msgs)
      /\ UNCHANGED <<drv, vb2, dpb, cmds, fw, failed>>
      /\ msgs # << >> /\ Head(msgs).type = "stop_done" /\ msgs \in Seq(Message)
  BY DEF HandleStopDone, Handles, IInv, Rest
<1>2. Head(msgs) = msgs[1] /\ Shifted(msgs, msgs') BY <1>1, TailShifts
<1>3. K(drv, vb2, "stopping", cmds, msgs) BY <1>1 DEF JInv, K
<1>4. \A i \in Index : Queued(drv, i) => drv.buf[i].dma \in Dma
  BY <1>1 DEF IInv, Owners, Busy, Queued
<1>5. IsStopDone(msgs[1]) BY <1>1, <1>2 DEF IsStopDone
<1>6. K(drv, vb2, "stopped", cmds, msgs') BY <1>2, <1>3, <1>4, <1>5, KDef, StopStep DEF K
<1>7. failed' = "no" BY <1>1 DEF JInv
<1> QED BY <1>1, <1>6, <1>7, KAfter

-----------------------------------------------------------------------------
(* The steps of the firmware.                                              *)

\* A command that is neither a buffer nor a release is taken.
LEMMA OtherTaken ==
  ASSUME NEW s, NEW mode, NEW c, NEW n, NEW f, NEW r \in SUBSET (Index \X Dma),
         Places(s, c, n, f), Releasing(s, c, n, f), Modes(mode, c, n), Reads(s, c, n, r),
         Told(c, r), NEW t, Shifted(c, t), c[1].type \notin {"ftb", "release"}
  PROVE  /\ Places(s, t, n, f) /\ Releasing(s, t, n, f) /\ Modes(mode, t, n)
         /\ Reads(s, t, n, r) /\ Told(t, r)
<1>1. /\ \A k \in 1..Len(t) : k + 1 \in 1..Len(c) /\ t[k] = c[k + 1] /\ k + 1 # 1 /\ k \in Nat
      /\ \A k \in 1..Len(c) : k = 1 \/ (k - 1 \in 1..Len(t) /\ t[k - 1] = c[k] /\ k \in Int)
      /\ 1 \in 1..Len(c)
  BY ShiftedPlaces
<1>2. \A i, d : ~IsFtb(c[1], i, d) /\ ~IsRelease(c[1], d) BY DEF IsFtb, IsRelease
<1>3. Places(s, t, n, f)
  <2>1. ASSUME NEW k \in 1..Len(t), NEW i \in Index, NEW d \in Dma, IsFtb(t[k], i, d)
        PROVE  /\ Placed(s, i, d) /\ <<i, d>> \notin f
               /\ \A l \in 1..Len(t) : IsFtb(t[l], i, d) => l = k
               /\ \A l \in 1..Len(n) : ~IsFrame(n[l], i, d)
    <3>1. k + 1 \in 1..Len(c) /\ IsFtb(c[k + 1], i, d) /\ k \in Nat BY <1>1, <2>1
    <3>2. /\ Placed(s, i, d) /\ <<i, d>> \notin f
          /\ \A l \in 1..Len(c) : IsFtb(c[l], i, d) => l = k + 1
          /\ \A l \in 1..Len(n) : ~IsFrame(n[l], i, d)
      BY <3>1 DEF Places, FtbsPlaced
    <3>3. ASSUME NEW l \in 1..Len(t), IsFtb(t[l], i, d) PROVE l = k
      <4>1. l + 1 \in 1..Len(c) /\ IsFtb(c[l + 1], i, d) /\ l \in Nat BY <1>1, <3>3
      <4>2. l + 1 = k + 1 BY <3>2, <4>1
      <4> QED BY <3>1, <4>1, <4>2
    <3> QED BY <3>2, <3>3
  <2>2. ASSUME NEW i \in Index, NEW d \in Dma, Placed(s, i, d)
        PROVE  \/ \E k \in 1..Len(t) : IsFtb(t[k], i, d)
               \/ <<i, d>> \in f
               \/ \E k \in 1..Len(n) : IsFrame(n[k], i, d)
    <3>1. ASSUME NEW k \in 1..Len(c), IsFtb(c[k], i, d)
          PROVE  \E l \in 1..Len(t) : IsFtb(t[l], i, d)
      BY <1>1, <1>2, <3>1
    <3> QED BY <2>2, <3>1 DEF Places, Somewhere
  <2> QED BY <2>1, <2>2 DEF Places, FtbsPlaced, Somewhere
<1>4. \A d \in Dma, k \in 1..Len(c) : IsRelease(c[k], d) =>
        \E l \in 1..Len(t) : IsRelease(t[l], d)
  BY <1>1, <1>2
<1>5. Releasing(s, t, n, f)
  <2>1. ASSUME NEW k \in 1..Len(t), NEW d \in Dma, IsRelease(t[k], d)
        PROVE  /\ Pending(s, d) /\ Read(s, d)
               /\ \A l \in 1..Len(t) : IsRelease(t[l], d) => l = k
               /\ \A l \in 1..Len(n) : ~IsReleased(n[l], d)
               /\ \A i \in Index : <<i, d>> \notin f
               /\ \A i \in Index, l \in 1..Len(n) : ~IsFrame(n[l], i, d)
               /\ \A i \in Index, l \in 1..Len(t) : IsFtb(t[l], i, d) => l > k
    <3>1. k + 1 \in 1..Len(c) /\ IsRelease(c[k + 1], d) /\ k \in Nat BY <1>1, <2>1
    <3>2. /\ Pending(s, d) /\ Read(s, d)
          /\ \A l \in 1..Len(c) : IsRelease(c[l], d) => l = k + 1
          /\ \A l \in 1..Len(n) : ~IsReleased(n[l], d)
          /\ \A i \in Index : <<i, d>> \notin f
          /\ \A i \in Index, l \in 1..Len(n) : ~IsFrame(n[l], i, d)
          /\ \A i \in Index, l \in 1..Len(c) : IsFtb(c[l], i, d) => l > k + 1
      BY <3>1 DEF Releasing, ReleasesSent
    <3>3. ASSUME NEW l \in 1..Len(t), IsRelease(t[l], d) PROVE l = k
      <4>1. l + 1 \in 1..Len(c) /\ IsRelease(c[l + 1], d) /\ l \in Nat BY <1>1, <3>3
      <4>2. l + 1 = k + 1 BY <3>2, <4>1
      <4> QED BY <3>1, <4>1, <4>2
    <3>4. ASSUME NEW i \in Index, NEW l \in 1..Len(t), IsFtb(t[l], i, d) PROVE l > k
      <4>1. l + 1 \in 1..Len(c) /\ IsFtb(c[l + 1], i, d) /\ l \in Nat BY <1>1, <3>4
      <4>2. l + 1 > k + 1 BY <3>2, <4>1
      <4> QED BY <3>1, <4>1, <4>2
    <3> QED BY <3>2, <3>3, <3>4
  <2>2. ReleasesPending(s, t, n) BY <1>4 DEF Releasing, ReleasesPending
  <2> QED BY <2>1, <2>2 DEF Releasing, ReleasesSent
<1>6. Modes(mode, t, n)
  <2>1. CASE mode = "none" BY <1>1, <2>1 DEF Modes
  <2>2. CASE mode # "none" BY <2>2 DEF Modes
  <2> QED BY <2>1, <2>2
<1>7. Reads(s, t, n, r)
  <2>1. ReadBy(r) \subseteq Dma BY DEF ReadBy
  <2> QED BY <1>4, <2>1 DEF Reads
<1>8. Told(t, r)
  <2> SUFFICES ASSUME NEW k \in 1..Len(t), t[k].type = "ftb", NEW b \in t[k].bufs,
                      b.d \in ReadBy(r), ~b.ro
               PROVE  \E l \in 1..(k - 1) : IsRelease(t[l], b.d)
    BY DEF Told
  <2>1. k + 1 \in 1..Len(c) /\ t[k] = c[k + 1] /\ k \in Nat BY <1>1
  <2>2. PICK l \in 1..((k + 1) - 1) : IsRelease(c[l], b.d) BY <2>1 DEF Told
  <2>3. l # 1 BY <1>2, <2>2
  <2>4. l \in 1..Len(c) /\ l - 1 \in 1..(k - 1) BY <2>1, <2>2, <2>3
  <2>5. IsRelease(t[l - 1], b.d) BY <1>1, <2>2, <2>3, <2>4
  <2> QED BY <2>4, <2>5
<1> QED BY <1>3, <1>5, <1>6, <1>7, <1>8

\* A message is sent that returns no buffer and answers no release.
LEMMA OtherAnswered ==
  ASSUME NEW s, NEW c, NEW n, NEW f, NEW r \in SUBSET (Index \X Dma),
         Places(s, c, n, f), Releasing(s, c, n, f), Reads(s, c, n, r),
         NEW u, NEW m, Grown(n, u, m), m.type = "stop_done" \/ (m.type = "frame" /\ m.again)
  PROVE  Places(s, c, u, f) /\ Releasing(s, c, u, f) /\ Reads(s, c, u, r)
<1>1. \A i, d : ~IsFrame(m, i, d) /\ ~IsReleased(m, d) BY DEF IsFrame, IsReleased
<1>2. /\ \A k \in 1..Len(u) : \/ k \in 1..Len(n) /\ u[k] = n[k]
                              \/ k = Len(n) + 1 /\ u[k] = m /\ k \notin 1..Len(n)
      /\ \A k \in 1..Len(n) : k \in 1..Len(u) /\ u[k] = n[k]
  BY GrownPlaces
<1>3. Places(s, c, u, f)
  <2>1. FtbsPlaced(s, c, u, f) BY <1>1, <1>2 DEF Places, FtbsPlaced
  <2>2. QueuedPlaced(s, u, f) BY <1>1, <1>2 DEF Places, QueuedPlaced
  <2>3. FramesPlaced(s, u) BY <1>1, <1>2 DEF Places, FramesPlaced
  <2>4. Somewhere(s, c, u, f) BY <1>2 DEF Places, Somewhere
  <2> QED BY <2>1, <2>2, <2>3, <2>4 DEF Places
<1>4. Releasing(s, c, u, f)
  <2>1. ReleasesSent(s, c, u, f)
    <3> SUFFICES ASSUME NEW k \in 1..Len(c), NEW d \in Dma, IsRelease(c[k], d)
                 PROVE  /\ \A l \in 1..Len(u) : ~IsReleased(u[l], d)
                        /\ \A i \in Index, l \in 1..Len(u) : ~IsFrame(u[l], i, d)
      BY DEF Releasing, ReleasesSent
    <3>1. /\ \A l \in 1..Len(n) : ~IsReleased(n[l], d)
          /\ \A i \in Index, l \in 1..Len(n) : ~IsFrame(n[l], i, d)
      BY DEF Releasing, ReleasesSent
    <3> QED BY <1>1, <1>2, <3>1
  <2>2. ReleasesAnswered(s, u)
    <3> SUFFICES ASSUME NEW k \in 1..Len(u), NEW d \in Dma, IsReleased(u[k], d)
                 PROVE  /\ Pending(s, d) /\ Read(s, d)
                        /\ \A l \in 1..Len(u) : IsReleased(u[l], d) => l = k
                        /\ \A i \in Index, l \in 1..Len(u) : IsFrame(u[l], i, d) => l > k
      BY DEF ReleasesAnswered
    <3>1. k \in 1..Len(n) /\ IsReleased(n[k], d) BY <1>1, <1>2
    <3>2. /\ Pending(s, d) /\ Read(s, d)
          /\ \A l \in 1..Len(n) : IsReleased(n[l], d) => l = k
          /\ \A i \in Index, l \in 1..Len(n) : IsFrame(n[l], i, d) => l > k
      BY <3>1 DEF Releasing, ReleasesAnswered
    <3> QED BY <1>1, <1>2, <3>2
  <2>3. ReleasesPending(s, c, u) BY <1>2 DEF Releasing, ReleasesPending
  <2> QED BY <2>1, <2>2, <2>3 DEF Releasing
<1>5. Reads(s, c, u, r) BY <1>1, <1>2 DEF Reads
<1> QED BY <1>3, <1>4, <1>5

\* A stop stays where it is when other packets come and go.
LEMMA TakenStops ==
  ASSUME NEW s, NEW p, NEW c, NEW n, NEW f, Stops(s, p, c, n, f), NEW t, Shifted(c, t),
         ~IsStop(c[1]), NEW g, NoFtb(c[1]) => g = f
  PROVE  Stops(s, p, t, n, g)
<1>1. /\ \A k \in 1..Len(t) : k + 1 \in 1..Len(c) /\ t[k] = c[k + 1] /\ k + 1 # 1 /\ k \in Nat
      /\ \A k \in 1..Len(c) : k = 1 \/ (k - 1 \in 1..Len(t) /\ t[k - 1] = c[k] /\ k \in Int)
      /\ 1 \in 1..Len(c)
  BY ShiftedPlaces
<1>2. NoStop(c, n) => NoStop(t, n) BY <1>1 DEF NoStop
<1>3. ASSUME StopSent(c, n) PROVE StopSent(t, n)
  <2>1. PICK k \in 1..Len(c) :
          /\ IsStop(c[k]) /\ \A l \in 1..Len(c) : IsStop(c[l]) => l = k
          /\ \A l \in 1..Len(c) : l > k => NoFtb(c[l])
    BY <1>3 DEF StopSent
  <2>2. k - 1 \in 1..Len(t) /\ t[k - 1] = c[k] /\ k \in Int BY <1>1, <2>1
  <2>3. ASSUME NEW l \in 1..Len(t)
        PROVE  (IsStop(t[l]) => l = k - 1) /\ (l > k - 1 => NoFtb(t[l]))
    <3>1. l + 1 \in 1..Len(c) /\ t[l] = c[l + 1] /\ l \in Nat BY <1>1
    <3>2. IsStop(t[l]) => l + 1 = k BY <2>1, <3>1
    <3>3. l + 1 > k => NoFtb(t[l]) BY <2>1, <3>1
    <3> QED BY <2>2, <3>1, <3>2, <3>3
  <2> QED BY <1>3, <2>1, <2>2, <2>3 DEF StopSent
<1>4. StopAnswered(c, n, f) => StopAnswered(t, n, g) BY <1>1 DEF StopAnswered
<1> QED BY <1>2, <1>3, <1>4 DEF Stops

LEMMA AnsweredStops ==
  ASSUME NEW s, NEW p, NEW c, NEW n, NEW f, Stops(s, p, c, n, f), NEW u, NEW m, Grown(n, u, m),
         ~IsStopDone(m), NEW g, f = {} => g = {} /\ NoFrame(m)
  PROVE  Stops(s, p, c, u, g)
<1>1. /\ \A k \in 1..Len(u) : \/ k \in 1..Len(n) /\ u[k] = n[k]
                              \/ k = Len(n) + 1 /\ u[k] = m /\ k \notin 1..Len(n)
      /\ \A k \in 1..Len(n) : k \in 1..Len(u) /\ u[k] = n[k]
  BY GrownPlaces
<1>2. (\A k \in 1..Len(n) : ~IsStopDone(n[k])) => \A k \in 1..Len(u) : ~IsStopDone(u[k])
  BY <1>1
<1>3. NoStop(c, n) => NoStop(c, u) BY <1>2 DEF NoStop
<1>4. StopSent(c, n) => StopSent(c, u) BY <1>2 DEF StopSent
<1>5. StopAnswered(c, n, f) => StopAnswered(c, u, g) BY <1>1 DEF StopAnswered
<1> QED BY <1>3, <1>4, <1>5 DEF Stops

\* The firmware reads less.
LEMMA FewerRead ==
  ASSUME NEW s, NEW v, NEW p, NEW mode, NEW c, NEW n, NEW f, NEW r,
         J(s, v, p, mode, c, n, f, r), NEW q \in SUBSET r
  PROVE  J(s, v, p, mode, c, n, f, q)
<1>1. ReadBy(q) \subseteq ReadBy(r) BY DEF ReadBy
<1>2. Seconds(s, v, n, q) BY <1>1 DEF J, Seconds
<1>3. Reads(s, c, n, q) BY <1>1 DEF J, Reads
<1>4. Told(c, q) BY <1>1 DEF J, Told
<1> QED BY <1>2, <1>3, <1>4 DEF J

\* Buffers come to the firmware: x of them is queued there.
LEMMA TakeFtbStep ==
  ASSUME NEW s, NEW v, NEW p, NEW mode, NEW c, NEW n, NEW f, NEW r \in SUBSET (Index \X Dma),
         J(s, v, p, mode, c, n, f, r), NEW t, Shifted(c, t), c[1].type = "ftb",
         NEW g, \A i \in Index, d \in Dma : <<i, d>> \in g <=> <<i, d>> \in f \/ IsFtb(c[1], i, d)
  PROVE  J(s, v, p, mode, t, n, g, r)
<1>1. /\ \A k \in 1..Len(t) : k + 1 \in 1..Len(c) /\ t[k] = c[k + 1] /\ k + 1 # 1 /\ k \in Nat
      /\ \A k \in 1..Len(c) : k = 1 \/ (k - 1 \in 1..Len(t) /\ t[k - 1] = c[k] /\ k \in Int)
      /\ 1 \in 1..Len(c)
  BY ShiftedPlaces
<1>2. \A d : ~IsRelease(c[1], d) BY DEF IsRelease
<1>3. Places(s, t, n, g)
  <2>1. \A i \in Index, d \in Dma : IsFtb(c[1], i, d) =>
          /\ Placed(s, i, d) /\ \A l \in 1..Len(n) : ~IsFrame(n[l], i, d)
          /\ \A l \in 1..Len(c) : IsFtb(c[l], i, d) => l = 1
    BY <1>1 DEF J, Places, FtbsPlaced
  <2>2. ASSUME NEW k \in 1..Len(t), NEW i \in Index, NEW d \in Dma, IsFtb(t[k], i, d)
        PROVE  /\ Placed(s, i, d) /\ <<i, d>> \notin g
               /\ \A l \in 1..Len(t) : IsFtb(t[l], i, d) => l = k
               /\ \A l \in 1..Len(n) : ~IsFrame(n[l], i, d)
    <3>1. k + 1 \in 1..Len(c) /\ IsFtb(c[k + 1], i, d) /\ k \in Nat /\ k + 1 # 1
      BY <1>1, <2>2
    <3>2. /\ Placed(s, i, d) /\ <<i, d>> \notin f
          /\ \A l \in 1..Len(c) : IsFtb(c[l], i, d) => l = k + 1
          /\ \A l \in 1..Len(n) : ~IsFrame(n[l], i, d)
      BY <3>1 DEF J, Places, FtbsPlaced
    <3>3. ~IsFtb(c[1], i, d) BY <2>1, <3>1
    <3>4. ASSUME NEW l \in 1..Len(t), IsFtb(t[l], i, d) PROVE l = k
      <4>1. l + 1 \in 1..Len(c) /\ IsFtb(c[l + 1], i, d) /\ l \in Nat BY <1>1, <3>4
      <4>2. l + 1 = k + 1 BY <3>2, <4>1
      <4> QED BY <3>1, <4>1, <4>2
    <3> QED BY <3>2, <3>3, <3>4
  <2>3. QueuedPlaced(s, n, g) BY <2>1 DEF J, Places, QueuedPlaced
  <2>4. ASSUME NEW i \in Index, NEW d \in Dma, Placed(s, i, d)
        PROVE  \/ \E k \in 1..Len(t) : IsFtb(t[k], i, d)
               \/ <<i, d>> \in g
               \/ \E k \in 1..Len(n) : IsFrame(n[k], i, d)
    <3>1. ASSUME NEW k \in 1..Len(c), IsFtb(c[k], i, d)
          PROVE  (\E l \in 1..Len(t) : IsFtb(t[l], i, d)) \/ <<i, d>> \in g
      BY <1>1, <3>1
    <3> QED BY <2>4, <3>1 DEF J, Places, Somewhere
  <2> QED BY <2>2, <2>3, <2>4 DEF J, Places, FtbsPlaced, Somewhere
<1>4. \A d \in Dma, k \in 1..Len(c) : IsRelease(c[k], d) =>
        \E l \in 1..Len(t) : IsRelease(t[l], d)
  BY <1>1, <1>2
<1>5. Releasing(s, t, n, g)
  <2>1. ASSUME NEW k \in 1..Len(t), NEW d \in Dma, IsRelease(t[k], d)
        PROVE  /\ Pending(s, d) /\ Read(s, d)
               /\ \A l \in 1..Len(t) : IsRelease(t[l], d) => l = k
               /\ \A l \in 1..Len(n) : ~IsReleased(n[l], d)
               /\ \A i \in Index : <<i, d>> \notin g
               /\ \A i \in Index, l \in 1..Len(n) : ~IsFrame(n[l], i, d)
               /\ \A i \in Index, l \in 1..Len(t) : IsFtb(t[l], i, d) => l > k
    <3>1. k + 1 \in 1..Len(c) /\ IsRelease(c[k + 1], d) /\ k \in Nat BY <1>1, <2>1
    <3>2. /\ Pending(s, d) /\ Read(s, d)
          /\ \A l \in 1..Len(c) : IsRelease(c[l], d) => l = k + 1
          /\ \A l \in 1..Len(n) : ~IsReleased(n[l], d)
          /\ \A i \in Index : <<i, d>> \notin f
          /\ \A i \in Index, l \in 1..Len(n) : ~IsFrame(n[l], i, d)
          /\ \A i \in Index, l \in 1..Len(c) : IsFtb(c[l], i, d) => l > k + 1
      BY <3>1 DEF J, Releasing, ReleasesSent
    <3>3. ASSUME NEW l \in 1..Len(t), IsRelease(t[l], d) PROVE l = k
      <4>1. l + 1 \in 1..Len(c) /\ IsRelease(c[l + 1], d) /\ l \in Nat BY <1>1, <3>3
      <4>2. l + 1 = k + 1 BY <3>2, <4>1
      <4> QED BY <3>1, <4>1, <4>2
    <3>4. ASSUME NEW i \in Index, NEW l \in 1..Len(t), IsFtb(t[l], i, d) PROVE l > k
      <4>1. l + 1 \in 1..Len(c) /\ IsFtb(c[l + 1], i, d) /\ l \in Nat BY <1>1, <3>4
      <4>2. l + 1 > k + 1 BY <3>2, <4>1
      <4> QED BY <3>1, <4>1, <4>2
    <3>5. ASSUME NEW i \in Index, IsFtb(c[1], i, d) PROVE FALSE
      <4>1. 1 > k + 1 BY <1>1, <3>2, <3>5
      <4> QED BY <3>1, <4>1
    <3> QED BY <3>2, <3>3, <3>4, <3>5
  <2>2. ReleasesPending(s, t, n) BY <1>4 DEF J, Releasing, ReleasesPending
  <2> QED BY <2>1, <2>2 DEF J, Releasing, ReleasesSent
<1>6. Modes(mode, t, n)
  <2>1. CASE mode = "none" BY <1>1, <2>1 DEF J, Modes
  <2>2. CASE mode # "none" BY <2>2 DEF J, Modes
  <2> QED BY <2>1, <2>2
<1>7. Reads(s, t, n, r)
  <2>1. ReadBy(r) \subseteq Dma BY DEF ReadBy
  <2> QED BY <1>4, <2>1 DEF J, Reads
<1>8. Told(t, r)
  <2> SUFFICES ASSUME NEW k \in 1..Len(t), t[k].type = "ftb", NEW b \in t[k].bufs,
                      b.d \in ReadBy(r), ~b.ro
               PROVE  \E l \in 1..(k - 1) : IsRelease(t[l], b.d)
    BY DEF Told
  <2>1. k + 1 \in 1..Len(c) /\ t[k] = c[k + 1] /\ k \in Nat BY <1>1
  <2>2. PICK l \in 1..((k + 1) - 1) : IsRelease(c[l], b.d) BY <2>1 DEF J, Told
  <2>3. l # 1 BY <1>2, <2>2
  <2>4. l \in 1..Len(c) /\ l - 1 \in 1..(k - 1) BY <2>1, <2>2, <2>3
  <2>5. IsRelease(t[l - 1], b.d) BY <1>1, <2>2, <2>3, <2>4
  <2> QED BY <2>4, <2>5
<1>9. Stops(s, p, t, n, g)
  <2>1. ~IsStop(c[1]) /\ ~NoFtb(c[1]) BY DEF IsStop, NoFtb
  <2> QED BY <2>1, TakenStops DEF J
<1> QED BY <1>3, <1>5, <1>6, <1>7, <1>8, <1>9 DEF J

\* A release comes to the firmware, which lets go of the buffers and answers.
LEMMA TakeReleaseStep ==
  ASSUME NEW s, NEW v, NEW p, NEW mode, NEW c, NEW n, NEW f, NEW r \in SUBSET (Index \X Dma),
         J(s, v, p, mode, c, n, f, r), NEW t, Shifted(c, t), c[1].type = "release",
         c[1].bufs \in SUBSET Dma, \A d \in c[1].bufs : d \notin ReadBy(r),
         NEW m, m.type = "release_done", m.bufs = c[1].bufs, NEW u, Grown(n, u, m)
  PROVE  J(s, v, p, mode, t, u, f, r)
<1>1. /\ \A k \in 1..Len(t) : k + 1 \in 1..Len(c) /\ t[k] = c[k + 1] /\ k + 1 # 1 /\ k \in Nat
      /\ \A k \in 1..Len(c) : k = 1 \/ (k - 1 \in 1..Len(t) /\ t[k - 1] = c[k] /\ k \in Int)
      /\ 1 \in 1..Len(c)
  BY ShiftedPlaces
<1>2. /\ \A k \in 1..Len(u) : \/ k \in 1..Len(n) /\ u[k] = n[k]
                              \/ k = Len(n) + 1 /\ u[k] = m /\ k \notin 1..Len(n)
      /\ \A k \in 1..Len(n) : k \in 1..Len(u) /\ u[k] = n[k]
      /\ Len(n) + 1 \in 1..Len(u) /\ u[Len(n) + 1] = m
  BY GrownPlaces
<1>3. /\ \A i, d : ~IsFtb(c[1], i, d) /\ ~IsFrame(m, i, d)
      /\ \A d : IsRelease(c[1], d) <=> d \in c[1].bufs
      /\ \A d : IsReleased(m, d) <=> d \in c[1].bufs
      /\ ~IsStop(c[1]) /\ NoFtb(c[1]) /\ ~IsStopDone(m) /\ NoFrame(m)
      /\ \A d : ~Second(m, d)
  BY DEF IsFtb, IsFrame, IsRelease, IsReleased, IsStop, NoFtb, IsStopDone, NoFrame, Second
<1>4. \A d \in c[1].bufs :
        /\ Pending(s, d) /\ Read(s, d)
        /\ \A l \in 1..Len(c) : IsRelease(c[l], d) => l = 1
        /\ \A l \in 1..Len(n) : ~IsReleased(n[l], d)
        /\ \A i \in Index, l \in 1..Len(n) : ~IsFrame(n[l], i, d)
  BY <1>1, <1>3 DEF J, Releasing, ReleasesSent
<1>5. Places(s, t, u, f)
  <2>1. ASSUME NEW k \in 1..Len(t), NEW i \in Index, NEW d \in Dma, IsFtb(t[k], i, d)
        PROVE  /\ Placed(s, i, d) /\ <<i, d>> \notin f
               /\ \A l \in 1..Len(t) : IsFtb(t[l], i, d) => l = k
               /\ \A l \in 1..Len(u) : ~IsFrame(u[l], i, d)
    <3>1. k + 1 \in 1..Len(c) /\ IsFtb(c[k + 1], i, d) /\ k \in Nat BY <1>1, <2>1
    <3>2. /\ Placed(s, i, d) /\ <<i, d>> \notin f
          /\ \A l \in 1..Len(c) : IsFtb(c[l], i, d) => l = k + 1
          /\ \A l \in 1..Len(n) : ~IsFrame(n[l], i, d)
      BY <3>1 DEF J, Places, FtbsPlaced
    <3>3. ASSUME NEW l \in 1..Len(t), IsFtb(t[l], i, d) PROVE l = k
      <4>1. l + 1 \in 1..Len(c) /\ IsFtb(c[l + 1], i, d) /\ l \in Nat BY <1>1, <3>3
      <4>2. l + 1 = k + 1 BY <3>2, <4>1
      <4> QED BY <3>1, <4>1, <4>2
    <3>4. \A l \in 1..Len(u) : ~IsFrame(u[l], i, d) BY <1>2, <1>3, <3>2
    <3> QED BY <3>2, <3>3, <3>4
  <2>2. QueuedPlaced(s, u, f) BY <1>2, <1>3 DEF J, Places, QueuedPlaced
  <2>3. FramesPlaced(s, u) BY <1>2, <1>3 DEF J, Places, FramesPlaced
  <2>4. ASSUME NEW i \in Index, NEW d \in Dma, Placed(s, i, d)
        PROVE  \/ \E k \in 1..Len(t) : IsFtb(t[k], i, d)
               \/ <<i, d>> \in f
               \/ \E k \in 1..Len(u) : IsFrame(u[k], i, d)
    <3>1. ASSUME NEW k \in 1..Len(c), IsFtb(c[k], i, d)
          PROVE  \E l \in 1..Len(t) : IsFtb(t[l], i, d)
      BY <1>1, <1>3, <3>1
    <3>2. ASSUME NEW k \in 1..Len(n), IsFrame(n[k], i, d)
          PROVE  \E l \in 1..Len(u) : IsFrame(u[l], i, d)
      BY <1>2, <3>2
    <3> QED BY <2>4, <3>1, <3>2 DEF J, Places, Somewhere
  <2> QED BY <2>1, <2>2, <2>3, <2>4 DEF Places, FtbsPlaced, Somewhere
<1>6. \A d \in Dma, k \in 1..Len(c) : IsRelease(c[k], d) /\ d \notin c[1].bufs =>
        \E l \in 1..Len(t) : IsRelease(t[l], d)
  BY <1>1, <1>3
<1>7. Releasing(s, t, u, f)
  <2>1. ASSUME NEW k \in 1..Len(t), NEW d \in Dma, IsRelease(t[k], d)
        PROVE  /\ Pending(s, d) /\ Read(s, d)
               /\ \A l \in 1..Len(t) : IsRelease(t[l], d) => l = k
               /\ \A l \in 1..Len(u) : ~IsReleased(u[l], d)
               /\ \A i \in Index : <<i, d>> \notin f
               /\ \A i \in Index, l \in 1..Len(u) : ~IsFrame(u[l], i, d)
               /\ \A i \in Index, l \in 1..Len(t) : IsFtb(t[l], i, d) => l > k
    <3>1. k + 1 \in 1..Len(c) /\ IsRelease(c[k + 1], d) /\ k \in Nat /\ k + 1 # 1
      BY <1>1, <2>1
    <3>2. /\ Pending(s, d) /\ Read(s, d)
          /\ \A l \in 1..Len(c) : IsRelease(c[l], d) => l = k + 1
          /\ \A l \in 1..Len(n) : ~IsReleased(n[l], d)
          /\ \A i \in Index : <<i, d>> \notin f
          /\ \A i \in Index, l \in 1..Len(n) : ~IsFrame(n[l], i, d)
          /\ \A i \in Index, l \in 1..Len(c) : IsFtb(c[l], i, d) => l > k + 1
      BY <3>1 DEF J, Releasing, ReleasesSent
    <3>3. d \notin c[1].bufs BY <1>1, <1>3, <3>1, <3>2
    <3>4. ASSUME NEW l \in 1..Len(t), IsRelease(t[l], d) PROVE l = k
      <4>1. l + 1 \in 1..Len(c) /\ IsRelease(c[l + 1], d) /\ l \in Nat BY <1>1, <3>4
      <4>2. l + 1 = k + 1 BY <3>2, <4>1
      <4> QED BY <3>1, <4>1, <4>2
    <3>5. ASSUME NEW i \in Index, NEW l \in 1..Len(t), IsFtb(t[l], i, d) PROVE l > k
      <4>1. l + 1 \in 1..Len(c) /\ IsFtb(c[l + 1], i, d) /\ l \in Nat BY <1>1, <3>5
      <4>2. l + 1 > k + 1 BY <3>2, <4>1
      <4> QED BY <3>1, <4>1, <4>2
    <3>6. \A l \in 1..Len(u) : ~IsReleased(u[l], d) BY <1>2, <1>3, <3>2, <3>3
    <3>7. \A i \in Index, l \in 1..Len(u) : ~IsFrame(u[l], i, d) BY <1>2, <1>3, <3>2
    <3> QED BY <3>2, <3>4, <3>5, <3>6, <3>7
  <2>2. ReleasesSent(s, t, u, f) BY <2>1 DEF ReleasesSent
  <2>3. ASSUME NEW k \in 1..Len(u), NEW d \in Dma, IsReleased(u[k], d)
        PROVE  /\ Pending(s, d) /\ Read(s, d)
               /\ \A l \in 1..Len(u) : IsReleased(u[l], d) => l = k
               /\ \A i \in Index, l \in 1..Len(u) : IsFrame(u[l], i, d) => l > k
    <3>1. CASE d \in c[1].bufs BY <1>2, <1>3, <1>4, <2>3, <3>1
    <3>2. CASE d \notin c[1].bufs
      <4>1. k \in 1..Len(n) /\ IsReleased(n[k], d) BY <1>2, <1>3, <2>3, <3>2
      <4>2. /\ Pending(s, d) /\ Read(s, d)
            /\ \A l \in 1..Len(n) : IsReleased(n[l], d) => l = k
            /\ \A i \in Index, l \in 1..Len(n) : IsFrame(n[l], i, d) => l > k
        BY <4>1 DEF J, Releasing, ReleasesAnswered
      <4> QED BY <1>2, <1>3, <3>2, <4>2
    <3> QED BY <3>1, <3>2
  <2>4. ReleasesAnswered(s, u) BY <2>3 DEF ReleasesAnswered
  <2>5. ASSUME NEW d \in Dma, Pending(s, d)
        PROVE  \/ \E k \in 1..Len(t) : IsRelease(t[k], d)
               \/ \E k \in 1..Len(u) : IsReleased(u[k], d)
    <3>1. CASE d \in c[1].bufs BY <1>2, <1>3, <3>1
    <3>2. CASE d \notin c[1].bufs
      <4>1. ASSUME NEW k \in 1..Len(n), IsReleased(n[k], d)
            PROVE  \E l \in 1..Len(u) : IsReleased(u[l], d)
        BY <1>2, <4>1
      <4> QED BY <1>6, <2>5, <3>2, <4>1 DEF J, Releasing, ReleasesPending
    <3> QED BY <3>1, <3>2
  <2>6. ReleasesPending(s, t, u) BY <2>5 DEF ReleasesPending
  <2> QED BY <2>2, <2>4, <2>6 DEF J, Releasing
<1>8. Modes(mode, t, u)
  <2>1. mode # "none" BY <1>1 DEF J, Modes
  <2> QED BY <1>2, <1>3, <2>1 DEF J, Modes
<1>9. Seconds(s, v, u, r) BY <1>2, <1>3 DEF J, Seconds
<1>10. Reads(s, t, u, r)
  <2>1. ReadBy(r) \subseteq Dma BY DEF ReadBy
  <2>2. \A i \in Index, d \in ReadBy(r), k \in 1..Len(u) : IsFrame(u[k], i, d) => u[k].ro
    BY <1>2, <1>3 DEF J, Reads
  <2> QED BY <1>6, <2>1, <2>2 DEF J, Reads
<1>11. Told(t, r)
  <2> SUFFICES ASSUME NEW k \in 1..Len(t), t[k].type = "ftb", NEW b \in t[k].bufs,
                      b.d \in ReadBy(r), ~b.ro
               PROVE  \E l \in 1..(k - 1) : IsRelease(t[l], b.d)
    BY DEF Told
  <2>1. k + 1 \in 1..Len(c) /\ t[k] = c[k + 1] /\ k \in Nat BY <1>1
  <2>2. PICK l \in 1..((k + 1) - 1) : IsRelease(c[l], b.d) BY <2>1 DEF J, Told
  <2>3. l # 1 BY <1>3, <2>2
  <2>4. l \in 1..Len(c) /\ l - 1 \in 1..(k - 1) BY <2>1, <2>2, <2>3
  <2>5. IsRelease(t[l - 1], b.d) BY <1>1, <2>2, <2>3, <2>4
  <2> QED BY <2>4, <2>5
<1>12. Stops(s, p, t, u, f)
  <2>1. Stops(s, p, t, n, f) BY <1>3, TakenStops DEF J
  <2> QED BY <1>3, <2>1, AnsweredStops
<1> QED BY <1>5, <1>7, <1>8, <1>9, <1>10, <1>11, <1>12 DEF J

\* The firmware returns a queued buffer, which it may go on reading.
LEMMA FrameSent ==
  ASSUME NEW s, Good(s), NEW v, NEW p, NEW mode, NEW c, NEW n, NEW f,
         NEW r \in SUBSET (Index \X Dma), J(s, v, p, mode, c, n, f, r),
         \A k \in 1..Len(c) : c[k].type = "ftb" => c[k].bufs \in SUBSET Ftb,
         NEW i \in Index, NEW d \in Dma, <<i, d>> \in f,
         NEW m, IsFrame(m, i, d), NEW u, Grown(n, u, m),
         NEW q \in SUBSET (r \cup {<<i, d>>}), \A x, y \in q : x[2] = y[2] => x = y,
         d \in ReadBy(q) => m.ro,
         NEW g, g = f \ {<<i, d>>}
  PROVE  J(s, v, p, mode, c, u, g, q)
<1>1. /\ \A k \in 1..Len(u) : \/ k \in 1..Len(n) /\ u[k] = n[k]
                              \/ k = Len(n) + 1 /\ u[k] = m /\ k \notin 1..Len(n)
      /\ \A k \in 1..Len(n) : k \in 1..Len(u) /\ u[k] = n[k] /\ k < Len(n) + 1
      /\ Len(n) + 1 \in 1..Len(u) /\ u[Len(n) + 1] = m
  BY GrownPlaces
<1>2. /\ \A j, e : IsFrame(m, j, e) <=> j = i /\ e = d
      /\ \A e : ~IsReleased(m, e) /\ ~Second(m, e)
      /\ ~IsStopDone(m) /\ m.type # "release_done"
  BY DEF IsFrame, IsReleased, Second, IsStopDone
<1>3. Placed(s, i, d) /\ \A l \in 1..Len(n) : ~IsFrame(n[l], i, d)
  BY DEF J, Places, QueuedPlaced
<1>4. \A j \in Index : Placed(s, j, d) => j = i
  BY <1>3, SizesAssumption DEF Placed, Good, Apart
<1>5. \A k \in 1..Len(c) : ~IsFtb(c[k], i, d) BY DEF J, Places, FtbsPlaced
<1>6. \A k \in 1..Len(c) : ~IsRelease(c[k], d) BY DEF J, Releasing, ReleasesSent
<1>7. ReadBy(q) \subseteq ReadBy(r) \cup {d} /\ ReadBy(r) \subseteq Dma BY DEF ReadBy
<1>8. Places(s, c, u, g)
  <2>1. FtbsPlaced(s, c, u, g)
    <3> SUFFICES ASSUME NEW k \in 1..Len(c), NEW j \in Index, NEW e \in Dma, IsFtb(c[k], j, e)
                 PROVE  /\ Placed(s, j, e) /\ <<j, e>> \notin g
                        /\ \A l \in 1..Len(c) : IsFtb(c[l], j, e) => l = k
                        /\ \A l \in 1..Len(u) : ~IsFrame(u[l], j, e)
      BY DEF FtbsPlaced
    <3>1. /\ Placed(s, j, e) /\ <<j, e>> \notin f
          /\ \A l \in 1..Len(c) : IsFtb(c[l], j, e) => l = k
          /\ \A l \in 1..Len(n) : ~IsFrame(n[l], j, e)
      BY DEF J, Places, FtbsPlaced
    <3>2. ~IsFrame(m, j, e) BY <1>2, <1>5
    <3> QED BY <1>1, <3>1, <3>2
  <2>2. QueuedPlaced(s, u, g)
    <3> SUFFICES ASSUME NEW j \in Index, NEW e \in Dma, <<j, e>> \in f, <<j, e>> # <<i, d>>
                 PROVE  Placed(s, j, e) /\ \A l \in 1..Len(u) : ~IsFrame(u[l], j, e)
      BY DEF QueuedPlaced
    <3>1. Placed(s, j, e) /\ \A l \in 1..Len(n) : ~IsFrame(n[l], j, e)
      BY DEF J, Places, QueuedPlaced
    <3>2. ~IsFrame(m, j, e) BY <1>2
    <3> QED BY <1>1, <3>1, <3>2
  <2>3. FramesPlaced(s, u)
    <3> SUFFICES ASSUME NEW k \in 1..Len(u), NEW j \in Index, NEW e \in Dma,
                        IsFrame(u[k], j, e)
                 PROVE  Placed(s, j, e) /\ \A l \in 1..Len(u) : IsFrame(u[l], j, e) => l = k
      BY DEF FramesPlaced
    <3>1. CASE j = i /\ e = d BY <1>1, <1>2, <1>3, <3>1
    <3>2. CASE ~(j = i /\ e = d)
      <4>1. k \in 1..Len(n) /\ IsFrame(n[k], j, e) BY <1>1, <1>2, <3>2
      <4>2. Placed(s, j, e) /\ \A l \in 1..Len(n) : IsFrame(n[l], j, e) => l = k
        BY <4>1 DEF J, Places, FramesPlaced
      <4> QED BY <1>1, <1>2, <3>2, <4>2
    <3> QED BY <3>1, <3>2
  <2>4. Somewhere(s, c, u, g)
    <3> SUFFICES ASSUME NEW j \in Index, NEW e \in Dma, Placed(s, j, e)
                 PROVE  \/ \E k \in 1..Len(c) : IsFtb(c[k], j, e)
                        \/ <<j, e>> \in g
                        \/ \E k \in 1..Len(u) : IsFrame(u[k], j, e)
      BY DEF Somewhere
    <3>1. <<j, e>> = <<i, d>> => \E k \in 1..Len(u) : IsFrame(u[k], j, e) BY <1>1
    <3>2. (\E k \in 1..Len(n) : IsFrame(n[k], j, e)) => \E k \in 1..Len(u) : IsFrame(u[k], j, e)
      BY <1>1
    <3>3. <<j, e>> \in f => <<j, e>> = <<i, d>> \/ <<j, e>> \in g OBVIOUS
    <3> QED BY <3>1, <3>2, <3>3 DEF J, Places, Somewhere
  <2> QED BY <2>1, <2>2, <2>3, <2>4 DEF Places
<1>9. Releasing(s, c, u, g)
  <2>1. ReleasesSent(s, c, u, g)
    <3> SUFFICES ASSUME NEW k \in 1..Len(c), NEW e \in Dma, IsRelease(c[k], e)
                 PROVE  /\ \A l \in 1..Len(u) : ~IsReleased(u[l], e)
                        /\ \A j \in Index : <<j, e>> \notin g
                        /\ \A j \in Index, l \in 1..Len(u) : ~IsFrame(u[l], j, e)
      BY DEF J, Releasing, ReleasesSent
    <3>1. /\ \A l \in 1..Len(n) : ~IsReleased(n[l], e)
          /\ \A j \in Index : <<j, e>> \notin f
          /\ \A j \in Index, l \in 1..Len(n) : ~IsFrame(n[l], j, e)
      BY DEF J, Releasing, ReleasesSent
    <3>2. \A j : ~IsFrame(m, j, e) BY <1>2, <1>6
    <3>3. \A l \in 1..Len(u) : ~IsReleased(u[l], e) BY <1>1, <1>2, <3>1
    <3>4. \A j \in Index, l \in 1..Len(u) : ~IsFrame(u[l], j, e) BY <1>1, <3>1, <3>2
    <3> QED BY <3>1, <3>3, <3>4
  <2>2. ReleasesAnswered(s, u)
    <3> SUFFICES ASSUME NEW k \in 1..Len(u), NEW e \in Dma, IsReleased(u[k], e)
                 PROVE  /\ Pending(s, e) /\ Read(s, e)
                        /\ \A l \in 1..Len(u) : IsReleased(u[l], e) => l = k
                        /\ \A j \in Index, l \in 1..Len(u) : IsFrame(u[l], j, e) => l > k
      BY DEF ReleasesAnswered
    <3>1. k \in 1..Len(n) /\ IsReleased(n[k], e) BY <1>1, <1>2
    <3>2. /\ Pending(s, e) /\ Read(s, e)
          /\ \A l \in 1..Len(n) : IsReleased(n[l], e) => l = k
          /\ \A j \in Index, l \in 1..Len(n) : IsFrame(n[l], j, e) => l > k
      BY <3>1 DEF J, Releasing, ReleasesAnswered
    <3>3. \A l \in 1..Len(u) : IsReleased(u[l], e) => l = k BY <1>1, <1>2, <3>2
    <3>4. Len(n) + 1 > k BY <3>1
    <3>5. \A j \in Index, l \in 1..Len(u) : IsFrame(u[l], j, e) => l > k BY <1>1, <3>2, <3>4
    <3> QED BY <3>2, <3>3, <3>5
  <2>3. ReleasesPending(s, c, u) BY <1>1 DEF J, Releasing, ReleasesPending
  <2> QED BY <2>1, <2>2, <2>3 DEF J, Releasing
<1>10. Modes(mode, c, u)
  <2>1. CASE mode = "none" BY <1>1, <1>2, <2>1 DEF J, Modes
  <2>2. CASE mode # "none" BY <1>1, <1>2, <2>2 DEF J, Modes
  <2> QED BY <2>1, <2>2
<1>11. Seconds(s, v, u, q)
  <2> SUFFICES ASSUME NEW k \in 1..Len(u), NEW e \in Dma, Second(u[k], e)
               PROVE  /\ e \notin ReadBy(q)
                      /\ \A j \in Index : s.buf[j].dma = e => v[j] = "client"
    BY DEF Seconds
  <2>1. k \in 1..Len(n) /\ Second(n[k], e) BY <1>1, <1>2
  <2>2. /\ e \notin ReadBy(r)
        /\ \A j \in Index : s.buf[j].dma = e => v[j] = "client"
    BY <2>1 DEF J, Seconds
  <2>3. v[i] = "driver" /\ s.buf[i].dma = d BY <1>3 DEF J, Lists, Attrs, Placed
  <2> QED BY <1>7, <2>2, <2>3
<1>12. Reads(s, c, u, q)
  <2>1. OnItsWay(s, d) BY <1>3 DEF OnItsWay
  <2>2. ASSUME NEW e \in ReadBy(q) PROVE Read(s, e) \/ OnItsWay(s, e)
    BY <1>7, <2>1, <2>2 DEF J, Reads
  <2>3. ASSUME NEW e \in ReadBy(q), Pending(s, e)
        PROVE  OnItsWay(s, e) \/ \E k \in 1..Len(c) : IsRelease(c[k], e)
    BY <1>7, <2>1, <2>3 DEF J, Reads
  <2>4. ASSUME NEW j \in Index, NEW e \in ReadBy(q), NEW k \in 1..Len(u), IsFrame(u[k], j, e)
        PROVE  u[k].ro
    <3>1. CASE k \in 1..Len(n) /\ u[k] = n[k]
      <4>1. Placed(s, j, e) BY <1>7, <2>4, <3>1 DEF J, Places, FramesPlaced
      <4>2. e # d BY <1>3, <1>4, <2>4, <3>1, <4>1
      <4> QED BY <1>7, <2>4, <3>1, <4>2 DEF J, Reads
    <3>2. CASE u[k] = m BY <1>2, <2>4, <3>2
    <3> QED BY <1>1, <3>1, <3>2
  <2> QED BY <2>2, <2>3, <2>4 DEF Reads
<1>13. Told(c, q)
  <2> SUFFICES ASSUME NEW k \in 1..Len(c), c[k].type = "ftb", NEW b \in c[k].bufs,
                      b.d \in ReadBy(q), ~b.ro
               PROVE  \E l \in 1..(k - 1) : IsRelease(c[l], b.d)
    BY DEF Told
  <2>1. b.i \in Index /\ b.d \in Dma BY DEF Ftb
  <2>2. IsFtb(c[k], b.i, b.d) BY DEF IsFtb
  <2>3. Placed(s, b.i, b.d) BY <2>1, <2>2 DEF J, Places, FtbsPlaced
  <2>4. b.d # d BY <1>4, <1>5, <2>1, <2>2, <2>3
  <2> QED BY <1>7, <2>4 DEF J, Told
<1>14. Stops(s, p, c, u, g) BY <1>2, AnsweredStops DEF J
<1> QED BY <1>8, <1>9, <1>10, <1>11, <1>12, <1>13, <1>14 DEF J

\* Without a list the firmware returns a buffer a second time, which it no
\* longer reads.
LEMMA SecondSent ==
  ASSUME NEW s, NEW v, NEW p, NEW c, NEW n, NEW f,
         NEW r \in SUBSET (Index \X Dma), J(s, v, p, "none", c, n, f, r),
         NEW d \in Dma, d \notin ReadBy(r), \A i \in Index : s.buf[i].dma = d => v[i] = "client",
         NEW m, Second(m, d), NEW u, Grown(n, u, m)
  PROVE  J(s, v, p, "none", c, u, f, r)
<1>1. \A k \in 1..Len(u) : \/ k \in 1..Len(n) /\ u[k] = n[k]
                           \/ k = Len(n) + 1 /\ u[k] = m /\ k \notin 1..Len(n)
  BY GrownPlaces
<1>2. /\ m.type = "frame" /\ m.again /\ \A e : Second(m, e) => e = d
      /\ ~IsStopDone(m) /\ NoFrame(m)
  BY DEF Second, IsStopDone, NoFrame
<1>3. Places(s, c, u, f) /\ Releasing(s, c, u, f) /\ Reads(s, c, u, r)
  BY <1>2, OtherAnswered DEF J
<1>4. Modes("none", c, u) BY <1>1, <1>2 DEF J, Modes
<1>5. Seconds(s, v, u, r) BY <1>1, <1>2 DEF J, Seconds
<1>6. Stops(s, p, c, u, f) BY <1>2, AnsweredStops DEF J
<1> QED BY <1>3, <1>4, <1>5, <1>6 DEF J

\* The stop is answered.
LEMMA TakeStopStep ==
  ASSUME NEW s, NEW v, NEW p, NEW mode, NEW c, NEW n, NEW r \in SUBSET (Index \X Dma),
         J(s, v, p, mode, c, n, {}, r), NEW t, Shifted(c, t), IsStop(c[1]),
         NEW m, m.type = "stop_done", NEW u, Grown(n, u, m)
  PROVE  J(s, v, p, mode, t, u, {}, r)
<1>1. /\ \A k \in 1..Len(t) : k + 1 \in 1..Len(c) /\ t[k] = c[k + 1] /\ k + 1 # 1 /\ k \in Nat
      /\ 1 \in 1..Len(c)
  BY ShiftedPlaces
<1>2. /\ \A k \in 1..Len(u) : \/ k \in 1..Len(n) /\ u[k] = n[k] /\ k < Len(n) + 1
                              \/ k = Len(n) + 1 /\ u[k] = m
      /\ Len(n) + 1 \in 1..Len(u) /\ u[Len(n) + 1] = m /\ Len(n) \in Nat
  BY GrownPlaces DEF Grown
<1>3. IsStopDone(m) /\ (\A e : ~Second(m, e)) /\ c[1].type \notin {"ftb", "release"}
  BY DEF IsStop, IsStopDone, Second
<1>4. /\ Places(s, t, n, {}) /\ Releasing(s, t, n, {}) /\ Modes(mode, t, n)
      /\ Reads(s, t, n, r) /\ Told(t, r)
  BY <1>3, OtherTaken DEF J
<1>5. Places(s, t, u, {}) /\ Releasing(s, t, u, {}) /\ Reads(s, t, u, r)
  BY <1>4, OtherAnswered
<1>6. Modes(mode, t, u)
  <2>1. CASE mode = "none" BY <1>2, <1>4, <2>1 DEF Modes
  <2>2. CASE mode # "none" BY <1>2, <1>3, <1>4, <2>2 DEF Modes
  <2> QED BY <2>1, <2>2
<1>7. Seconds(s, v, u, r) BY <1>2, <1>3 DEF J, Seconds
<1>8. p = "stopping" /\ StopSent(c, n)
  BY <1>1 DEF J, Stops, NoStop, StopAnswered
<1>9. /\ \A k \in 1..Len(n) : ~IsStopDone(n[k])
      /\ \A l \in 1..Len(c) : IsStop(c[l]) => l = 1
      /\ \A l \in 1..Len(c) : l > 1 => NoFtb(c[l])
  BY <1>1, <1>8 DEF StopSent
<1>10. StopAnswered(t, u, {})
  <2>1. \A k \in 1..Len(t) : ~IsStop(t[k]) /\ NoFtb(t[k]) BY <1>1, <1>9
  <2>2. /\ \A l \in 1..Len(u) : IsStopDone(u[l]) => l = Len(n) + 1
        /\ \A l \in 1..Len(u) : ~(l > Len(n) + 1)
    BY <1>2, <1>9
  <2> QED BY <1>2, <1>3, <2>1, <2>2 DEF StopAnswered
<1>11. Stops(s, p, t, u, {}) BY <1>8, <1>10 DEF Stops
<1> QED BY <1>4, <1>5, <1>6, <1>7, <1>11 DEF J

LEMMA FwTypes ==
  ASSUME IInv
  PROVE  /\ cmds \in Seq(Command) /\ msgs \in Seq(Message)
         /\ fw.queued \in SUBSET (Index \X Dma) /\ fw.refs \in SUBSET (Index \X Dma)
         /\ fw \in [on : BOOLEAN, queued : SUBSET (Index \X Dma),
                    refs : SUBSET (Index \X Dma)]
BY DEF IInv, Rest

LEMMA TakesShifts ==
  ASSUME IInv, NEW type, Takes(type)
  PROVE  /\ Shifted(cmds, cmds') /\ cmds[1].type = type /\ Head(cmds) = cmds[1]
         /\ cmds[1] \in Command
<1>1. /\ cmds # << >> /\ Head(cmds).type = type /\ cmds' = Tail(cmds) /\ cmds \in Seq(Command)
  BY FwTypes DEF Takes
<1>2. Shifted(cmds, cmds') /\ Head(cmds) = cmds[1] BY <1>1, TailShifts
<1>3. cmds[1] \in Command BY <1>1
<1> QED BY <1>1, <1>2, <1>3

LEMMA FwStartsHolds == ASSUME IInv, JInv, FwStarts PROVE JInv'
<1>1. /\ Takes("start") /\ fw' = [fw EXCEPT !.on = TRUE]
      /\ UNCHANGED <<drv, vb2, port, dpb, msgs, failed>> /\ failed' = "no"
  BY DEF FwStarts, JInv
<1>2. fw'.queued = fw.queued /\ fw'.refs = fw.refs BY <1>1, FwTypes
<1>3. K(drv, vb2, port, cmds, msgs) BY DEF JInv, K
<1>4. Shifted(cmds, cmds') /\ cmds[1].type = "start" BY <1>1, TakesShifts
<1>5. /\ Places(drv, cmds', msgs, fw.queued) /\ Releasing(drv, cmds', msgs, fw.queued)
      /\ Modes(dpb.mode, cmds', msgs) /\ Reads(drv, cmds', msgs, fw.refs)
      /\ Told(cmds', fw.refs)
  BY <1>3, <1>4, KDef, OtherTaken DEF K, J
<1>6. Stops(drv, port, cmds', msgs, fw.queued)
  <2>1. ~IsStop(cmds[1]) BY <1>4 DEF IsStop
  <2> QED BY <1>3, <1>4, <2>1, TakenStops DEF K, J
<1>7. K(drv, vb2, port, cmds', msgs) BY <1>3, <1>5, <1>6 DEF K, J
<1> QED BY <1>1, <1>2, <1>7, JAfter DEF K

LEMMA FwTakesFtbHolds == ASSUME IInv, JInv, FwTakesFtb PROVE JInv'
<1> DEFINE x == cmds[1]
           g == fw.queued \cup {<<b.i, b.d>> : b \in x.bufs}
<1>1. /\ Takes("ftb") /\ UNCHANGED <<drv, vb2, port, dpb, msgs, failed>> /\ failed' = "no"
  BY DEF FwTakesFtb, JInv
<1>2. /\ Shifted(cmds, cmds') /\ x.type = "ftb" /\ Head(cmds) = x /\ x.bufs \in SUBSET Ftb
  BY <1>1, TakesShifts, CommandType
<1>3. fw'.queued = g /\ fw'.refs = fw.refs BY <1>2, FwTypes DEF FwTakesFtb
<1>4. \A i \in Index, d \in Dma : <<i, d>> \in g <=> <<i, d>> \in fw.queued \/ IsFtb(x, i, d)
  BY <1>2 DEF IsFtb
<1> HIDE DEF g
<1>5. J(drv, vb2, port, dpb.mode, cmds, msgs, fw.queued, fw.refs) BY DEF JInv
<1>6. J(drv, vb2, port, dpb.mode, cmds', msgs, g, fw.refs)
  BY <1>2, <1>4, <1>5, FwTypes, TakeFtbStep
<1> QED BY <1>1, <1>3, <1>6, JAfter

LEMMA FwReleasesHolds == ASSUME IInv, JInv, FwReleases PROVE JInv'
<1> DEFINE x == cmds[1]
           r == {y \in fw.refs : y[2] \notin x.bufs}
           m == [type |-> "release_done", bufs |-> x.bufs]
<1>1. /\ Takes("release") /\ UNCHANGED <<drv, vb2, port, dpb, failed>> /\ failed' = "no"
  BY DEF FwReleases, JInv
<1>2. /\ Shifted(cmds, cmds') /\ x.type = "release" /\ Head(cmds) = x /\ x.bufs \in SUBSET Dma
  BY <1>1, TakesShifts, CommandType
<1>3. fw'.queued = fw.queued /\ fw'.refs = r /\ msgs' = Append(msgs, m)
  BY <1>2, FwTypes DEF FwReleases
<1>4. r \in SUBSET fw.refs /\ r \in SUBSET (Index \X Dma) BY FwTypes
<1>5. \A d \in x.bufs : d \notin ReadBy(r) BY DEF ReadBy
<1>6. m \in Message BY <1>2 DEF Message
<1>7. m.type = "release_done" /\ m.bufs = x.bufs OBVIOUS
<1> HIDE DEF r, m
<1>8. Grown(msgs, msgs', m) BY <1>3, <1>6, FwTypes, AppendGrows
<1>9. J(drv, vb2, port, dpb.mode, cmds, msgs, fw.queued, r)
  BY <1>4, FewerRead DEF JInv
<1>10. J(drv, vb2, port, dpb.mode, cmds', msgs', fw.queued, r)
  BY <1>2, <1>4, <1>5, <1>7, <1>8, <1>9, TakeReleaseStep
<1> QED BY <1>1, <1>3, <1>10, JAfter

LEMMA FwStopsHolds == ASSUME IInv, JInv, FwStops PROVE JInv'
<1> DEFINE m == [type |-> "stop_done"]
<1>1. /\ Takes("stop") /\ UNCHANGED <<drv, vb2, port, dpb, failed>> /\ failed' = "no"
      /\ fw.queued = {} /\ fw' = [fw EXCEPT !.on = FALSE] /\ msgs' = Append(msgs, m)
  BY DEF FwStops, JInv
<1>2. fw'.queued = {} /\ fw'.refs = fw.refs BY <1>1, FwTypes
<1>3. m \in Message /\ m.type = "stop_done" BY DEF Message
<1> HIDE DEF m
<1>4. Grown(msgs, msgs', m) BY <1>1, <1>3, FwTypes, AppendGrows
<1>5. Shifted(cmds, cmds') /\ IsStop(cmds[1]) BY <1>1, TakesShifts DEF IsStop
<1>6. J(drv, vb2, port, dpb.mode, cmds, msgs, {}, fw.refs) BY <1>1 DEF JInv
<1>7. J(drv, vb2, port, dpb.mode, cmds', msgs', {}, fw.refs)
  BY <1>3, <1>4, <1>5, <1>6, FwTypes, TakeStopStep
<1> QED BY <1>1, <1>2, <1>7, JAfter

LEMMA FtbTypes ==
  ASSUME IInv PROVE \A k \in 1..Len(cmds) : cmds[k].type = "ftb" => cmds[k].bufs \in SUBSET Ftb
<1>1. \A k \in 1..Len(cmds) : cmds[k] \in Command BY FwTypes
<1> QED BY <1>1, CommandType

LEMMA FwOutputsHolds ==
  ASSUME IInv, JInv, NEW x \in Index \X Dma, FwOutputs(x) PROVE JInv'
<1>1. /\ x \in fw.queued /\ x[2] \notin ReadBy(fw.refs)
      /\ UNCHANGED <<drv, vb2, port, dpb, cmds, failed>> /\ failed' = "no"
  BY DEF FwOutputs, JInv, Reading, ReadBy
<1>2. PICK r \in SUBSET (fw.refs \cup {x}) :
        /\ fw' = [fw EXCEPT !.queued = @ \ {x}, !.refs = r]
        /\ msgs' = Append(msgs, FrameOf(x, x \in r,
                      IF dpb.mode = "none" THEN {} ELSE {y[2] : y \in r}, FALSE))
  BY DEF FwOutputs
<1> DEFINE list == IF dpb.mode = "none" THEN {} ELSE {y[2] : y \in r}
           read == x \in r
           m == FrameOf(x, read, list, FALSE)
<1>3. fw'.queued = fw.queued \ {x} /\ fw'.refs = r /\ msgs' = Append(msgs, m)
  BY <1>2, FwTypes
<1>4. r \in SUBSET (Index \X Dma) BY FwTypes
<1>5. read \in BOOLEAN /\ list \in SUBSET Dma BY <1>4
<1> HIDE DEF read, list
<1>6. m \in Message BY <1>5, FrameOfType
<1>7. PICK i \in Index, d \in Dma : x = <<i, d>> OBVIOUS
<1>8. IsFrame(m, i, d) /\ m.ro = read BY <1>7 DEF IsFrame, FrameOf
<1> HIDE DEF m
<1>9. Grown(msgs, msgs', m) BY <1>3, <1>6, FwTypes, AppendGrows
<1>10. J(drv, vb2, port, dpb.mode, cmds, msgs, fw.queued, fw.refs) BY DEF JInv
<1>11. \A y, z \in r : y[2] = z[2] => y = z
  <2>1. \A y, z \in fw.refs : y[2] = z[2] => y = z BY <1>10 DEF J, Reads
  <2>2. \A y \in fw.refs : y[2] # x[2] BY <1>1 DEF ReadBy
  <2> QED BY <2>1, <2>2
<1>12. d \in ReadBy(r) => m.ro
  <2> SUFFICES ASSUME NEW y \in r, y[2] = d PROVE x \in r
    BY <1>8 DEF ReadBy, read
  <2>1. y \notin fw.refs BY <1>1, <1>7 DEF ReadBy
  <2> QED BY <2>1
<1>13. J(drv, vb2, port, dpb.mode, cmds, msgs', fw.queued \ {x}, r)
  <2>1. <<i, d>> \in fw.queued /\ r \in SUBSET (fw.refs \cup {<<i, d>>}) BY <1>1, <1>7
  <2>2. fw.queued \ {x} = fw.queued \ {<<i, d>>} BY <1>7
  <2> QED BY <1>8, <1>9, <1>10, <1>11, <1>12, <2>1, <2>2, FwTypes, KDef, FtbTypes, FrameSent
<1> QED BY <1>1, <1>3, <1>13, JAfter

LEMMA FwEmptiesHolds ==
  ASSUME IInv, JInv, NEW x \in Index \X Dma, FwEmpties(x) PROVE JInv'
<1> DEFINE list == IF dpb.mode = "none" THEN {} ELSE Reading
           read == x[2] \in Reading
           m == FrameOf(x, read, list, FALSE)
<1>1. /\ x \in fw.queued /\ fw' = [fw EXCEPT !.queued = @ \ {x}, !.on = FALSE]
      /\ msgs' = Append(msgs, m)
      /\ UNCHANGED <<drv, vb2, port, dpb, cmds, failed>> /\ failed' = "no"
  BY DEF FwEmpties, JInv
<1>2. fw'.queued = fw.queued \ {x} /\ fw'.refs = fw.refs BY <1>1, FwTypes
<1>3. read \in BOOLEAN /\ list \in SUBSET Dma BY ReadingType
<1>4. PICK i \in Index, d \in Dma : x = <<i, d>> OBVIOUS
<1>5. d \in ReadBy(fw.refs) => read BY <1>4 DEF ReadBy, Reading
<1> HIDE DEF read, list
<1>6. m \in Message BY <1>3, FrameOfType
<1>7. IsFrame(m, i, d) /\ m.ro = read BY <1>4 DEF IsFrame, FrameOf
<1> HIDE DEF m
<1>8. Grown(msgs, msgs', m) BY <1>1, <1>6, FwTypes, AppendGrows
<1>9. J(drv, vb2, port, dpb.mode, cmds, msgs, fw.queued, fw.refs) BY DEF JInv
<1>10. \A y, z \in fw.refs : y[2] = z[2] => y = z BY <1>9 DEF J, Reads
<1>11. J(drv, vb2, port, dpb.mode, cmds, msgs', fw.queued \ {x}, fw.refs)
  <2>1. <<i, d>> \in fw.queued /\ fw.refs \in SUBSET (fw.refs \cup {<<i, d>>}) BY <1>1, <1>4
  <2>2. fw.queued \ {x} = fw.queued \ {<<i, d>>} BY <1>4
  <2>3. d \in ReadBy(fw.refs) => m.ro BY <1>5, <1>7
  <2> QED BY <1>7, <1>8, <1>9, <1>10, <2>1, <2>2, <2>3, FwTypes, KDef, FtbTypes, FrameSent
<1> QED BY <1>1, <1>2, <1>11, JAfter

LEMMA FwLetsGoHolds ==
  ASSUME Events = {}, IInv, JInv, NEW x \in Index \X Dma, FwLetsGo(x) PROVE JInv'
<1> DEFINE r == fw.refs \ {x}
           m == FrameOf(x, FALSE, {}, TRUE)
<1>1. /\ dpb.mode = "none" /\ x \in fw.refs /\ fw' = [fw EXCEPT !.refs = @ \ {x}]
      /\ UNCHANGED <<drv, vb2, port, dpb, cmds, failed>> /\ failed' = "no"
  BY DEF FwLetsGo, JInv
<1>2. fw'.queued = fw.queued /\ fw'.refs = r BY <1>1, FwTypes
<1>3. r \in SUBSET fw.refs /\ r \in SUBSET (Index \X Dma) BY FwTypes
<1>4. J(drv, vb2, port, "none", cmds, msgs, fw.queued, fw.refs) BY <1>1 DEF JInv
<1>5. x[2] \notin ReadBy(r)
  <2>1. \A y, z \in fw.refs : y[2] = z[2] => y = z BY <1>4 DEF J, Reads
  <2> QED BY <1>1, <2>1 DEF ReadBy
<1> HIDE DEF r
<1>6. J(drv, vb2, port, "none", cmds, msgs, fw.queued, r) BY <1>3, <1>4, FewerRead
<1>7. CASE UNCHANGED msgs BY <1>1, <1>2, <1>6, <1>7, JAfter
<1>8. CASE /\ \A i \in Index : drv.buf[i].dma = x[2] => vb2[i] = "client"
           /\ msgs' = Append(msgs, m)
  <2>1. m \in Message BY FrameOfType
  <2>2. x[2] \in Dma OBVIOUS
  <2>3. Second(m, x[2]) BY DEF Second, FrameOf
  <2> HIDE DEF m
  <2>4. Grown(msgs, msgs', m) BY <1>8, <2>1, FwTypes, AppendGrows
  <2>5. J(drv, vb2, port, "none", cmds, msgs', fw.queued, r)
    BY <1>3, <1>5, <1>6, <1>8, <2>2, <2>3, <2>4, SecondSent
  <2> QED BY <1>1, <1>2, <2>5, JAfter
<1> QED BY <1>7, <1>8 DEF FwLetsGo

-----------------------------------------------------------------------------

LEMMA OtherHolds ==
  ASSUME JInv, UNCHANGED <<drv, vb2, port, dpb, cmds, msgs, fw, failed>> PROVE JInv'
<1>1. K(drv, vb2, port, cmds, msgs) BY DEF JInv, K
<1> QED BY <1>1, KAfter DEF JInv

LEMMA StepHolds == ASSUME Events = {}, IInv, JInv, [Next]_vars PROVE JInv'
<1>1. CASE UNCHANGED vars BY <1>1, OtherHolds DEF vars
<1>2. CASE Client
  BY <1>2, QBufHolds, StreamOnHolds, StartCmdHolds, ReqBufs0Holds, StreamOffHolds,
     StreamOffEndsHolds, CloseHolds DEF Client
<1>3. CASE BatchStarts BY <1>3, OtherHolds DEF BatchStarts
<1>4. CASE BatchRuns BY <1>4, BatchRunsHolds
<1>5. CASE Thread
  BY <1>5, HandleFrameHolds, HandleReleaseDoneHolds, HandleStopDoneHolds DEF Thread
<1>6. CASE Firmware
  BY <1>6, FwStartsHolds, FwTakesFtbHolds, FwReleasesHolds, FwStopsHolds, FwOutputsHolds,
     FwLetsGoHolds, FwEmptiesHolds DEF Firmware
<1> QED BY <1>1, <1>2, <1>3, <1>4, <1>5, <1>6 DEF Next

LEMMA PlacesHold == ASSUME Events = {} PROVE Spec => [](IInv /\ JInv)
<1>1. "partial_requeue" \notin Events OBVIOUS
<1>2. Spec => []IInv BY <1>1, InvariantHolds, PTL
<1>3. Init => JInv BY InitIsJ
<1>4. IInv /\ JInv /\ [Next]_vars => JInv' BY StepHolds
<1> QED BY <1>2, <1>3, <1>4, PTL DEF Spec

-----------------------------------------------------------------------------
(* The theorems about places.                                              *)

LEMMA SentIs ==
  ASSUME IInv
  PROVE  \A i, d : <<i, d>> \in Sent <=> \E k \in 1..Len(cmds) : IsFtb(cmds[k], i, d)
<1>1. ASSUME NEW i, NEW d, <<i, d>> \in Sent
      PROVE  \E k \in 1..Len(cmds) : IsFtb(cmds[k], i, d)
  <2>1. PICK b \in UNION {cmds[k].bufs :
                            k \in {j \in 1..Len(cmds) : cmds[j].type = "ftb"}} :
          <<b.i, b.d>> = <<i, d>>
    BY <1>1 DEF Sent
  <2>2. PICK k \in 1..Len(cmds) : cmds[k].type = "ftb" /\ b \in cmds[k].bufs BY <2>1
  <2>3. b.i = i /\ b.d = d BY <2>1
  <2> QED BY <2>2, <2>3 DEF IsFtb
<1>2. ASSUME NEW i, NEW d, NEW k \in 1..Len(cmds), IsFtb(cmds[k], i, d)
      PROVE  <<i, d>> \in Sent
  <2>1. PICK b \in cmds[k].bufs : b.i = i /\ b.d = d BY <1>2 DEF IsFtb
  <2>2. b \in UNION {cmds[l].bufs : l \in {j \in 1..Len(cmds) : cmds[j].type = "ftb"}}
    BY <1>2 DEF IsFtb
  <2> QED BY <2>1, <2>2 DEF Sent
<1> QED BY <1>1, <1>2

LEMMA ReturnedIs ==
  \A i, d : <<i, d>> \in Returned <=> \E k \in 1..Len(msgs) : IsFrame(msgs[k], i, d)
<1>1. ASSUME NEW i, NEW d, <<i, d>> \in Returned
      PROVE  \E k \in 1..Len(msgs) : IsFrame(msgs[k], i, d)
  <2>1. PICK k \in 1..Len(msgs) : /\ msgs[k].type = "frame" /\ ~msgs[k].again
                                  /\ <<msgs[k].i, msgs[k].d>> = <<i, d>>
    BY <1>1 DEF Returned
  <2>2. msgs[k].i = i /\ msgs[k].d = d BY <2>1
  <2> QED BY <2>1, <2>2 DEF IsFrame
<1>2. ASSUME NEW i, NEW d, NEW k \in 1..Len(msgs), IsFrame(msgs[k], i, d)
      PROVE  <<i, d>> \in Returned
  BY <1>2 DEF IsFrame, Returned
<1> QED BY <1>1, <1>2

LEMMA InSent ==
  ASSUME IInv, NEW x \in Sent PROVE \E i \in Index, d \in Dma : x = <<i, d>>
<1>1. PICK k \in 1..Len(cmds) : cmds[k].type = "ftb" /\ \E b \in cmds[k].bufs : x = <<b.i, b.d>>
  BY DEF Sent
<1>2. cmds[k].bufs \in SUBSET Ftb BY <1>1, FtbTypes
<1>3. PICK b \in cmds[k].bufs : x = <<b.i, b.d>> BY <1>1
<1>4. b.i \in Index /\ b.d \in Dma BY <1>2 DEF Ftb
<1> QED BY <1>3, <1>4

\* Every queued buffer is in exactly one hand: the attributes of the driver,
\* the state of vb2 and the packets on their way agree after any number of
\* queueings, returns, releases, stops and restarts (msm_vidc_get_driver_buf,
\* msm_vidc_queue_buffer, handle_output_buffer).
THEOREM EachHasOneOwner ==
  ASSUME Events = {}
  PROVE  Spec => []OneOwner
<1>1. IInv /\ JInv => OneOwner
  <2> SUFFICES ASSUME IInv, JInv, NEW i \in Index
               PROVE  /\ Has(drv, i, "QUEUED")
                           <=> <<i, drv.buf[i].dma>> \in Sent \cup fw.queued \cup Returned
                      /\ Has(drv, i, "QUEUED") => vb2[i] = "driver"
                      /\ vb2[i] = "driver" <=> \/ port # "off" /\ Has(drv, i, "DEFERRED")
                                               \/ Has(drv, i, "QUEUED")
    BY DEF OneOwner
  <2> DEFINE d == drv.buf[i].dma
  <2>1. /\ Attrs(drv, vb2, port) /\ FtbsPlaced(drv, cmds, msgs, fw.queued)
        /\ QueuedPlaced(drv, msgs, fw.queued) /\ FramesPlaced(drv, msgs)
        /\ Somewhere(drv, cmds, msgs, fw.queued) /\ failed = "no"
    BY DEF JInv, J, Lists, Places
  <2>2. Has(drv, i, "QUEUED") <=> Queued(drv, i) BY DEF Has, Queued
  <2>3. Has(drv, i, "DEFERRED") <=> Waiting(drv, i) BY DEF Has, Waiting
  <2>4. ASSUME Queued(drv, i) PROVE Placed(drv, i, d) /\ d \in Dma
    BY <2>1, <2>4 DEF IInv, Owners, Rest, Queued, Placed, Busy
  <2>5. /\ <<i, d>> \in Sent <=> \E k \in 1..Len(cmds) : IsFtb(cmds[k], i, d)
        /\ <<i, d>> \in Returned <=> \E k \in 1..Len(msgs) : IsFrame(msgs[k], i, d)
    BY SentIs, ReturnedIs
  <2> HIDE DEF d
  <2>6. Queued(drv, i) => <<i, d>> \in Sent \cup fw.queued \cup Returned
    BY <2>1, <2>4, <2>5 DEF Somewhere
  <2>7. ASSUME <<i, d>> \in Sent \cup fw.queued \cup Returned PROVE Queued(drv, i)
    <3>1. d \in Dma
      <4>1. CASE <<i, d>> \in Sent BY <4>1, InSent
      <4>2. CASE <<i, d>> \in fw.queued BY <4>2, FwTypes
      <4>3. CASE <<i, d>> \in Returned
        <5>1. PICK k \in 1..Len(msgs) : IsFrame(msgs[k], i, d) BY <4>3, <2>5
        <5>2. msgs[k] \in Message BY FwTypes
        <5> QED BY <5>1, <5>2, FrameType DEF IsFrame
      <4> QED BY <2>7, <4>1, <4>2, <4>3
    <3> QED BY <2>1, <2>5, <2>7, <3>1 DEF FtbsPlaced, QueuedPlaced, FramesPlaced, Placed
  <2>8. Queued(drv, i) => vb2[i] = "driver" BY <2>1 DEF Attrs
  <2>9. vb2[i] = "driver" <=> (port # "off" /\ Waiting(drv, i)) \/ Queued(drv, i)
    BY <2>1 DEF Attrs, IInv, Owners
  <2> QED BY <2>2, <2>3, <2>6, <2>7, <2>8, <2>9 DEF d
<1> QED BY <1>1, PlacesHold, PTL

\* No streamoff finds a buffer that is still queued, and no answer to a
\* release one that was not asked for, so neither ends the session
\* (msm_vidc_session_streamoff, handle_release_output_buffer).
THEOREM SessionNeverFails ==
  ASSUME Events = {}
  PROVE  Spec => []NeverFails
<1>1. JInv => NeverFails BY DEF JInv, NeverFails
<1> QED BY <1>1, PlacesHold, PTL

\* What the firmware has queued or reads stays mapped and referenced while
\* indices are given other dmabufs, and a buffer that it still reads is sent
\* to it again with the flag or behind a release (msm_vb2_unmap_dmabuf,
\* handle_read_only_buffer, msm_vidc_process_readonly_buffers).
THEOREM UseIsAlwaysKnown ==
  ASSUME Events = {}
  PROVE  Spec => []FwUseIsKnown
<1>1. IInv /\ JInv => FwAccessIsHeld
  <2> SUFFICES ASSUME IInv, JInv,
                      NEW d \in {x[2] : x \in Sent \cup fw.queued} \cup Reading
               PROVE  /\ drv.tracker[d] > 0
                      /\ drv.ro[d].map \/ \E i \in Index : drv.buf[i].dma = d /\ drv.buf[i].map
    BY DEF FwAccessIsHeld
  <2>1. /\ Lists(drv, vb2, port, dpb.mode) /\ Places(drv, cmds, msgs, fw.queued)
        /\ Reads(drv, cmds, msgs, fw.refs)
    BY DEF JInv, J
  <2>2. Good(drv) BY DEF IInv
  <2>3. d \in ReadBy(fw.refs) \/ \E x \in Sent \cup fw.queued : d = x[2]
    BY DEF Reading, ReadBy
  <2>4. ASSUME NEW e \in Dma, OnItsWay(drv, e)
        PROVE  drv.tracker[e] > 0 /\ \E i \in Index : drv.buf[i].dma = e /\ drv.buf[i].map
    <3>1. PICK i \in Index : Placed(drv, i, e) BY <2>4 DEF OnItsWay
    <3>2. drv.buf[i].dma = e /\ drv.buf[i].ref BY <2>1, <3>1 DEF Placed, Lists, Attrs
    <3>3. drv.buf[i].map BY <2>1, <3>2, SizesAssumption DEF Lists, Maps
    <3>4. Held(drv, e) BY <3>2 DEF Held
    <3>5. drv.tracker[e] = 1 + Bit(drv.ro[e].ref) BY <2>2, <3>4 DEF Good, Balanced, Bit
    <3>6. drv.tracker[e] > 0 BY <3>5 DEF Bit
    <3> QED BY <3>2, <3>3, <3>6
  <2>5. CASE d \in ReadBy(fw.refs)
    <3>1. d \in Dma BY <2>5, FwTypes DEF ReadBy
    <3>2. CASE OnItsWay(drv, d) BY <2>4, <3>1, <3>2
    <3>3. CASE Read(drv, d)
      <4>1. drv.ro[d].listed /\ drv.ro[d].ref
        BY <2>1, <3>1, <3>3 DEF Lists, Entries, Read
      <4>2. drv.tracker[d] = Bit(Held(drv, d)) + 1
        BY <2>2, <3>1, <4>1 DEF Good, Balanced, Bit
      <4>3. drv.tracker[d] > 0 BY <4>2 DEF Bit
      <4>4. drv.ro[d].map \/ \E i \in Index : drv.buf[i].dma = d /\ drv.buf[i].map
        BY <2>1, <3>1, <4>1, SizesAssumption DEF Lists, Maps
      <4> QED BY <4>3, <4>4
    <3> QED BY <2>1, <2>5, <3>2, <3>3 DEF Reads
  <2>6. ASSUME NEW x \in Sent \cup fw.queued, d = x[2]
        PROVE  d \in Dma /\ OnItsWay(drv, d)
    <3>1. PICK i \in Index, e \in Dma : x = <<i, e>> BY InSent, FwTypes
    <3>2. Placed(drv, i, e)
      <4>1. CASE x \in Sent
        <5>1. PICK k \in 1..Len(cmds) : IsFtb(cmds[k], i, e) BY <3>1, <4>1, SentIs
        <5> QED BY <2>1, <5>1 DEF Places, FtbsPlaced
      <4>2. CASE x \in fw.queued BY <2>1, <3>1, <4>2 DEF Places, QueuedPlaced
      <4> QED BY <4>1, <4>2
    <3> QED BY <2>6, <3>1, <3>2 DEF OnItsWay
  <2> QED BY <2>3, <2>4, <2>5, <2>6
<1>2. JInv => ReferencesFlagged
  <2> SUFFICES ASSUME JInv, NEW k \in 1..Len(cmds), cmds[k].type = "ftb",
                      NEW b \in cmds[k].bufs, b.d \in Reading, ~b.ro
               PROVE  \E l \in 1..(k - 1) : cmds[l].type = "release" /\ b.d \in cmds[l].bufs
    BY DEF ReferencesFlagged
  <2>1. Told(cmds, fw.refs) BY DEF JInv, J
  <2>2. b.d \in ReadBy(fw.refs) BY DEF ReadBy, Reading
  <2>3. \E l \in 1..(k - 1) : IsRelease(cmds[l], b.d) BY <2>1, <2>2 DEF Told
  <2> QED BY <2>3 DEF IsRelease
<1> QED BY <1>1, <1>2, PlacesHold, PTL DEF FwUseIsKnown
=============================================================================
