-------------------------- MODULE TimestampsProofs --------------------------
(***************************************************************************)
(* Two theorems, for every set of times, every window and every INT_MAX.   *)
(*                                                                         *)
(* The window the frame rate is measured on holds exactly the last stamps  *)
(* of the firmware, sorted: IInv.                                          *)
(*                                                                         *)
(* Every picture gets the stamp of its own buffer: JInv counts, for each   *)
(* stamp, the entries of ts_reorder and the buffers on their way.          *)
(***************************************************************************)
EXTENDS Timestamps, Integers, SequenceTheorems, FiniteSetTheorems,
        WellFoundedInduction, TLAPS

Entry == [val : Nat, rank : Nat]

Ascending(s) == \A k \in 2..Len(s) : s[k - 1].val <= s[k].val

\* The entries of s have the last Len(r) ranks below n, each once, and the
\* one of rank n - Len(r) + j - 1 has the stamp r[j].
Ranked(s, r, n) ==
  /\ Len(s) = Len(r) /\ Len(r) <= n
  /\ \A k \in 1..Len(s) : /\ n - Len(r) <= s[k].rank /\ s[k].rank < n
                          /\ s[k].val = r[s[k].rank - (n - Len(r)) + 1]
  /\ \A m \in (n - Len(r))..(n - 1) : \E k \in 1..Len(s) : s[k].rank = m
  /\ \A k, l \in 1..Len(s) : s[k].rank = s[l].rank => k = l

\* What the messages carry.
Typed ==
  /\ rank \in Nat /\ queued \in Nat
  /\ kept \in Seq(Frame) /\ inputs \in Seq(Frame) /\ pictures \subseteq Frame
  /\ msgs \in Seq(Message)

IInv ==
  /\ Typed
  /\ timestamps \in Seq(Entry) /\ Ascending(timestamps)
  /\ recent \in Seq(Nat) /\ Len(recent) <= Window
  /\ rank <= IntMax + Window => Ranked(timestamps, recent, rank)

-----------------------------------------------------------------------------
(* A set of natural numbers has a least element.                           *)

LEMMA LessIsWellFounded ==
  \E R : /\ IsWellFoundedOn(R, Nat)
         /\ \A x, y \in Nat : y < x => <<y, x>> \in R
<1>1. \A x, y \in Nat : y < x => <<y, x>> \in OpToRel(<, Nat)
  BY DEF OpToRel
<1>2. QED
  BY <1>1, NatLessThanWellFounded

LEMMA Least ==
  ASSUME NEW T, T \subseteq Nat, T # {}
  PROVE  \E x \in T : \A y \in T : x <= y
<1>1. PICK R : /\ IsWellFoundedOn(R, Nat)
               /\ \A x, y \in Nat : y < x => <<y, x>> \in R
  BY LessIsWellFounded
<1>2. PICK x \in T : \A y \in T : ~ (<<y, x>> \in R)
  BY <1>1, WFMin
<1>3. \A z, y \in Nat : ~ (<<y, z>> \in R) => z <= y
  BY <1>1
<1>4. QED
  BY <1>2, <1>3

LEMMA MinIsLeast ==
  ASSUME NEW T, T \subseteq Nat, T # {}
  PROVE  Min(T) \in T /\ \A y \in T : Min(T) <= y
BY Least DEF Min

-----------------------------------------------------------------------------
(* The two operations on the list.                                         *)

LEMMA Joined ==
  ASSUME NEW S, NEW a \in Seq(S), NEW z \in Seq(S)
  PROVE  /\ a \o z \in Seq(S) /\ Len(a \o z) = Len(a) + Len(z)
         /\ \A k \in 1..Len(a) : (a \o z)[k] = a[k]
         /\ \A k \in 1..Len(z) : (a \o z)[Len(a) + k] = z[k]
<1>1. PICK m \in Nat, n \in Nat : m = Len(a) /\ n = Len(z)
  BY LenProperties
<1>2. PICK t : t = a \o z
  OBVIOUS
<1>3. /\ t \in Seq(S) /\ Len(t) = m + n
      /\ \A i \in 1 .. m + n : t[i] = IF i <= m THEN a[i] ELSE z[i - m]
  BY <1>1, <1>2, ConcatProperties
<1>4. \A k \in 1..m : t[k] = a[k]
  BY <1>3
<1>5. \A k \in 1..n : t[m + k] = z[k]
  <2> TAKE k \in 1..n
  <2>1. m + k \in 1..(m + n) /\ ~(m + k <= m) /\ (m + k) - m = k
    OBVIOUS
  <2>2. QED
    BY <1>3, <2>1
<1>6. QED
  BY <1>1, <1>2, <1>3, <1>4, <1>5

LEMMA InsertedAt ==
  ASSUME NEW S, NEW s \in Seq(S), NEW e \in S, NEW at \in 1..(Len(s) + 1)
  PROVE  /\ InsertAt(s, at, e) \in Seq(S)
         /\ Len(InsertAt(s, at, e)) = Len(s) + 1
         /\ InsertAt(s, at, e)[at] = e
         /\ \A k \in 1..(at - 1) : InsertAt(s, at, e)[k] = s[k]
         /\ \A k \in at..Len(s) : InsertAt(s, at, e)[k + 1] = s[k]
<1>1. PICK n \in Nat : n = Len(s)
  BY LenProperties
<1>2. at \in Nat /\ at >= 1 /\ at <= n + 1
  BY <1>1
<1>3. PICK a, b, z, t : /\ a = SubSeq(s, 1, at - 1) /\ z = SubSeq(s, at, Len(s))
                        /\ b = a \o <<e>> /\ t = b \o z
  OBVIOUS
<1>4. a \in Seq(S) /\ Len(a) = at - 1 /\ \A k \in 1..(at - 1) : a[k] = s[k]
  BY <1>3
<1>5. z \in Seq(S) /\ Len(z) = n - at + 1 /\ \A k \in 1..(n - at + 1) : z[k] = s[at + k - 1]
  BY <1>1, <1>3
<1>6. b \in Seq(S) /\ Len(b) = at /\ b[at] = e /\ \A k \in 1..(at - 1) : b[k] = s[k]
  BY <1>2, <1>3, <1>4
<1>7. /\ t \in Seq(S) /\ Len(t) = at + Len(z)
      /\ \A k \in 1..at : t[k] = b[k]
      /\ \A k \in 1..Len(z) : t[at + k] = z[k]
  <2>0. b \in Seq(S) /\ z \in Seq(S)
    BY <1>5, <1>6
  <2>1. /\ b \o z \in Seq(S) /\ Len(b \o z) = Len(b) + Len(z)
        /\ \A k \in 1..Len(b) : (b \o z)[k] = b[k]
        /\ \A k \in 1..Len(z) : (b \o z)[Len(b) + k] = z[k]
    BY <2>0, Joined
  <2>2. QED
    BY <1>3, <1>6, <2>1, Zenon
<1>8. \A k \in at..n : t[k + 1] = s[k]
  <2> TAKE k \in at..n
  <2>1. /\ k - at + 1 \in 1..Len(z) /\ k - at + 1 \in 1..(n - at + 1)
        /\ at + (k - at + 1) = k + 1 /\ at + (k - at + 1) - 1 = k
    BY <1>2, <1>5
  <2>2. t[at + (k - at + 1)] = s[at + (k - at + 1) - 1]
    BY <1>5, <1>7, <2>1
  <2>3. QED
    BY <2>1, <2>2
<1>9. Len(t) = n + 1 /\ t[at] = e /\ \A k \in 1..(at - 1) : t[k] = s[k]
  BY <1>2, <1>5, <1>6, <1>7
<1>10. InsertAt(s, at, e) = t
  BY <1>3 DEF InsertAt
<1>11. QED
  BY <1>1, <1>7, <1>8, <1>9, <1>10

LEMMA RemovedAt ==
  ASSUME NEW S, NEW s \in Seq(S), NEW at \in 1..Len(s)
  PROVE  /\ RemoveAt(s, at) \in Seq(S)
         /\ Len(RemoveAt(s, at)) = Len(s) - 1
         /\ \A k \in 1..(at - 1) : RemoveAt(s, at)[k] = s[k]
         /\ \A k \in at..(Len(s) - 1) : RemoveAt(s, at)[k] = s[k + 1]
<1>1. PICK n \in Nat : n = Len(s)
  BY LenProperties
<1>2. at \in Nat /\ at >= 1 /\ at <= n
  BY <1>1
<1>3. PICK a, z, t : /\ a = SubSeq(s, 1, at - 1) /\ z = SubSeq(s, at + 1, Len(s))
                     /\ t = a \o z
  OBVIOUS
<1>4. a \in Seq(S) /\ Len(a) = at - 1 /\ \A k \in 1..(at - 1) : a[k] = s[k]
  BY <1>3
<1>5. z \in Seq(S) /\ Len(z) = n - at /\ \A k \in 1..(n - at) : z[k] = s[at + k]
  BY <1>1, <1>3
<1>6. /\ t \in Seq(S) /\ Len(t) = at - 1 + Len(z)
      /\ \A k \in 1..(at - 1) : t[k] = a[k]
      /\ \A k \in 1..Len(z) : t[at - 1 + k] = z[k]
  <2>0. a \in Seq(S) /\ z \in Seq(S)
    BY <1>4, <1>5
  <2>1. /\ a \o z \in Seq(S) /\ Len(a \o z) = Len(a) + Len(z)
        /\ \A k \in 1..Len(a) : (a \o z)[k] = a[k]
        /\ \A k \in 1..Len(z) : (a \o z)[Len(a) + k] = z[k]
    BY <2>0, Joined
  <2>2. QED
    BY <1>3, <1>4, <2>1, Zenon
<1>7. \A k \in at..(n - 1) : t[k] = s[k + 1]
  <2> TAKE k \in at..(n - 1)
  <2>1. /\ k - at + 1 \in 1..Len(z) /\ k - at + 1 \in 1..(n - at)
        /\ at - 1 + (k - at + 1) = k /\ at + (k - at + 1) = k + 1
    BY <1>2, <1>5
  <2>2. t[at - 1 + (k - at + 1)] = s[at + (k - at + 1)]
    BY <1>5, <1>6, <2>1
  <2>3. QED
    BY <2>1, <2>2
<1>8. Len(t) = n - 1 /\ \A k \in 1..(at - 1) : t[k] = s[k]
  BY <1>2, <1>4, <1>5, <1>6
<1>9. RemoveAt(s, at) = t
  BY <1>3 DEF RemoveAt
<1>10. QED
  BY <1>1, <1>6, <1>7, <1>8, <1>9

LEMMA PlacesBefore ==
  \A n \in Nat : \A k \in 2..(n + 1) :
    (k - 1) + 1 = k /\ (k - 2) + 1 = k - 1 /\ (k - 1) - 1 = k - 2
OBVIOUS

\* An entry between two others keeps the order, and so does a removal.
LEMMA InsertKeepsOrder ==
  ASSUME NEW S, \A x \in S : x.val \in Nat,
         NEW s \in Seq(S), Ascending(s), NEW e \in S, NEW at \in 1..(Len(s) + 1),
         at > 1 => s[at - 1].val <= e.val,
         at <= Len(s) => e.val <= s[at].val
  PROVE  Ascending(InsertAt(s, at, e))
<1>1. PICK n \in Nat : n = Len(s)
  BY LenProperties
<1>2. PICK t \in Seq(S) : t = InsertAt(s, at, e)
  BY InsertedAt
<1>3. /\ Len(t) = n + 1 /\ t[at] = e
      /\ \A k \in 1..(at - 1) : t[k] = s[k]
      /\ \A k \in at..n : t[k + 1] = s[k]
  <2>1. /\ Len(InsertAt(s, at, e)) = Len(s) + 1 /\ InsertAt(s, at, e)[at] = e
        /\ \A k \in 1..(at - 1) : InsertAt(s, at, e)[k] = s[k]
        /\ \A k \in at..Len(s) : InsertAt(s, at, e)[k + 1] = s[k]
    BY InsertedAt
  <2>2. QED
    BY <1>1, <1>2, <2>1
<1>4. SUFFICES ASSUME NEW k \in 2..(n + 1) PROVE t[k - 1].val <= t[k].val
  BY <1>2, <1>3 DEF Ascending
<1>a. /\ at \in Nat /\ 1 <= at /\ at <= n + 1 /\ k \in Nat /\ 2 <= k /\ k <= n + 1
      /\ k - 1 \in Nat
  <2>1. at \in 1..(n + 1)
    BY <1>1
  <2>2. QED
    BY <2>1
<1>5. CASE k < at
  <2>1. k \in 1..(at - 1) /\ k - 1 \in 1..(at - 1) /\ k \in 2..n
    BY <1>a, <1>5
  <2>2. t[k] = s[k] /\ t[k - 1] = s[k - 1]
    BY <1>3, <2>1
  <2>3. QED
    BY <1>1, <2>1, <2>2, Zenon DEF Ascending
<1>6. CASE k = at
  <2>1. at - 1 \in 1..(at - 1) /\ at > 1
    BY <1>a, <1>6
  <2>2. t[k] = e /\ t[k - 1] = s[at - 1]
    BY <1>3, <1>6, <2>1
  <2>3. QED
    BY <2>1, <2>2
<1>7. CASE k = at + 1
  <2>1. at \in at..n /\ k - 1 = at /\ at <= n
    BY <1>a, <1>7
  <2>2. t[k - 1] = e /\ t[k] = s[at]
    BY <1>3, <1>7, <2>1
  <2>3. QED
    BY <1>1, <2>1, <2>2
<1>8. CASE k > at + 1
  <2>1. k - 1 \in at..n /\ k - 2 \in at..n
    BY <1>1, <1>8
  <2>2. t[(k - 1) + 1] = s[k - 1] /\ t[(k - 2) + 1] = s[k - 2]
    BY <1>3, <2>1
  <2>3. s[(k - 1) - 1].val <= s[k - 1].val
    <3>1. at \in 1..(n + 1)
      BY <1>1
    <3>2. k - 1 \in 2..n
      BY <1>8, <3>1
    <3>3. QED
      BY <1>1, <3>2, Zenon DEF Ascending
  <2>4. (k - 1) + 1 = k /\ (k - 2) + 1 = k - 1 /\ (k - 1) - 1 = k - 2
    BY <1>1, PlacesBefore
  <2>5. QED
    BY <2>2, <2>3, <2>4
<1>9. QED
  BY <1>1, <1>5, <1>6, <1>7, <1>8

LEMMA RemoveKeepsOrder ==
  ASSUME NEW S, \A x \in S : x.val \in Nat,
         NEW s \in Seq(S), Ascending(s), NEW at \in 1..Len(s)
  PROVE  Ascending(RemoveAt(s, at))
<1>1. PICK n \in Nat : n = Len(s)
  BY LenProperties
<1>2. PICK t \in Seq(S) : t = RemoveAt(s, at)
  BY RemovedAt
<1>3. /\ Len(t) = n - 1
      /\ \A k \in 1..(at - 1) : t[k] = s[k]
      /\ \A k \in at..(n - 1) : t[k] = s[k + 1]
  BY <1>1, <1>2, RemovedAt
<1>4. SUFFICES ASSUME NEW k \in 2..(n - 1) PROVE t[k - 1].val <= t[k].val
  BY <1>2, <1>3 DEF Ascending
<1>5. /\ k \in 2..Len(s) /\ k + 1 \in 2..Len(s) /\ (k + 1) - 1 = k /\ k - 1 \in 1..Len(s)
  BY <1>1
<1>6. s[k - 1].val <= s[k].val /\ s[k].val <= s[k + 1].val
  BY <1>5 DEF Ascending
<1>7. s[k - 1] \in S /\ s[k] \in S /\ s[k + 1] \in S
  BY <1>5, ElementOfSeq
<1>8. s[k - 1].val \in Nat /\ s[k].val \in Nat /\ s[k + 1].val \in Nat
  BY <1>7
<1>9. CASE k < at
  <2>1. t[k] = s[k] /\ t[k - 1] = s[k - 1]
    BY <1>1, <1>3, <1>9
  <2>2. QED
    BY <1>6, <2>1
<1>10. CASE k = at
  <2>1. t[k] = s[k + 1] /\ t[k - 1] = s[k - 1]
    BY <1>1, <1>3, <1>10
  <2>2. QED
    BY <1>6, <1>8, <2>1
<1>11. CASE k > at
  <2>1. k \in at..(n - 1) /\ k - 1 \in at..(n - 1) /\ (k - 1) + 1 = k
    BY <1>1, <1>11
  <2>2. t[k] = s[k + 1] /\ t[k - 1] = s[(k - 1) + 1]
    BY <1>3, <2>1
  <2>3. QED
    BY <1>6, <2>1, <2>2
<1>12. QED
  BY <1>1, <1>9, <1>10, <1>11

\* msm_vidc_insert_sort puts the entry in one place and keeps the order, also
\* when it finds no two entries to put it between.
LEMMA InsertSorts ==
  ASSUME NEW S, \A x \in S : x.val \in Nat,
         NEW s \in Seq(S), Ascending(s), NEW e \in S
  PROVE  \E at \in 1..(Len(s) + 1) :
           InsertSort(s, e) = InsertAt(s, at, e) /\ Ascending(InsertSort(s, e))
<1>1. PICK n \in Nat : n = Len(s) /\ (s = << >> <=> n = 0)
  BY LenProperties, EmptySeq
<1>2. e.val \in Nat /\ \A k \in 1..n : s[k].val \in Nat
  <2>1. \A k \in 1..n : s[k] \in S
    BY <1>1, ElementOfSeq, Zenon
  <2>2. QED
    BY <2>1
<1> DEFINE between == {k \in 2 .. Len(s) : s[k - 1].val <= e.val /\ e.val <= s[k].val}
<1>3. InsertSort(s, e) =
        InsertAt(s, IF s = << >> \/ e.val < s[1].val THEN 1
                    ELSE IF between # {} THEN Min(between) ELSE Len(s) + 1, e)
  BY DEF InsertSort
<1>4. between # {} => Min(between) \in between
  <2>1. between \subseteq Nat
    BY <1>1
  <2>2. QED
    BY <2>1, MinIsLeast
<1>5. CASE s = << >> \/ e.val < s[1].val
  <2>1. InsertSort(s, e) = InsertAt(s, 1, e)
    BY <1>3, <1>5
  <2>2. 1 \in 1..(Len(s) + 1) /\ (1 <= Len(s) => e.val <= s[1].val)
    BY <1>1, <1>2, <1>5
  <2>3. Ascending(InsertAt(s, 1, e))
    BY <2>2, InsertKeepsOrder
  <2>4. QED
    BY <2>1, <2>2, <2>3
<1>6. CASE s # << >> /\ ~(e.val < s[1].val) /\ between # {}
  <2>1. PICK at \in between : InsertSort(s, e) = InsertAt(s, at, e)
    BY <1>3, <1>4, <1>6
  <2>2. at \in 1..(Len(s) + 1) /\ s[at - 1].val <= e.val /\ e.val <= s[at].val
    BY <1>1
  <2>3. Ascending(InsertAt(s, at, e))
    BY <2>2, InsertKeepsOrder
  <2>4. QED
    BY <2>1, <2>2, <2>3
<1>7. CASE s # << >> /\ ~(e.val < s[1].val) /\ between = {}
  <2>1. InsertSort(s, e) = InsertAt(s, n + 1, e)
    BY <1>1, <1>3, <1>7
  <2>2. \A k \in 1..n : ~(e.val < s[k].val)
    <3> DEFINE above == {k \in 1..n : e.val < s[k].val}
    <3>1. SUFFICES ASSUME above # {} PROVE FALSE
      OBVIOUS
    <3>2. above \subseteq Nat
      BY <1>1
    <3>3. PICK k \in above : \A l \in above : k <= l
      BY <3>1, <3>2, Least
    <3>4. k \in 1..n /\ e.val < s[k].val /\ k # 1
      BY <1>7
    <3>5. k \in 2..n /\ k - 1 \in 1..n /\ ~(k <= k - 1)
      BY <3>4
    <3>6. ~(e.val < s[k - 1].val)
      BY <3>3, <3>5
    <3>7. s[k - 1].val <= e.val /\ e.val <= s[k].val
      BY <1>2, <3>4, <3>5, <3>6
    <3>8. k \in between
      BY <1>1, <3>5, <3>7
    <3>9. QED
      BY <1>7, <3>8
  <2>3. n + 1 \in 1..(Len(s) + 1) /\ ~(n + 1 <= Len(s)) /\ n \in 1..n /\ (n + 1) - 1 = n
    BY <1>1, <1>7
  <2>4. s[(n + 1) - 1].val <= e.val
    BY <1>2, <2>2, <2>3
  <2>5. Ascending(InsertAt(s, n + 1, e))
    BY <2>3, <2>4, InsertKeepsOrder
  <2>6. QED
    BY <2>1, <2>3, <2>5
<1>8. QED
  BY <1>5, <1>6, <1>7

-----------------------------------------------------------------------------
(* The ranks.                                                              *)

LEMMA InsertRanks ==
  ASSUME NEW s \in Seq(Entry), NEW r \in Seq(Nat), NEW n \in Nat, Ranked(s, r, n),
         NEW v \in Nat, NEW at \in 1..(Len(s) + 1)
  PROVE  Ranked(InsertAt(s, at, [val |-> v, rank |-> n]), Append(r, v), n + 1)
<1>1. PICK l \in Nat : l = Len(s) /\ l = Len(r) /\ l <= n
  BY LenProperties DEF Ranked
<1>2. PICK e \in Entry : e = [val |-> v, rank |-> n] /\ e.val = v /\ e.rank = n
  <2>1. [val |-> v, rank |-> n] \in Entry
    BY DEF Entry
  <2>2. QED
    BY <2>1
<1>3. PICK t : t = InsertAt(s, at, e)
  OBVIOUS
<1>4. /\ Len(t) = l + 1 /\ t[at] = e
      /\ \A k \in 1..(at - 1) : t[k] = s[k]
      /\ \A k \in at..l : t[k + 1] = s[k]
  <2>1. /\ Len(InsertAt(s, at, e)) = Len(s) + 1 /\ InsertAt(s, at, e)[at] = e
        /\ \A k \in 1..(at - 1) : InsertAt(s, at, e)[k] = s[k]
        /\ \A k \in at..Len(s) : InsertAt(s, at, e)[k + 1] = s[k]
    BY InsertedAt
  <2>2. QED
    BY <1>1, <1>3, <2>1
<1>5. PICK q : q = Append(r, v)
  OBVIOUS
<1>6. Len(q) = l + 1 /\ q[l + 1] = v /\ \A k \in 1..l : q[k] = r[k]
  BY <1>1, <1>5
<1>7. \A k \in 1..(l + 1) : k = at \/ \E j \in 1..l : t[k] = s[j] /\ j = IF k < at THEN k ELSE k - 1
  <2> TAKE k \in 1..(l + 1)
  <2>1. CASE k < at
    <3>1. k \in 1..(at - 1) /\ k \in 1..l
      BY <1>1, <2>1
    <3>2. QED
      BY <1>4, <2>1, <3>1
  <2>2. CASE k > at
    <3>1. k - 1 \in at..l /\ k - 1 \in 1..l /\ (k - 1) + 1 = k /\ ~(k < at)
      BY <1>1, <2>2
    <3>2. t[k] = s[k - 1]
      BY <1>4, <3>1
    <3>3. QED
      BY <3>1, <3>2
  <2>3. QED
    BY <1>1, <2>1, <2>2
<1>8. \A j \in 1..l : /\ n - l <= s[j].rank /\ s[j].rank < n /\ s[j].rank \in Nat
                      /\ s[j].val = r[s[j].rank - (n - l) + 1]
  <2> TAKE j \in 1..l
  <2>1. s[j] \in Entry
    BY <1>1, ElementOfSeq
  <2>2. QED
    BY <1>1, <2>1 DEF Ranked, Entry
<1>9. ASSUME NEW k \in 1..(l + 1)
      PROVE  /\ n - l <= t[k].rank /\ t[k].rank < n + 1
             /\ t[k].val = q[t[k].rank - (n - l) + 1]
  <2>1. CASE k = at
    <3>1. t[k].rank = n /\ t[k].val = v
      BY <1>2, <1>4, <2>1
    <3>2. n - (n - l) + 1 = l + 1 /\ n - l <= n /\ n < n + 1
      BY <1>1
    <3>3. QED
      BY <1>6, <3>1, <3>2
  <2>2. CASE k # at
    <3>1. PICK j \in 1..l : t[k] = s[j]
      BY <1>7, <2>2
    <3>2. PICK x \in Nat : /\ x = s[j].rank /\ n - l <= x /\ x < n
                           /\ s[j].val = r[x - (n - l) + 1]
      BY <1>8
    <3>3. x - (n - l) + 1 \in 1..l /\ x < n + 1
      <4>1. n - l <= x /\ x < n
        BY <3>2
      <4>2. x - (n - l) + 1 >= 1 /\ x - (n - l) + 1 <= l /\ x < n + 1
        BY <4>1
      <4>3. QED
        BY <4>2
    <3>4. s[j].val = q[x - (n - l) + 1]
      BY <1>6, <3>2, <3>3
    <3>5. QED
      BY <3>1, <3>2, <3>3, <3>4
  <2>3. QED
    BY <2>1, <2>2
<1>10. ASSUME NEW m \in (n - l)..n PROVE \E k \in 1..(l + 1) : t[k].rank = m
  <2>1. CASE m = n
    BY <1>1, <1>2, <1>4, <2>1
  <2>2. CASE m # n
    <3>1. m \in (n - Len(r))..(n - 1)
      BY <1>1, <2>2
    <3>2. PICK j \in 1..l : s[j].rank = m
      BY <1>1, <3>1 DEF Ranked
    <3>3. CASE j < at
      <4>1. j \in 1..(at - 1) /\ j \in 1..(l + 1)
        BY <1>1, <3>3
      <4>2. QED
        BY <1>4, <3>2, <4>1
    <3>4. CASE ~(j < at)
      <4>1. j \in at..l /\ j + 1 \in 1..(l + 1)
        BY <1>1, <3>4
      <4>2. QED
        BY <1>4, <3>2, <4>1
    <3>5. QED
      BY <3>3, <3>4
  <2>3. QED
    BY <2>1, <2>2
<1>11. ASSUME NEW k \in 1..(l + 1), NEW h \in 1..(l + 1), t[k].rank = t[h].rank
       PROVE  k = h
  <2>1. at \in 1..(l + 1) /\ t[at].rank = n
    BY <1>1, <1>2, <1>4
  <2>2. ASSUME NEW x \in 1..(l + 1), x # at PROVE t[x].rank < n /\ t[x].rank \in Nat
    BY <1>7, <1>8, <2>2
  <2>3. CASE k = at \/ h = at
    BY <1>11, <2>1, <2>2, <2>3
  <2>4. CASE k # at /\ h # at
    <3>1. PICK i \in 1..l : t[k] = s[i] /\ i = IF k < at THEN k ELSE k - 1
      BY <1>7, <2>4
    <3>2. PICK j \in 1..l : t[h] = s[j] /\ j = IF h < at THEN h ELSE h - 1
      BY <1>7, <2>4
    <3>3. s[i].rank = s[j].rank
      BY <1>11, <3>1, <3>2
    <3>4. i = j
      BY <1>1, <3>3 DEF Ranked
    <3>5. QED
      BY <2>4, <3>1, <3>2, <3>4
  <2>5. QED
    BY <2>3, <2>4
<1>12. /\ (n + 1) - Len(q) = n - l /\ (n + 1) - 1 = n /\ Len(q) <= n + 1
  BY <1>1, <1>6
<1>13. Ranked(t, q, n + 1)
  BY <1>4, <1>6, <1>9, <1>10, <1>11, <1>12 DEF Ranked
<1>14. QED
  BY <1>2, <1>3, <1>5, <1>13

\* msm_vidc_get_least_rank_ts finds the oldest, and no other, while its rank
\* is below INT_MAX.
LEMMA OldestIsFound ==
  ASSUME NEW s \in Seq(Entry), NEW r, NEW n \in Nat, Ranked(s, r, n),
         Len(s) > 0, n - Len(r) < IntMax
  PROVE  \E at \in 1..Len(s) : LeastRank(s) = {at} /\ s[at].rank = n - Len(r)
<1>1. PICK l \in Nat : l = Len(s) /\ l = Len(r) /\ l <= n /\ l >= 1
  BY LenProperties DEF Ranked
<1>2. PICK o \in Nat : o = n - l /\ o < IntMax /\ o \in (n - l)..(n - 1)
  BY <1>1
<1>3. PICK at \in 1..l : s[at].rank = o
  BY <1>1, <1>2 DEF Ranked
<1>4. \A k \in 1..l : s[k].rank \in Nat /\ o <= s[k].rank
  <2> TAKE k \in 1..l
  <2>1. s[k] \in Entry
    BY <1>1, ElementOfSeq
  <2>2. QED
    BY <1>1, <1>2, <2>1 DEF Ranked, Entry
<1>5. \A k \in 1..l : s[k].rank = o => k = at
  BY <1>1, <1>3 DEF Ranked
<1>6. at \in LeastRank(s)
  BY <1>1, <1>2, <1>3, <1>4 DEF LeastRank
<1>7. ASSUME NEW k \in LeastRank(s) PROVE k = at
  <2>1. k \in 1..l /\ s[k].rank <= s[at].rank
    BY <1>1, <1>3 DEF LeastRank
  <2>2. s[k].rank = o
    BY <1>2, <1>3, <1>4, <2>1
  <2>3. QED
    BY <1>5, <2>1, <2>2
<1>8. LeastRank(s) = {at}
  BY <1>6, <1>7
<1>9. QED
  BY <1>1, <1>2, <1>3, <1>8

LEMMA RemoveRanks ==
  ASSUME NEW s \in Seq(Entry), NEW r \in Seq(Nat), NEW n \in Nat, Ranked(s, r, n),
         NEW at \in 1..Len(s), s[at].rank = n - Len(r)
  PROVE  Ranked(RemoveAt(s, at), Tail(r), n)
<1>1. PICK l \in Nat : l = Len(s) /\ l = Len(r) /\ l <= n /\ l >= 1
  BY LenProperties DEF Ranked
<1>2. PICK t : t = RemoveAt(s, at)
  OBVIOUS
<1>3. /\ Len(t) = l - 1
      /\ \A k \in 1..(at - 1) : t[k] = s[k]
      /\ \A k \in at..(l - 1) : t[k] = s[k + 1]
  <2>1. /\ Len(RemoveAt(s, at)) = Len(s) - 1
        /\ \A k \in 1..(at - 1) : RemoveAt(s, at)[k] = s[k]
        /\ \A k \in at..(Len(s) - 1) : RemoveAt(s, at)[k] = s[k + 1]
    BY RemovedAt
  <2>2. QED
    BY <1>1, <1>2, <2>1
<1>4. PICK q : q = Tail(r)
  OBVIOUS
<1>5. Len(q) = l - 1 /\ \A k \in 1..(l - 1) : q[k] = r[k + 1]
  BY <1>1, <1>4
<1>6. PICK o \in Nat : o = n - l /\ s[at].rank = o
  BY <1>1
<1>7. \A k \in 1..(l - 1) : \E j \in 1..l \ {at} : t[k] = s[j] /\ j = IF k < at THEN k ELSE k + 1
  <2> TAKE k \in 1..(l - 1)
  <2>1. CASE k < at
    <3>1. k \in 1..(at - 1) /\ k \in 1..l \ {at}
      BY <1>1, <2>1
    <3>2. QED
      BY <1>3, <2>1, <3>1
  <2>2. CASE ~(k < at)
    <3>1. k \in at..(l - 1) /\ k + 1 \in 1..l \ {at}
      BY <1>1, <2>2
    <3>2. QED
      BY <1>3, <2>2, <3>1
  <2>3. QED
    BY <2>1, <2>2
<1>8. \A j \in 1..l : /\ o <= s[j].rank /\ s[j].rank < n /\ s[j].rank \in Nat
                      /\ s[j].val = r[s[j].rank - o + 1]
                      /\ j # at => s[j].rank # o
  <2> TAKE j \in 1..l
  <2>1. s[j] \in Entry
    BY <1>1, ElementOfSeq
  <2>2. s[j].rank = o => j = at
    BY <1>1, <1>6 DEF Ranked
  <2>3. s[j].rank \in Nat
    BY <2>1 DEF Entry
  <2>4. n - Len(r) = o /\ j \in 1..Len(s)
    BY <1>1, <1>6
  <2>5. /\ n - Len(r) <= s[j].rank /\ s[j].rank < n
        /\ s[j].val = r[s[j].rank - (n - Len(r)) + 1]
    BY <2>4 DEF Ranked
  <2>6. QED
    BY <2>2, <2>3, <2>4, <2>5
<1>9. ASSUME NEW k \in 1..(l - 1)
      PROVE  /\ o + 1 <= t[k].rank /\ t[k].rank < n
             /\ t[k].val = q[t[k].rank - (o + 1) + 1]
  <2>1. PICK j \in 1..l \ {at} : t[k] = s[j]
    BY <1>7
  <2>2. PICK x \in Nat : x = s[j].rank /\ o <= x /\ x < n /\ x # o /\ s[j].val = r[x - o + 1]
    BY <1>8
  <2>3. /\ o + 1 <= x /\ x - (o + 1) + 1 \in 1..(l - 1)
        /\ (x - (o + 1) + 1) + 1 = x - o + 1
    <3>1. o <= x /\ x < n /\ x # o /\ o = n - l
      BY <1>6, <2>2
    <3>2. /\ x - (o + 1) + 1 >= 1 /\ x - (o + 1) + 1 <= l - 1 /\ o + 1 <= x
          /\ (x - (o + 1) + 1) + 1 = x - o + 1
      BY <3>1
    <3>3. QED
      BY <3>2
  <2>4. s[j].val = q[x - (o + 1) + 1]
    BY <1>5, <2>2, <2>3
  <2>5. QED
    BY <2>1, <2>2, <2>3, <2>4
<1>10. ASSUME NEW m \in (o + 1)..(n - 1) PROVE \E k \in 1..(l - 1) : t[k].rank = m
  <2>1. m \in (n - Len(r))..(n - 1)
    BY <1>1, <1>6
  <2>2. PICK j \in 1..l : s[j].rank = m
    BY <1>1, <2>1 DEF Ranked
  <2>3. j # at
    BY <1>6, <2>2
  <2>4. CASE j < at
    <3>1. j \in 1..(at - 1) /\ j \in 1..(l - 1)
      BY <1>1, <2>4
    <3>2. QED
      BY <1>3, <2>2, <3>1
  <2>5. CASE j > at
    <3>1. j - 1 \in at..(l - 1) /\ j - 1 \in 1..(l - 1) /\ (j - 1) + 1 = j
      BY <1>1, <2>5
    <3>2. QED
      BY <1>3, <2>2, <3>1
  <2>6. j < at \/ j > at
    <3>1. at \in Nat /\ j \in Nat
      BY <1>1
    <3>2. QED
      BY <2>3, <3>1
  <2>7. QED
    BY <2>4, <2>5, <2>6
<1>11. ASSUME NEW k \in 1..(l - 1), NEW h \in 1..(l - 1), t[k].rank = t[h].rank
       PROVE  k = h
  <2>1. PICK i \in 1..l \ {at} : t[k] = s[i] /\ i = IF k < at THEN k ELSE k + 1
    BY <1>7
  <2>2. PICK j \in 1..l \ {at} : t[h] = s[j] /\ j = IF h < at THEN h ELSE h + 1
    BY <1>7
  <2>3. i = j
    <3>1. s[i].rank = s[j].rank /\ i \in 1..Len(s) /\ j \in 1..Len(s)
      BY <1>1, <1>11, <2>1, <2>2
    <3>2. QED
      BY <3>1 DEF Ranked
  <2>4. QED
    BY <1>1, <2>1, <2>2, <2>3
<1>12. n - Len(q) = o + 1 /\ Len(q) <= n
  BY <1>1, <1>5, <1>6
<1>13. Ranked(t, q, n)
  BY <1>3, <1>5, <1>9, <1>10, <1>11, <1>12 DEF Ranked
<1>14. QED
  BY <1>2, <1>4, <1>13

-----------------------------------------------------------------------------
(* The window.                                                             *)

\* A stamp more: the list stays in order, and, while the ranks of the window
\* are below INT_MAX, holds the last stamps.
LEMMA SlideKeeps ==
  ASSUME NEW s \in Seq(Entry), Ascending(s), NEW r \in Seq(Nat), Len(r) <= Window,
         NEW v \in Nat, rank \in Nat
  PROVE  /\ Slide(s, v) \in Seq(Entry) /\ Ascending(Slide(s, v))
         /\ LastOf(Append(r, v)) \in Seq(Nat) /\ Len(LastOf(Append(r, v))) <= Window
         /\ Ranked(s, r, rank) /\ rank + 1 <= IntMax + Window =>
              Ranked(Slide(s, v), LastOf(Append(r, v)), rank + 1)
<1> DEFINE e == [val |-> v, rank |-> rank]
<1>0. \A x \in Entry : x.val \in Nat
  BY DEF Entry
<1>1. e \in Entry
  BY DEF Entry
<1>2. PICK at \in 1..(Len(s) + 1) :
        InsertSort(s, e) = InsertAt(s, at, e) /\ Ascending(InsertSort(s, e))
  BY <1>0, <1>1, InsertSorts
<1>3. PICK t \in Seq(Entry) : t = InsertSort(s, e) /\ Len(t) = Len(s) + 1 /\ Ascending(t)
  <2>1. InsertAt(s, at, e) \in Seq(Entry) /\ Len(InsertAt(s, at, e)) = Len(s) + 1
    BY <1>1, InsertedAt
  <2>2. QED
    BY <1>2, <2>1
<1>4. PICK q \in Seq(Nat) : q = Append(r, v) /\ Len(q) = Len(r) + 1
  <2>1. Append(r, v) \in Seq(Nat) /\ Len(Append(r, v)) = Len(r) + 1
    OBVIOUS
  <2>2. QED
    BY <2>1
<1>5. Ranked(s, r, rank) => Ranked(t, q, rank + 1)
  BY <1>2, <1>3, <1>4, InsertRanks
<1>6. /\ Slide(s, v) = IF Len(t) <= Window \/ LeastRank(t) = {} THEN t
                       ELSE RemoveAt(t, Min(LeastRank(t)))
      /\ LastOf(q) = IF Len(q) <= Window THEN q ELSE Tail(q)
  BY <1>3 DEF Slide, LastOf
<1>7. LeastRank(t) # {} => Min(LeastRank(t)) \in 1..Len(t)
  <2>1. LeastRank(t) \subseteq 1..Len(t)
    BY DEF LeastRank
  <2>2. LeastRank(t) \subseteq Nat
    BY <2>1
  <2>3. QED
    BY <2>1, <2>2, MinIsLeast
<1>8. Slide(s, v) \in Seq(Entry) /\ Ascending(Slide(s, v))
  <2>1. CASE Len(t) <= Window \/ LeastRank(t) = {}
    BY <1>3, <1>6, <2>1
  <2>2. CASE ~(Len(t) <= Window \/ LeastRank(t) = {})
    <3>1. PICK m \in 1..Len(t) : Slide(s, v) = RemoveAt(t, m)
      BY <1>6, <1>7, <2>2
    <3>2. QED
      BY <1>0, <1>3, <3>1, RemovedAt, RemoveKeepsOrder
  <2>3. QED
    BY <2>1, <2>2
<1>9. LastOf(q) \in Seq(Nat) /\ Len(LastOf(q)) <= Window
  <2>1. CASE Len(q) <= Window
    BY <1>6, <2>1
  <2>2. CASE ~(Len(q) <= Window)
    BY <1>4, <1>6, <2>2, WindowAssumption
  <2>3. QED
    BY <2>1, <2>2
<1>10. ASSUME Ranked(s, r, rank), rank + 1 <= IntMax + Window
       PROVE  Ranked(Slide(s, v), LastOf(q), rank + 1)
  <2>1. Ranked(t, q, rank + 1) /\ Len(t) = Len(q) /\ rank + 1 \in Nat
    BY <1>5, <1>10 DEF Ranked
  <2>2. CASE Len(q) <= Window
    BY <1>6, <2>1, <2>2
  <2>3. CASE ~(Len(q) <= Window)
    <3>1. Len(q) = Window + 1 /\ Len(t) > 0 /\ (rank + 1) - Len(q) < IntMax
      BY <1>4, <1>10, <2>1, <2>3, WindowAssumption
    <3>2. PICK m \in 1..Len(t) : LeastRank(t) = {m} /\ t[m].rank = (rank + 1) - Len(q)
      BY <2>1, <3>1, OldestIsFound
    <3>3. Min(LeastRank(t)) = m
      <4>1. LeastRank(t) \subseteq Nat /\ LeastRank(t) # {}
        BY <3>2
      <4>2. QED
        BY <3>2, <4>1, MinIsLeast
    <3>4. Slide(s, v) = RemoveAt(t, m) /\ LastOf(q) = Tail(q)
      BY <1>6, <2>1, <2>3, <3>2, <3>3
    <3>5. Ranked(RemoveAt(t, m), Tail(q), rank + 1)
      BY <2>1, <3>2, RemoveRanks
    <3>6. QED
      BY <3>4, <3>5
  <2>4. QED
    BY <2>2, <2>3
<1>11. QED
  BY <1>4, <1>8, <1>9, <1>10

-----------------------------------------------------------------------------
(* How many entries of a sequence are in a set.                            *)

Places(s, S) == {k \in 1..Len(s) : s[k] \in S}
Num(s, S)    == Cardinality(Places(s, S))

LEMMA NumType ==
  ASSUME NEW X, NEW s \in Seq(X), NEW S
  PROVE  /\ IsFiniteSet(Places(s, S)) /\ Num(s, S) \in Nat
         /\ Num(s, S) = 0 <=> \A k \in 1..Len(s) : s[k] \notin S
<1>1. Len(s) \in Nat
  OBVIOUS
<1>2. IsFiniteSet(1..Len(s))
  BY <1>1, FS_Interval
<1>3. Places(s, S) \in SUBSET (1..Len(s))
  BY DEF Places
<1>4. IsFiniteSet(Places(s, S))
  BY <1>2, <1>3, FS_Subset
<1>5. Num(s, S) = 0 <=> Places(s, S) = {}
  BY <1>4, FS_EmptySet DEF Num
<1> QED
  BY <1>4, <1>5, FS_CardinalityType DEF Num, Places

LEMMA NumNone ==
  ASSUME NEW S PROVE Num(<< >>, S) = 0
<1>1. Places(<< >>, S) = {}
  BY DEF Places
<1> QED
  BY <1>1, FS_EmptySet DEF Num

LEMMA NumOne ==
  ASSUME NEW x, NEW S PROVE Num(<<x>>, S) = IF x \in S THEN 1 ELSE 0
<1>0. Len(<<x>>) = 1 /\ <<x>>[1] = x /\ 1..1 = {1}
  OBVIOUS
<1>1. Places(<<x>>, S) = IF x \in S THEN {1} ELSE {}
  BY <1>0 DEF Places
<1> QED
  BY <1>1, FS_EmptySet, FS_Singleton DEF Num

LEMMA NumJoined ==
  ASSUME NEW X, NEW a \in Seq(X), NEW z \in Seq(X), NEW S
  PROVE  Num(a \o z, S) = Num(a, S) + Num(z, S)
<1> DEFINE t == a \o z
           m == Len(a)
           P == Places(z, S)
           Q == {k \in (m + 1)..(m + Len(z)) : z[k - m] \in S}
           f == [k \in P |-> m + k]
<1>1. /\ t \in Seq(X) /\ Len(t) = m + Len(z) /\ m \in Nat /\ Len(z) \in Nat
      /\ \A k \in 1..m : t[k] = a[k]
      /\ \A k \in 1..Len(z) : t[m + k] = z[k]
  BY Joined
<1>2. \A k \in (m + 1)..(m + Len(z)) : k - m \in 1..Len(z) /\ t[k] = z[k - m]
  <2> TAKE k \in (m + 1)..(m + Len(z))
  <2>1. k - m \in 1..Len(z) /\ m + (k - m) = k
    BY <1>1
  <2> QED
    BY <1>1, <2>1
<1>3. Places(t, S) = Places(a, S) \cup Q
  <2> HIDE DEF t
  <2> QED
    BY <1>1, <1>2 DEF Places
<1>4. Places(a, S) \cap Q = {}
  BY <1>1 DEF Places
<1>5. f \in Bijection(P, Q)
  <2>1. \A k \in P : k \in 1..Len(z) /\ m + k \in Q
    <3> TAKE k \in P
    <3>1. k \in 1..Len(z) /\ z[k] \in S
      BY DEF Places
    <3>2. m + k \in (m + 1)..(m + Len(z)) /\ (m + k) - m = k
      BY <1>1, <3>1
    <3> QED
      BY <3>1, <3>2
  <2>2. \A k \in Q : k - m \in P /\ m + (k - m) = k
    BY <1>1, <1>2 DEF Places
  <2>3. \A k, l \in P : m + k = m + l => k = l
    BY <1>1, <2>1
  <2> HIDE DEF P, Q
  <2>4. f \in [P -> Q] /\ \A k \in P : f[k] = m + k
    BY <2>1
  <2>5. \A k, l \in P : f[k] = f[l] => k = l
    BY <2>3, <2>4
  <2>6. \A q \in Q : \E p \in P : f[p] = q
    BY <2>2, <2>4
  <2> HIDE DEF f
  <2> QED
    BY <2>4, <2>5, <2>6 DEF Bijection, Injection, Surjection, IsInjective
<1>6. IsFiniteSet(P) /\ IsFiniteSet(Places(a, S)) /\ Num(a, S) \in Nat /\ Num(z, S) \in Nat
  BY NumType
<1>7. IsFiniteSet(Q) /\ Cardinality(Q) = Cardinality(P)
  BY <1>5, <1>6, FS_Bijection DEF ExistsBijection
<1> HIDE DEF Q, P
<1>8. Cardinality(Places(t, S)) = Cardinality(Places(a, S)) + Cardinality(Q) - Cardinality({})
  BY <1>3, <1>4, <1>6, <1>7, FS_Union
<1>9. Cardinality({}) = 0
  BY FS_EmptySet
<1> QED
  BY <1>6, <1>7, <1>8, <1>9 DEF Num, P

LEMMA NumAppend ==
  ASSUME NEW X, NEW s \in Seq(X), NEW x \in X, NEW S
  PROVE  Num(Append(s, x), S) = Num(s, S) + (IF x \in S THEN 1 ELSE 0)
<1>1. PICK z \in Seq(X) : z = <<x>>
  <2>1. <<x>> \in Seq(X)
    OBVIOUS
  <2>2. QED
    BY <2>1
<1>2. Append(s, x) = s \o z
  BY <1>1, AppendIsConcat
<1>3. Num(s \o z, S) = Num(s, S) + Num(z, S)
  BY NumJoined
<1>4. Num(z, S) = IF x \in S THEN 1 ELSE 0
  BY <1>1, NumOne
<1>5. QED
  BY <1>2, <1>3, <1>4

\* A part of a sequence and what comes before and after it.
LEMMA NumSplit ==
  ASSUME NEW X, NEW s \in Seq(X), NEW k \in 0..Len(s), NEW S
  PROVE  /\ SubSeq(s, 1, k) \in Seq(X) /\ SubSeq(s, k + 1, Len(s)) \in Seq(X)
         /\ Num(s, S) = Num(SubSeq(s, 1, k), S) + Num(SubSeq(s, k + 1, Len(s)), S)
<1>1. PICK n \in Nat : n = Len(s)
  BY LenProperties
<1>2. 1 \in 1..(Len(s) + 1) /\ k \in (1 - 1)..Len(s) /\ n \in k..Len(s)
  BY <1>1
<1>3. SubSeq(s, 1, k) \o SubSeq(s, k + 1, n) = SubSeq(s, 1, n)
  BY <1>2, ConcatAdjacentSubSeq
<1>4. SubSeq(s, 1, n) = s
  BY <1>1, SubSeqFull
<1>5. \A i \in 1..n : s[i] \in X
  BY <1>1, ElementOfSeq
<1>6. k \in Int /\ n \in Int /\ k + 1 \in Int /\ 1..k \subseteq 1..n /\ (k + 1)..n \subseteq 1..n
  BY <1>1
<1>7. SubSeq(s, 1, k) \in Seq(X)
  BY <1>5, <1>6, SubSeqProperties
<1>8. SubSeq(s, k + 1, n) \in Seq(X)
  BY <1>5, <1>6, SubSeqProperties
<1>9. PICK a \in Seq(X), z \in Seq(X) : a = SubSeq(s, 1, k) /\ z = SubSeq(s, k + 1, n)
  BY <1>7, <1>8
<1>10. Num(a \o z, S) = Num(a, S) + Num(z, S)
  BY NumJoined
<1>11. QED
  BY <1>1, <1>3, <1>4, <1>9, <1>10

LEMMA NumTail ==
  ASSUME NEW X, NEW s \in Seq(X), s # << >>, NEW S
  PROVE  Num(s, S) = Num(Tail(s), S) + (IF Head(s) \in S THEN 1 ELSE 0)
<1>1. PICK n \in Nat : n = Len(s) /\ n > 0
  BY LenProperties, EmptySeq
<1>2. PICK a \in Seq(X), z \in Seq(X) : /\ a = SubSeq(s, 1, 1) /\ z = SubSeq(s, 2, n)
                                       /\ Num(s, S) = Num(a, S) + Num(z, S)
  <2>1. PICK k \in 0..Len(s) : k = 1 /\ k + 1 = 2
    BY <1>1
  <2>2. /\ SubSeq(s, 1, k) \in Seq(X) /\ SubSeq(s, k + 1, Len(s)) \in Seq(X)
        /\ Num(s, S) = Num(SubSeq(s, 1, k), S) + Num(SubSeq(s, k + 1, Len(s)), S)
    BY NumSplit, Zenon
  <2>3. QED
    BY <1>1, <2>1, <2>2
<1>3. z = Tail(s)
  BY <1>1, <1>2, TailIsSubSeq
<1>4. a = <<Head(s)>>
  <2>1. 1 \in 1..Len(s)
    BY <1>1
  <2>2. a = SubSeq(s, 1, 0) \o <<s[1]>>
    BY <1>2, <2>1, SubSeqRecursiveSecond
  <2>3. SubSeq(s, 1, 0) = << >> /\ s[1] = Head(s) /\ s[1] \in X
    BY <2>1, SubSeqEmpty, ElementOfSeq
  <2>4. << >> \o <<s[1]>> = <<s[1]>>
    OBVIOUS
  <2>5. QED
    BY <2>2, <2>3, <2>4
<1>5. Num(a, S) = IF Head(s) \in S THEN 1 ELSE 0
  BY <1>4, NumOne
<1>6. PICK i \in Nat, j \in Nat : i = Num(a, S) /\ j = Num(z, S)
  BY NumType
<1>7. Num(s, S) = j + i
  BY <1>2, <1>6
<1>8. QED
  BY <1>3, <1>5, <1>6, <1>7, Zenon

LEMMA NumInserted ==
  ASSUME NEW X, NEW s \in Seq(X), NEW e \in X, NEW at \in 1..(Len(s) + 1), NEW S
  PROVE  Num(InsertAt(s, at, e), S) = Num(s, S) + (IF e \in S THEN 1 ELSE 0)
<1>1. PICK n \in Nat : n = Len(s)
  BY LenProperties
<1>2. PICK a \in Seq(X), z \in Seq(X) :
         /\ a = SubSeq(s, 1, at - 1) /\ z = SubSeq(s, at, Len(s))
         /\ Num(s, S) = Num(a, S) + Num(z, S)
  <2>1. PICK k \in 0..Len(s) : k = at - 1 /\ k + 1 = at
    BY <1>1
  <2>2. /\ SubSeq(s, 1, k) \in Seq(X) /\ SubSeq(s, k + 1, Len(s)) \in Seq(X)
        /\ Num(s, S) = Num(SubSeq(s, 1, k), S) + Num(SubSeq(s, k + 1, Len(s)), S)
    BY NumSplit, Zenon
  <2>3. QED
    BY <2>1, <2>2
<1>3. PICK b \in Seq(X) : b = <<e>>
  <2>1. <<e>> \in Seq(X)
    OBVIOUS
  <2>2. QED
    BY <2>1
<1>4. PICK c \in Seq(X) : c = a \o b
  BY ConcatProperties
<1>5. Num(c, S) = Num(a, S) + Num(b, S)
  BY <1>4, NumJoined
<1>6. Num(c \o z, S) = Num(c, S) + Num(z, S)
  BY NumJoined
<1>7. InsertAt(s, at, e) = c \o z
  BY <1>2, <1>3, <1>4 DEF InsertAt
<1>8. Num(b, S) = IF e \in S THEN 1 ELSE 0
  BY <1>3, NumOne
<1>9. Num(a, S) \in Nat /\ Num(z, S) \in Nat
  BY NumType
<1>10. QED
  BY <1>2, <1>5, <1>6, <1>7, <1>8, <1>9

LEMMA NumRemoved ==
  ASSUME NEW X, NEW s \in Seq(X), NEW at \in 1..Len(s), NEW S
  PROVE  Num(s, S) = Num(RemoveAt(s, at), S) + (IF s[at] \in S THEN 1 ELSE 0)
<1>1. PICK n \in Nat : n = Len(s)
  BY LenProperties
<1>2. PICK c \in Seq(X), z \in Seq(X) :
         /\ c = SubSeq(s, 1, at) /\ z = SubSeq(s, at + 1, Len(s))
         /\ Num(s, S) = Num(c, S) + Num(z, S)
  <2>1. at \in 0..Len(s)
    BY <1>1
  <2>2. /\ SubSeq(s, 1, at) \in Seq(X) /\ SubSeq(s, at + 1, Len(s)) \in Seq(X)
        /\ Num(s, S) = Num(SubSeq(s, 1, at), S) + Num(SubSeq(s, at + 1, Len(s)), S)
    BY <2>1, NumSplit, Zenon
  <2>3. QED
    BY <2>2
<1>3. PICK a \in Seq(X) : a = SubSeq(s, 1, at - 1)
  <2>1. PICK k \in 0..Len(s) : k = at - 1
    BY <1>1
  <2>2. SubSeq(s, 1, k) \in Seq(X)
    BY NumSplit, Zenon
  <2>3. QED
    BY <2>1, <2>2
<1>4. PICK b \in Seq(X) : b = <<s[at]>>
  <2>1. s[at] \in X
    BY ElementOfSeq
  <2>2. <<s[at]>> \in Seq(X)
    BY <2>1
  <2>3. QED
    BY <2>2
<1>5. c = a \o b
  <2>1. 1 \in 1..Len(s) /\ at \in 1..Len(s)
    BY <1>1
  <2>2. QED
    BY <1>2, <1>3, <1>4, <2>1, SubSeqRecursiveSecond
<1>6. Num(c, S) = Num(a, S) + Num(b, S)
  BY <1>5, NumJoined
<1>7. Num(a \o z, S) = Num(a, S) + Num(z, S)
  BY NumJoined
<1>8. RemoveAt(s, at) = a \o z
  BY <1>2, <1>3 DEF RemoveAt
<1>9. Num(b, S) = IF s[at] \in S THEN 1 ELSE 0
  BY <1>4, NumOne
<1>10. Num(a, S) \in Nat /\ Num(z, S) \in Nat
  BY NumType
<1>11. QED
  BY <1>2, <1>6, <1>7, <1>8, <1>9, <1>10

-----------------------------------------------------------------------------
(* The stamps that are listed.                                             *)

Stamp == [val : Nat]
At(v) == {e \in Stamp : e.val = v}

LEMMA StampHas ==
  /\ \A e \in Stamp : e.val \in Nat /\ e = [val |-> e.val]
  /\ \A v \in Nat : /\ [val |-> v] \in Stamp
                    /\ \A w : [val |-> v] \in At(w) <=> v = w
BY DEF Stamp, At

\* In a list in order the first entry is the least.
LEMMA FirstIsLeast ==
  ASSUME NEW s \in Seq(Stamp), Ascending(s)
  PROVE  \A k \in 1..Len(s) : s[1].val <= s[k].val
<1> DEFINE lower == {k \in 1..Len(s) : ~(s[1].val <= s[k].val)}
<1>1. PICK n \in Nat : n = Len(s)
  BY LenProperties
<1>2. \A k \in 1..n : s[k].val \in Nat
  BY <1>1, ElementOfSeq, StampHas
<1>3. SUFFICES ASSUME lower # {} PROVE FALSE
  OBVIOUS
<1>4. PICK k \in lower : \A l \in lower : k <= l
  <2>1. lower \subseteq Nat
    BY <1>1
  <2>2. QED
    BY <1>3, <2>1, Least
<1>5. k \in 1..n /\ ~(s[1].val <= s[k].val)
  BY <1>1
<1>6. k # 1 /\ 1 \in 1..n
  BY <1>2, <1>5
<1>7. k \in 2..n /\ k - 1 \in 1..n /\ ~(k <= k - 1)
  BY <1>5, <1>6
<1>8. s[1].val <= s[k - 1].val
  BY <1>1, <1>4, <1>7
<1>9. s[k - 1].val <= s[k].val
  BY <1>1, <1>7 DEF Ascending
<1>10. QED
  BY <1>2, <1>5, <1>6, <1>7, <1>8, <1>9

\* msm_vidc_ts_reorder_insert_timestamp lists a stamp more.
LEMMA SortedIn ==
  ASSUME NEW s \in Seq(Stamp), Ascending(s), NEW v \in Nat, NEW S
  PROVE  /\ InsertSort(s, [val |-> v]) \in Seq(Stamp)
         /\ Ascending(InsertSort(s, [val |-> v]))
         /\ Num(InsertSort(s, [val |-> v]), S)
              = Num(s, S) + (IF [val |-> v] \in S THEN 1 ELSE 0)
<1>1. PICK e \in Stamp : e = [val |-> v]
  BY StampHas
<1>2. \A x \in Stamp : x.val \in Nat
  BY StampHas
<1>3. PICK at \in 1..(Len(s) + 1) :
        InsertSort(s, e) = InsertAt(s, at, e) /\ Ascending(InsertSort(s, e))
  BY <1>2, InsertSorts
<1>4. InsertAt(s, at, e) \in Seq(Stamp)
  BY InsertedAt
<1>5. Num(InsertAt(s, at, e), S) = Num(s, S) + (IF e \in S THEN 1 ELSE 0)
  BY NumInserted
<1>6. QED
  BY <1>1, <1>3, <1>4, <1>5, Zenon

\* msm_vidc_ts_reorder_remove_timestamp takes one entry of that stamp, if
\* there is one.
LEMMA RemovedStamp ==
  ASSUME NEW s \in Seq(Stamp), Ascending(s), NEW v \in Nat, NEW S
  PROVE  /\ RemoveTimestamp(s, v) \in Seq(Stamp)
         /\ Ascending(RemoveTimestamp(s, v))
         /\ Num(s, At(v)) = 0 => RemoveTimestamp(s, v) = s
         /\ Num(s, At(v)) # 0 =>
              Num(s, S) = Num(RemoveTimestamp(s, v), S)
                            + (IF [val |-> v] \in S THEN 1 ELSE 0)
<1> DEFINE at == {k \in 1 .. Len(s) : s[k].val = v}
<1>1. PICK n \in Nat : n = Len(s)
  BY LenProperties
<1>2. \A k \in 1..Len(s) : s[k] \in Stamp
  BY ElementOfSeq
<1>3. Num(s, At(v)) = 0 <=> at = {}
  <2>1. Num(s, At(v)) = 0 <=> \A k \in 1..Len(s) : s[k] \notin At(v)
    BY NumType
  <2>2. \A k \in 1..Len(s) : s[k] \in At(v) <=> s[k].val = v
    BY <1>2 DEF At
  <2>3. QED
    BY <2>1, <2>2
<1>4. RemoveTimestamp(s, v) = IF at = {} THEN s ELSE RemoveAt(s, Min(at))
  BY DEF RemoveTimestamp
<1>5. CASE at = {}
  BY <1>3, <1>4, <1>5
<1>6. CASE at # {}
  <2>1. PICK m \in 1..Len(s) : m = Min(at) /\ s[m].val = v
    <3>1. at \subseteq Nat
      BY <1>1
    <3>2. Min(at) \in at
      BY <1>6, <3>1, MinIsLeast
    <3>3. QED
      BY <3>2
  <2>2. RemoveTimestamp(s, v) = RemoveAt(s, m)
    BY <1>4, <1>6, <2>1
  <2>3. s[m] = [val |-> v]
    BY <1>2, <2>1, StampHas
  <2>4. RemoveAt(s, m) \in Seq(Stamp)
    BY RemovedAt
  <2>5. Ascending(RemoveAt(s, m))
    <3>1. \A x \in Stamp : x.val \in Nat
      BY StampHas
    <3>2. QED
      BY <3>1, RemoveKeepsOrder
  <2>6. Num(s, S) = Num(RemoveAt(s, m), S) + (IF s[m] \in S THEN 1 ELSE 0)
    BY NumRemoved
  <2>7. QED
    BY <1>3, <1>6, <2>2, <2>3, <2>4, <2>5, <2>6, Zenon
<1>7. QED
  BY <1>5, <1>6

\* The first entry is taken.
LEMMA FirstTaken ==
  ASSUME NEW s \in Seq(Stamp), Ascending(s), s # << >>, NEW S
  PROVE  /\ Tail(s) \in Seq(Stamp) /\ Ascending(Tail(s))
         /\ Head(s) \in Stamp
         /\ Num(s, S) = Num(Tail(s), S) + (IF Head(s) \in S THEN 1 ELSE 0)
         /\ \A v : Num(s, At(v)) # 0 => Head(s).val <= v
<1>1. PICK n \in Nat : n = Len(s) /\ n > 0
  BY LenProperties, EmptySeq
<1>2. PICK t \in Seq(Stamp) : t = Tail(s) /\ Len(t) = n - 1 /\ \A k \in 1..(n - 1) : t[k] = s[k + 1]
  <2>1. /\ Tail(s) \in Seq(Stamp) /\ Len(Tail(s)) = Len(s) - 1
        /\ \A i \in 1..Len(Tail(s)) : Tail(s)[i] = s[i + 1]
    BY HeadTailProperties
  <2>2. PICK t : t = Tail(s)
    OBVIOUS
  <2>3. QED
    BY <1>1, <2>1, <2>2
<1>3. Ascending(t)
  <2> SUFFICES ASSUME NEW k \in 2..(n - 1) PROVE t[k - 1].val <= t[k].val
    BY <1>2 DEF Ascending
  <2>1. k \in 1..(n - 1) /\ k - 1 \in 1..(n - 1) /\ (k - 1) + 1 = k /\ (k + 1) - 1 = k /\ k + 1 \in 2..n
    BY <1>1
  <2>2. t[k] = s[k + 1] /\ t[k - 1] = s[k]
    BY <1>2, <2>1
  <2>3. s[(k + 1) - 1].val <= s[k + 1].val
    BY <1>1, <2>1 DEF Ascending
  <2>4. QED
    BY <2>1, <2>2, <2>3
<1>4. Head(s) \in Stamp /\ Head(s) = s[1]
  BY <1>1, HeadTailProperties
<1>5. Num(s, S) = Num(Tail(s), S) + (IF Head(s) \in S THEN 1 ELSE 0)
  BY NumTail
<1>6. ASSUME NEW v, Num(s, At(v)) # 0 PROVE Head(s).val <= v
  <2>1. PICK k \in 1..Len(s) : s[k] \in At(v)
    BY <1>6, NumType
  <2>2. s[1].val <= s[k].val /\ s[k].val = v
    BY <2>1, FirstIsLeast DEF At
  <2>3. QED
    BY <1>4, <2>2
<1>7. QED
  BY <1>2, <1>3, <1>4, <1>5, <1>6

-----------------------------------------------------------------------------
(* Insert lists the stamps of the buffers fs one after the other.          *)

LEMMA Induct ==
  ASSUME NEW T, T \subseteq Nat, 0 \in T, \A n \in T : n + 1 \in T
  PROVE  T = Nat
<1>1. SUFFICES ASSUME T # Nat PROVE FALSE
  OBVIOUS
<1>2. PICK x \in Nat \ T : \A y \in Nat \ T : x <= y
  BY <1>1, Least
<1>3. x # 0 /\ x - 1 \in Nat
  BY <1>2
<1>4. x - 1 \in T
  BY <1>2, <1>3
<1>5. QED
  BY <1>2, <1>3, <1>4

LEMMA MaxIsLast ==
  ASSUME NEW n \in Nat, NEW A, A \subseteq 1..(n + 1), n + 1 \in A
  PROVE  Max(A) = n + 1
<1>1. \A y \in A : n + 1 >= y /\ (y >= n + 1 => y = n + 1)
  OBVIOUS
<1>2. QED
  BY <1>1 DEF Max

LEMMA WithoutLast ==
  ASSUME NEW n \in Nat
  PROVE  /\ n + 1 \in 1..(n + 1) /\ (1..(n + 1)) \ {n + 1} = 1..n
         /\ \A A \in SUBSET (1..(n + 1)) : A \ {n + 1} \in SUBSET (1..n)
<1>1. \A i \in 1..(n + 1) : i # n + 1 => i \in 1..n
  OBVIOUS
<1>2. \A i \in 1..n : i \in 1..(n + 1) /\ i # n + 1
  OBVIOUS
<1>3. n + 1 \in 1..(n + 1)
  OBVIOUS
<1>4. QED
  BY <1>1, <1>2, <1>3, Zenon

\* A table of what is listed after the buffers at the places of A.
Put(base, fs, g, A) ==
  IF A = {} THEN base ELSE InsertSort(g[A \ {Max(A)}], [val |-> fs[Max(A)].ts])
IsTable(base, fs, g, n) == g = [A \in SUBSET (1..n) |-> Put(base, fs, g, A)]

LEMMA TablesExist ==
  ASSUME NEW base, NEW fs, NEW n \in Nat
  PROVE  \E g : IsTable(base, fs, g, n)
<1> DEFINE T == {m \in Nat : \E g : IsTable(base, fs, g, m)}
<1>1. 0 \in T
  <2>1. 1..0 = {}
    OBVIOUS
  <2>2. PICK g : g = [A \in SUBSET (1..0) |-> base]
    OBVIOUS
  <2>3. \A A \in SUBSET (1..0) : Put(base, fs, g, A) = base
    BY <2>1 DEF Put
  <2>4. IsTable(base, fs, g, 0)
    BY <2>2, <2>3 DEF IsTable
  <2>5. QED
    BY <2>4
<1>2. ASSUME NEW m \in T PROVE m + 1 \in T
  <2>0. m \in Nat
    OBVIOUS
  <2>1. PICK g : IsTable(base, fs, g, m)
    OBVIOUS
  <2> DEFINE D == SUBSET (1..m)
             E == SUBSET (1..(m + 1))
  <2> HIDE DEF T
  <2>2. PICK h : h = [A \in E |-> IF m + 1 \in A THEN Put(base, fs, g, A) ELSE g[A]]
    OBVIOUS
  <2>3. \A A \in D : g[A] = Put(base, fs, g, A)
    BY <2>1 DEF IsTable
  <2>4. \A A \in E : A \ {m + 1} \in D /\ (m + 1 \notin A => A \in D /\ A \ {Max(A)} \in D)
    <3> TAKE A \in E
    <3>1. A \ {m + 1} \in D
      BY <2>0, WithoutLast
    <3>2. ASSUME m + 1 \notin A PROVE A \in D /\ A \ {Max(A)} \in D
      <4>1. A \ {m + 1} = A
        BY <3>2
      <4>2. A \in D
        BY <3>1, <4>1
      <4>3. QED
        BY <4>2
    <3>3. QED
      BY <3>1, <3>2
  <2>5. \A A \in D : A \in E /\ m + 1 \notin A
    BY <2>0
  <2>6. \A A \in D : h[A] = g[A]
    BY <2>2, <2>5
  <2> HIDE DEF D
  <2>7. ASSUME NEW A \in E PROVE h[A] = Put(base, fs, h, A)
    <3>1. CASE m + 1 \in A
      <4>1. Max(A) = m + 1
        BY <2>0, <3>1, MaxIsLast
      <4>2. h[A \ {Max(A)}] = g[A \ {Max(A)}]
        BY <2>4, <2>6, <4>1
      <4>3. h[A] = Put(base, fs, g, A)
        BY <2>2, <3>1
      <4>4. QED
        BY <4>2, <4>3, Zenon DEF Put
    <3>2. CASE m + 1 \notin A
      <4>1. h[A] = g[A] /\ h[A \ {Max(A)}] = g[A \ {Max(A)}] /\ g[A] = Put(base, fs, g, A)
        BY <2>3, <2>4, <2>6, <3>2
      <4>2. QED
        BY <4>1, Zenon DEF Put
    <3>3. QED
      BY <3>1, <3>2
  <2>8. h = [A \in E |-> Put(base, fs, h, A)]
    BY <2>2, <2>7
  <2>9. IsTable(base, fs, h, m + 1)
    BY <2>8 DEF IsTable
  <2>10. QED
    BY <2>0, <2>9 DEF T
<1>3. T = Nat
  <2> HIDE DEF T
  <2>1. T \subseteq Nat
    BY DEF T
  <2>2. QED
    BY <1>1, <1>2, <2>1, Induct
<1>4. n \in T
  BY <1>3
<1>5. QED
  BY <1>4

\* Insert is the last entry of such a table.
LEMMA InsertIsTable ==
  ASSUME NEW base, NEW fs \in Seq(Frame), NEW n, n = Len(fs)
  PROVE  \E g : Insert(base, fs) = g[1..n] /\ IsTable(base, fs, g, n)
<1>1. n \in Nat /\ DOMAIN fs = 1..n
  BY LenProperties
<1>2. PICK h : IsTable(base, fs, h, n)
  BY <1>1, TablesExist
<1>3. h = [A \in SUBSET DOMAIN fs |->
             IF A = {} THEN base
             ELSE InsertSort(h[A \ {Max(A)}], [val |-> fs[Max(A)].ts])]
  BY <1>1, <1>2, Zenon DEF IsTable, Put
<1>4. \E g : /\ g = [A \in SUBSET DOMAIN fs |->
                       IF A = {} THEN base
                       ELSE InsertSort(g[A \ {Max(A)}], [val |-> fs[Max(A)].ts])]
             /\ Insert(base, fs) = g[DOMAIN fs]
  BY <1>3, Zenon DEF Insert, FoldLeft, MapThenFoldSet
<1>5. QED
  BY <1>1, <1>4, Zenon DEF IsTable, Put

LEMMA AllInserted ==
  ASSUME NEW base \in Seq(Stamp), Ascending(base), NEW fs \in Seq(Frame), NEW S
  PROVE  /\ Insert(base, fs) \in Seq(Stamp) /\ Ascending(Insert(base, fs))
         /\ Num(Insert(base, fs), S)
              = Num(base, S) + Num(fs, {f \in Frame : [val |-> f.ts] \in S})
<1> DEFINE F == {f \in Frame : [val |-> f.ts] \in S}
<1>0. \A f \in Frame : f \in F <=> [val |-> f.ts] \in S
  OBVIOUS
<1> HIDE DEF F
<1>1. PICK n \in Nat : n = Len(fs)
  BY LenProperties
<1>2. PICK g : /\ Insert(base, fs) = g[1..n]
               /\ \A A \in SUBSET (1..n) : g[A] = Put(base, fs, g, A)
  <2>1. PICK g : Insert(base, fs) = g[1..n] /\ IsTable(base, fs, g, n)
    BY <1>1, InsertIsTable
  <2>2. QED
    BY <2>1 DEF IsTable
<1> DEFINE Good(k) == /\ g[1..k] \in Seq(Stamp) /\ Ascending(g[1..k])
                      /\ Num(g[1..k], S) = Num(base, S) + Num(SubSeq(fs, 1, k), F)
           T == {k \in Nat : k <= n => Good(k)}
<1>3. 0 \in T
  <2>1. 1..0 = {} /\ {} \in SUBSET (1..n)
    OBVIOUS
  <2>2. g[{}] = base
    BY <1>2, <2>1 DEF Put
  <2>3. SubSeq(fs, 1, 0) = << >>
    BY SubSeqEmpty
  <2>4. Num(base, S) \in Nat /\ Num(<< >>, F) = 0
    BY NumType, NumNone
  <2>5. Num(base, S) + Num(SubSeq(fs, 1, 0), F) = Num(base, S)
    <3>1. Num(base, S) + 0 = Num(base, S)
      BY <2>4
    <3>2. QED
      BY <2>3, <2>4, <3>1, Zenon
  <2>6. Good(0)
    BY <2>1, <2>2, <2>5, Zenon
  <2>7. QED
    BY <2>6
<1>4. ASSUME NEW k \in T PROVE k + 1 \in T
  <2> SUFFICES ASSUME k + 1 <= n PROVE Good(k + 1)
    OBVIOUS
  <2>1. k \in Nat /\ Good(k)
    BY <1>1
  <2>2. fs[k + 1] \in Frame /\ fs[k + 1].ts \in Nat
    <3>1. k + 1 \in 1..Len(fs)
      BY <1>1, <2>1
    <3>2. fs[k + 1] \in Frame
      BY <3>1, ElementOfSeq
    <3>3. QED
      BY <3>2 DEF Frame
  <2>3. PICK v \in Nat : v = fs[k + 1].ts
    BY <2>2
  <2>4. g[1..(k + 1)] = InsertSort(g[1..k], [val |-> v])
    <3>1. 1..(k + 1) \in SUBSET (1..n) /\ k + 1 \in 1..(k + 1)
      BY <2>1
    <3>2. Max(1..(k + 1)) = k + 1
      BY <2>1, <3>1, MaxIsLast
    <3>3. (1..(k + 1)) \ {k + 1} = 1..k /\ 1..(k + 1) # {}
      BY <2>1, <3>1, WithoutLast
    <3>4. g[1..(k + 1)] = Put(base, fs, g, 1..(k + 1))
      BY <1>2, <3>1
    <3>5. QED
      BY <2>3, <3>2, <3>3, <3>4, Zenon DEF Put
  <2>5. PICK l : l = g[1..k]
    BY Zenon
  <2>6. /\ InsertSort(l, [val |-> v]) \in Seq(Stamp)
        /\ Ascending(InsertSort(l, [val |-> v]))
        /\ Num(InsertSort(l, [val |-> v]), S)
             = Num(l, S) + (IF [val |-> v] \in S THEN 1 ELSE 0)
    <3>1. l \in Seq(Stamp) /\ Ascending(l)
      BY <2>1, <2>5, Zenon
    <3>2. InsertSort(l, [val |-> v]) \in Seq(Stamp) /\ Ascending(InsertSort(l, [val |-> v]))
      BY <3>1, SortedIn
    <3>3. Num(InsertSort(l, [val |-> v]), S)
            = Num(l, S) + (IF [val |-> v] \in S THEN 1 ELSE 0)
      BY <3>1, SortedIn
    <3>4. QED
      BY <3>2, <3>3, Zenon
  <2>7. PICK a \in Seq(Frame) : a = SubSeq(fs, 1, k)
    <3>1. k \in 0..Len(fs)
      BY <1>1, <2>1
    <3>2. QED
      BY <3>1, NumSplit
  <2>8. PICK b \in Seq(Frame) : b = << fs[k + 1] >>
    <3>1. << fs[k + 1] >> \in Seq(Frame)
      BY <2>2
    <3>2. QED
      BY <3>1
  <2>9. SubSeq(fs, 1, k + 1) = a \o b
    <3>1. 1 \in 1..Len(fs) /\ k + 1 \in 1..Len(fs) /\ (k + 1) - 1 = k
      BY <1>1, <2>1
    <3>2. SubSeq(fs, 1, k + 1) = SubSeq(fs, 1, (k + 1) - 1) \o << fs[k + 1] >>
      BY <3>1, SubSeqRecursiveSecond
    <3>3. QED
      BY <2>7, <2>8, <3>1, <3>2
  <2>10. Num(a \o b, F) = Num(a, F) + Num(b, F)
    BY NumJoined
  <2>11. Num(b, F) = IF [val |-> v] \in S THEN 1 ELSE 0
    BY <1>0, <2>2, <2>3, <2>8, NumOne
  <2>12. Num(a, F) \in Nat /\ Num(base, S) \in Nat
    BY NumType
  <2>13. Num(l, S) = Num(base, S) + Num(a, F)
    BY <2>1, <2>5, <2>7, Zenon
  <2>14. Num(InsertSort(l, [val |-> v]), S) = Num(base, S) + Num(a \o b, F)
    BY <2>6, <2>10, <2>11, <2>12, <2>13
  <2>15. QED
    BY <2>4, <2>5, <2>6, <2>9, <2>14, Zenon
<1>5. n \in T
  <2> HIDE DEF T
  <2>1. T \subseteq Nat
    BY DEF T
  <2>2. T = Nat
    BY <1>3, <1>4, <2>1, Induct
  <2>3. QED
    BY <2>2
<1>6. SubSeq(fs, 1, n) = fs
  BY <1>1, SubSeqFull
<1>7. Good(n)
  BY <1>5
<1>8. QED
  BY <1>2, <1>6, <1>7, Zenon DEF F

-----------------------------------------------------------------------------
(* The actions.                                                            *)

\* What the client queues, and what the firmware sends of it.
LEMMA Frames ==
  ASSUME Typed
  PROVE  /\ NextFrames \subseteq Frame /\ Count \in Nat
         /\ \A f \in Frame : f.ts \in Nat
         /\ \A f \in Frame : [type |-> "no_output", f |-> f] \in Message
         /\ \A f \in Frame : [type |-> "picture", f |-> f] \in Message
         /\ [type |-> "stop_done"] \in Message
         /\ \A m \in Message : m.type = "picture" => m.f \in Frame
<1>1. NextFrames \subseteq Frame
  <2>1. {IF stamps = "presentation" THEN p ELSE queued + 1 : p \in Time} \subseteq Nat
    BY TimeAssumption DEF Typed
  <2>2. QED
    BY <2>1 DEF NextFrames, Frame
<1>2. QED
  BY <1>1 DEF Typed, Count, Frame, Message

\* A step that leaves the window alone.
LEMMA WindowKept ==
  ASSUME IInv, Typed', UNCHANGED <<timestamps, recent, rank>>
  PROVE  IInv'
BY DEF IInv, Ascending, Ranked

\* A step that empties it.
LEMMA WindowFlushed ==
  ASSUME Typed', timestamps' = << >>, recent' = << >>, rank' = 0
  PROVE  IInv'
<1>1. << >> \in Seq(Entry) /\ << >> \in Seq(Nat) /\ Len(<< >>) = 0 /\ 0 <= Window
  BY WindowAssumption
<1>2. Ascending(<< >>)
  BY <1>1 DEF Ascending
<1>3. Ranked(<< >>, << >>, 0)
  BY <1>1 DEF Ranked
<1>4. QED
  BY <1>1, <1>2, <1>3 DEF IInv

LEMMA InitIInv == Init => IInv
<1> SUFFICES ASSUME Init PROVE IInv
  OBVIOUS
<1>1. << >> \in Seq(Entry) /\ << >> \in Seq(Nat) /\ Len(<< >>) = 0 /\ 0 <= Window
  BY WindowAssumption
<1>2. Ascending(<< >>)
  BY <1>1 DEF Ascending
<1>3. Ranked(<< >>, << >>, 0)
  BY <1>1 DEF Ranked
<1>4. Typed
  BY DEF Init, Typed
<1>5. QED
  BY <1>1, <1>2, <1>3, <1>4 DEF Init, IInv

LEMMA ClientStep == IInv /\ Client => IInv'
<1> SUFFICES ASSUME IInv, Client PROVE IInv'
  OBVIOUS
<1>1. Typed
  BY DEF IInv
<1>2. ASSUME NEW f \in NextFrames, QBufKeeps(f) PROVE IInv'
  <2>1. f \in Frame /\ Count \in Nat
    BY <1>1, Frames
  <2>2. Typed'
    BY <1>1, <1>2, <2>1 DEF QBufKeeps, Typed
  <2>3. QED
    BY <1>2, <2>2, WindowKept DEF QBufKeeps
<1>3. ASSUME NEW f \in NextFrames, QBuf(f) PROVE IInv'
  <2>1. f \in Frame /\ Count \in Nat
    BY <1>1, Frames
  <2>2. Typed'
    BY <1>1, <1>3, <2>1 DEF QBuf, Typed
  <2>3. QED
    BY <1>3, <2>2, WindowKept DEF QBuf
<1>4. CASE StreamOn
  <2>1. Typed'
    BY <1>1, <1>4 DEF StreamOn, Typed
  <2>2. QED
    BY <1>4, <2>1, WindowFlushed DEF StreamOn
<1>5. CASE StreamOff
  <2>1. Typed'
    BY <1>1, <1>5 DEF StreamOff, Typed
  <2>2. QED
    BY <1>5, <2>1, WindowKept DEF StreamOff
<1>6. QED
  BY <1>2, <1>3, <1>4, <1>5 DEF Client

LEMMA ThreadStep == IInv /\ Thread => IInv'
<1> SUFFICES ASSUME IInv, Thread PROVE IInv'
  OBVIOUS
<1>1. Typed
  BY DEF IInv
<1>2. CASE HandleNoOutput
  <2>1. Typed'
    BY <1>1, <1>2 DEF HandleNoOutput, Typed
  <2>2. QED
    BY <1>2, <2>1, WindowKept DEF HandleNoOutput
<1>3. CASE HandlePicture
  <2>1. Typed'
    BY <1>1, <1>3 DEF HandlePicture, Typed
  <2>2. PICK v \in Nat : v = Head(msgs).f.ts
    <3>1. Head(msgs) \in Message /\ Head(msgs).type = "picture"
      BY <1>1, <1>3 DEF HandlePicture, Typed
    <3>2. QED
      BY <1>1, <3>1, Frames
  <2>3. /\ timestamps' = Slide(timestamps, v) /\ rank' = rank + 1
        /\ recent' = LastOf(Append(recent, v))
    BY <1>3, <2>2 DEF HandlePicture
  <2>4. /\ timestamps' \in Seq(Entry) /\ Ascending(timestamps')
        /\ recent' \in Seq(Nat) /\ Len(recent') <= Window
        /\ Ranked(timestamps, recent, rank) /\ rank + 1 <= IntMax + Window =>
             Ranked(timestamps', recent', rank')
    BY <2>3, SlideKeeps DEF IInv, Typed
  <2>5. rank' <= IntMax + Window => rank <= IntMax + Window /\ rank + 1 <= IntMax + Window
    BY <1>1, <2>3, WindowAssumption DEF Typed
  <2>6. (Ascending(timestamps) /\ (rank <= IntMax + Window => Ranked(timestamps, recent, rank)))'
    BY <2>4, <2>5 DEF IInv, Ascending, Ranked
  <2>7. QED
    BY <2>1, <2>4, <2>6 DEF IInv
<1>4. CASE HandleStopDone
  <2>1. Typed'
    BY <1>1, <1>4 DEF HandleStopDone, Typed
  <2>2. QED
    BY <1>4, <2>1, WindowFlushed DEF HandleStopDone
<1>5. QED
  BY <1>2, <1>3, <1>4 DEF Thread

LEMMA FirmwareStep == IInv /\ Firmware => IInv'
<1> SUFFICES ASSUME IInv, Firmware PROVE IInv'
  OBVIOUS
<1>1. Typed
  BY DEF IInv
<1>2. CASE FwDecodes
  <2>1. Head(inputs) \in Frame /\ Tail(inputs) \in Seq(Frame)
    BY <1>1, <1>2 DEF FwDecodes, Typed
  <2>2. [type |-> "no_output", f |-> Head(inputs)] \in Message
    BY <1>1, <2>1, Frames
  <2>3. msgs' \in Seq(Message) /\ pictures' \subseteq Frame
    <3>1. Append(msgs, [type |-> "no_output", f |-> Head(inputs)]) \in Seq(Message)
      BY <1>1, <2>2 DEF Typed
    <3>2. QED
      BY <1>1, <1>2, <2>1, <3>1 DEF FwDecodes, Typed
  <2>4. Typed'
    BY <1>1, <1>2, <2>1, <2>3 DEF FwDecodes, Typed
  <2>5. QED
    BY <1>2, <2>4, WindowKept DEF FwDecodes
<1>3. ASSUME NEW f \in pictures, FwOutputs(f) PROVE IInv'
  <2>1. [type |-> "picture", f |-> f] \in Message
    BY <1>1, Frames DEF Typed
  <2>2. Typed'
    BY <1>1, <1>3, <2>1 DEF FwOutputs, Typed
  <2>3. QED
    BY <1>3, <2>2, WindowKept DEF FwOutputs
<1>4. CASE FwStops
  <2>1. [type |-> "stop_done"] \in Message
    BY <1>1, Frames
  <2>2. Typed'
    BY <1>1, <1>4, <2>1 DEF FwStops, Typed
  <2>3. QED
    BY <1>4, <2>2, WindowKept DEF FwStops
<1>5. QED
  BY <1>2, <1>3, <1>4 DEF Firmware

LEMMA IInvHolds == Spec => []IInv
<1>1. IInv /\ [Next]_vars => IInv'
  <2>1. IInv /\ UNCHANGED vars => IInv'
    BY WindowKept DEF IInv, Typed, vars
  <2>2. QED
    BY <2>1, ClientStep, ThreadStep, FirmwareStep DEF Next
<1>2. QED
  BY <1>1, InitIInv, PTL DEF Spec

-----------------------------------------------------------------------------
\* For every window and every INT_MAX, the list the frame rate is measured
\* on holds the last stamps of the firmware, in order, until the ranks have
\* passed INT_MAX (msm_vidc_driver.c:2468).
THEOREM WindowIsAlwaysRecent == Spec => []WindowIsRecent
<1>1. IInv => WindowIsRecent
  <2> SUFFICES ASSUME IInv, rank <= IntMax + Window
               PROVE  /\ Len(timestamps) = Len(recent)
                      /\ {timestamps[k].val : k \in 1 .. Len(timestamps)} = Range(recent)
                      /\ Ascending(timestamps)
    BY DEF WindowIsRecent, Ascending
  <2>1. Ranked(timestamps, recent, rank) /\ Ascending(timestamps)
    BY DEF IInv
  <2> rank \in Nat
    BY DEF IInv, Typed
  <2>2. PICK l \in Nat : l = Len(timestamps) /\ l = Len(recent) /\ l <= rank
    BY <2>1, LenProperties DEF IInv, Ranked
  <2>3. Range(recent) = {recent[j] : j \in 1..l}
    BY <2>2, LenProperties DEF IInv, Range
  <2>4. PICK o \in Nat : o = rank - l
    <3>1. l <= rank
      BY <2>2
    <3>2. rank - l \in Nat
      BY <3>1
    <3>3. QED
      BY <3>2
  <2>5. ASSUME NEW k \in 1..l PROVE \E j \in 1..l : timestamps[k].val = recent[j]
    <3>1. timestamps[k] \in Entry
      BY <2>2, ElementOfSeq DEF IInv
    <3>2. PICK x \in Nat : /\ x = timestamps[k].rank /\ o <= x /\ x < rank
                           /\ timestamps[k].val = recent[x - o + 1]
      BY <2>1, <2>2, <2>4, <3>1 DEF Ranked, Entry
    <3>3. x - o + 1 \in 1..l
      <4>1. o <= x /\ x < rank /\ o = rank - l /\ rank \in Nat
        BY <2>4, <3>2 DEF IInv, Typed
      <4>2. QED
        BY <4>1
    <3>4. QED
      BY <3>2, <3>3
  <2>6. ASSUME NEW j \in 1..l PROVE \E k \in 1..l : timestamps[k].val = recent[j]
    <3>1. PICK m \in Nat : m \in o..(rank - 1) /\ m - o + 1 = j
      <4>1. o = rank - l
        BY <2>4
      <4>2. /\ o + j - 1 \in Nat /\ o + j - 1 \in o..(rank - 1)
            /\ (o + j - 1) - o + 1 = j
        BY <4>1
      <4>3. QED
        BY <4>2
    <3>2. PICK k \in 1..l : timestamps[k].rank = m
      BY <2>1, <2>2, <2>4, <3>1 DEF Ranked
    <3>3. timestamps[k].val = recent[m - o + 1]
      BY <2>1, <2>2, <2>4, <3>2 DEF Ranked
    <3>4. QED
      BY <3>1, <3>3
  <2>7. {timestamps[k].val : k \in 1..l} = {recent[j] : j \in 1..l}
    <3>1. {timestamps[k].val : k \in 1..l} \subseteq {recent[j] : j \in 1..l}
      BY <2>5
    <3>2. {recent[j] : j \in 1..l} \subseteq {timestamps[k].val : k \in 1..l}
      BY <2>6
    <3>3. QED
      BY <3>1, <3>2
  <2>8. QED
    BY <2>1, <2>2, <2>3, <2>7
<1>2. QED
  BY <1>1, IInvHolds, PTL
-----------------------------------------------------------------------------
(* What is on its way, and what is listed for it.                          *)

Stamped(v) == {f \in Frame : f.ts = v}
Carrying   == {m \in Message : m.type # "stop_done"}
Bears(v)   == {m \in Carrying : m.f.ts = v}

Stopped    == \E k \in 1..Len(msgs) : msgs[k].type = "stop_done"
Waiting(v) == IF \E f \in pictures : f.ts = v THEN 1 ELSE 0
Owed(v)    == Num(inputs, Stamped(v)) + Waiting(v) + Num(msgs, Bears(v))
Listed(v)  == Num(ts_reorder, At(v))

\* Nothing is left of a stream that stopped; the answer to the stop is the
\* last message, and what it discarded is gone.
Flow ==
  /\ stamps \in {"presentation", "decoding"} /\ port \in {"off", "on", "stopping"}
  /\ passed \in Nat /\ shown \in [ts : Nat, pts : Nat]
  /\ ts_reorder \in Seq(Stamp) /\ Ascending(ts_reorder)
  /\ port = "off" => /\ inputs = << >> /\ pictures = {} /\ msgs = << >>
                     /\ passed = 0 /\ shown = None
  /\ port # "off" => kept = << >>
  /\ \A k \in 1..Len(msgs) : msgs[k].type = "stop_done" =>
       k = Len(msgs) /\ port = "stopping" /\ inputs = << >> /\ pictures = {}
  /\ \A f \in pictures : ~f.part

Wholes(s) == \A i, j \in 1..Len(s) : i < j /\ ~s[i].part => s[j].pts # s[i].pts
Timely(f) == f.ts = f.pts /\ passed < f.pts

\* A whole buffer is the last of its picture, and what is to be decoded or
\* shown is ahead of what was.
FramesApart ==
  stamps = "presentation" =>
    /\ Wholes(kept) /\ Wholes(inputs)
    /\ \A k \in 1..Len(kept) : Timely(kept[k])
    /\ \A k \in 1..Len(inputs) : Timely(inputs[k])
    /\ \A f \in pictures : /\ Timely(f)
                           /\ \A k \in 1..Len(inputs) : inputs[k].pts # f.pts
                           /\ \A g \in pictures : f.pts = g.pts => f = g

\* The messages after a picture are about later ones.
MessagesOrdered ==
  stamps = "presentation" =>
    /\ \A k \in 1..Len(msgs) : msgs[k].type # "stop_done" => msgs[k].f.ts = msgs[k].f.pts
    /\ \A k \in 1..Len(msgs) : msgs[k].type = "picture" =>
         /\ shown.ts < msgs[k].f.pts /\ msgs[k].f.pts <= passed
         /\ \A l \in (k + 1)..Len(msgs) :
              msgs[l].type # "stop_done" => msgs[k].f.pts < msgs[l].f.pts
    /\ shown.ts <= passed

\* A stamp is listed as often as a buffer with it is on its way, unless a
\* stop has discarded some: those are ahead of every picture that was shown.
StampsCounted ==
  stamps = "presentation" /\ port # "off" =>
    \A v \in Nat : /\ Owed(v) <= Listed(v)
                   /\ Owed(v) # Listed(v) => Stopped /\ passed < v

\* Numbers are listed once, after the last that was shown, and at least as
\* many as there are buffers on their way.
StampsDistinct ==
  stamps = "decoding" =>
    /\ IsFiniteSet(pictures) /\ shown.ts <= queued
    /\ \A v \in Nat : /\ Num(kept, Stamped(v)) <= 1
                      /\ Num(kept, Stamped(v)) # 0 => 0 < v /\ v <= queued
    /\ port # "off" =>
         /\ \A v \in Nat : Listed(v) <= 1 /\ (Listed(v) # 0 => shown.ts < v /\ v <= queued)
         /\ Len(inputs) + Cardinality(pictures) + Num(msgs, Carrying) <= Len(ts_reorder)

JInv == Flow /\ FramesApart /\ MessagesOrdered /\ StampsCounted /\ StampsDistinct

-----------------------------------------------------------------------------
(* Frames, messages and sequences of them.                                 *)

LEMMA FrameHas ==
  /\ \A f \in Frame : f.ts \in Nat /\ f.pts \in Time /\ f.pts \in Nat /\ f.pts # 0
                      /\ f.part \in BOOLEAN /\ \A v : f \in Stamped(v) <=> f.ts = v
  /\ \A m \in Message : /\ m.type \in {"no_output", "picture", "stop_done"}
                        /\ m \in Carrying <=> m.type # "stop_done"
                        /\ m \in Carrying => m.f \in Frame /\ \A v : m \in Bears(v) <=> m.f.ts = v
                        /\ m \notin Carrying => \A v : m \notin Bears(v)
<1>1. \A f \in Frame : f.ts \in Nat /\ f.pts \in Time /\ f.pts \in Nat /\ f.pts # 0
                       /\ f.part \in BOOLEAN /\ \A v : f \in Stamped(v) <=> f.ts = v
  BY TimeAssumption DEF Frame, Stamped
<1>2. \A m \in Message : m.type \in {"no_output", "picture", "stop_done"}
                         /\ (m.type # "stop_done" => m.f \in Frame)
  <2> HIDE DEF Frame
  <2>1. QED
    BY DEF Message
<1>3. QED
  BY <1>1, <1>2, Zenon DEF Carrying, Bears

LEMMA Sent ==
  ASSUME NEW X, NEW s \in Seq(X), NEW x \in X
  PROVE  /\ Append(s, x) \in Seq(X) /\ Len(Append(s, x)) = Len(s) + 1
         /\ Append(s, x)[Len(s) + 1] = x
         /\ \A k \in 1..Len(s) : Append(s, x)[k] = s[k]
         /\ \A k \in 1..Len(Append(s, x)) : k \in 1..Len(s) \/ k = Len(s) + 1
<1>1. PICK n \in Nat : n = Len(s)
  BY LenProperties
<1>2. \A k \in 1..(n + 1) : k \in 1..n \/ k = n + 1
  OBVIOUS
<1>3. QED
  BY <1>1, <1>2, AppendProperties

LEMMA Received ==
  ASSUME NEW X, NEW s \in Seq(X), s # << >>
  PROVE  /\ Tail(s) \in Seq(X) /\ Len(s) = Len(Tail(s)) + 1
         /\ Head(s) \in X /\ Head(s) = s[1] /\ 1 \in 1..Len(s) /\ Len(Tail(s)) \in Nat
         /\ \A k \in 1..Len(Tail(s)) : Tail(s)[k] = s[k + 1] /\ k + 1 \in 2..Len(s)
<1>1. PICK n \in Nat : n = Len(s) /\ n > 0
  BY LenProperties, EmptySeq
<1>2. /\ Tail(s) \in Seq(X) /\ Len(Tail(s)) = Len(s) - 1
      /\ \A k \in 1..Len(Tail(s)) : Tail(s)[k] = s[k + 1]
  BY HeadTailProperties
<1>3. Head(s) \in X /\ Head(s) = s[1]
  BY HeadTailProperties
<1>4. \A k \in 1..(n - 1) : k + 1 \in 2..n
  OBVIOUS
<1>5. QED
  BY <1>1, <1>2, <1>3, <1>4

LEMMA NoneBefore ==
  ASSUME Flow, ~ (port = "stopping" /\ inputs = << >> /\ pictures = {})
  PROVE  ~Stopped /\ \A k \in 1..Len(msgs) : msgs[k].type # "stop_done"
BY DEF Flow, Stopped

-----------------------------------------------------------------------------
(* Each conjunct of JInv is preserved by every step.                       *)

LEMMA MessagesHave ==
  ASSUME Typed
  PROVE  /\ \A f \in Frame : /\ [type |-> "no_output", f |-> f] \in Carrying
                             /\ [type |-> "picture", f |-> f] \in Carrying
         /\ [type |-> "stop_done"] \in Message \ Carrying
BY Frames DEF Carrying

\* What the lists are after each step that changes them.
LEMMA OneInserted ==
  ASSUME Flow, NEW f \in Frame, NEW S
  PROVE  /\ Insert(ts_reorder, <<f>>) \in Seq(Stamp)
         /\ Ascending(Insert(ts_reorder, <<f>>))
         /\ Num(Insert(ts_reorder, <<f>>), S)
              = Num(ts_reorder, S) + (IF [val |-> f.ts] \in S THEN 1 ELSE 0)
<1>1. PICK fs \in Seq(Frame) : fs = <<f>>
  <2>1. <<f>> \in Seq(Frame)
    OBVIOUS
  <2>2. QED
    BY <2>1
<1>2. ts_reorder \in Seq(Stamp) /\ Ascending(ts_reorder)
  BY DEF Flow
<1>3. /\ Insert(ts_reorder, fs) \in Seq(Stamp) /\ Ascending(Insert(ts_reorder, fs))
      /\ Num(Insert(ts_reorder, fs), S)
           = Num(ts_reorder, S) + Num(fs, {g \in Frame : [val |-> g.ts] \in S})
  BY <1>2, AllInserted
<1>4. Num(fs, {g \in Frame : [val |-> g.ts] \in S}) = IF [val |-> f.ts] \in S THEN 1 ELSE 0
  BY <1>1, NumOne
<1>5. QED
  BY <1>1, <1>3, <1>4, Zenon

LEMMA FlowStep ==
  ASSUME Typed, Flow, Next
  PROVE  Flow'
<1> USE DEF None
<1>a. /\ ts_reorder \in Seq(Stamp) /\ Ascending(ts_reorder) /\ passed \in Nat
      /\ shown \in [ts : Nat, pts : Nat] /\ msgs \in Seq(Message)
      /\ pictures \subseteq Frame /\ inputs \in Seq(Frame)
  BY DEF Flow, Typed
<1>1. ASSUME NEW f \in NextFrames, QBufKeeps(f) PROVE Flow'
  BY <1>1 DEF Flow, QBufKeeps
<1>2. ASSUME NEW f \in NextFrames, QBuf(f) PROVE Flow'
  <2>1. f \in Frame
    BY Frames
  <2>2. ts_reorder' \in Seq(Stamp) /\ Ascending(ts_reorder')
    BY <1>2, <2>1, OneInserted DEF QBuf
  <2>3. port = "on" /\ UNCHANGED <<stamps, port, kept, pictures, msgs, passed, shown>>
    BY <1>2 DEF QBuf
  <2>4. QED
    BY <2>2, <2>3 DEF Flow
<1>3. CASE StreamOn
  <2>1. << >> \in Seq(Stamp) /\ Ascending(<< >>)
    BY DEF Ascending
  <2>2. ts_reorder' \in Seq(Stamp) /\ Ascending(ts_reorder')
    BY <1>3, <2>1, AllInserted DEF StreamOn, Typed
  <2>3. /\ port = "off" /\ port' = "on" /\ kept' = << >>
        /\ UNCHANGED <<stamps, pictures, msgs, passed, shown>>
    BY <1>3 DEF StreamOn
  <2>4. QED
    BY <2>2, <2>3 DEF Flow
<1>4. CASE StreamOff
  BY <1>4 DEF Flow, StreamOff
<1>5. CASE HandleNoOutput
  <2>1. Head(msgs).f.ts \in Nat
    BY <1>5, <1>a, Received, FrameHas DEF HandleNoOutput
  <2>2. ts_reorder' \in Seq(Stamp) /\ Ascending(ts_reorder')
    BY <1>5, <1>a, <2>1, RemovedStamp DEF HandleNoOutput
  <2>3. \A k \in 1..Len(msgs') : msgs'[k] = msgs[k + 1] /\ k + 1 \in 1..Len(msgs)
                                 /\ (k + 1 = Len(msgs) <=> k = Len(msgs'))
    BY <1>5, <1>a, Received DEF HandleNoOutput
  <2>4. /\ msgs # << >> /\ UNCHANGED <<stamps, port, kept, inputs, pictures, passed, shown>>
    BY <1>5 DEF HandleNoOutput
  <2>5. QED
    BY <2>2, <2>3, <2>4 DEF Flow
<1>6. CASE HandlePicture
  <2>1. Head(msgs).f \in Frame /\ msgs # << >>
    BY <1>6, <1>a, Received, FrameHas DEF HandlePicture
  <2>2. ts_reorder' \in Seq(Stamp) /\ Ascending(ts_reorder') /\ shown' \in [ts : Nat, pts : Nat]
    <3>1. Head(msgs).f.ts \in Nat /\ Head(msgs).f.pts \in Nat
      BY <2>1, FrameHas
    <3>2. CASE ts_reorder = << >>
      BY <1>6, <1>a, <3>1, <3>2 DEF HandlePicture
    <3>3. CASE ts_reorder # << >>
      <4>1. Tail(ts_reorder) \in Seq(Stamp) /\ Ascending(Tail(ts_reorder)) /\ Head(ts_reorder).val \in Nat
        BY <1>a, <3>3, FirstTaken, StampHas
      <4>2. /\ shown' = [ts |-> Head(ts_reorder).val, pts |-> Head(msgs).f.pts]
            /\ ts_reorder' = Tail(ts_reorder)
        BY <1>6, <3>3 DEF HandlePicture
      <4>3. QED
        BY <3>1, <4>1, <4>2
    <3>4. QED
      BY <3>2, <3>3
  <2>3. \A k \in 1..Len(msgs') : msgs'[k] = msgs[k + 1] /\ k + 1 \in 1..Len(msgs)
                                 /\ (k + 1 = Len(msgs) <=> k = Len(msgs'))
    BY <1>6, <1>a, Received DEF HandlePicture
  <2>4. UNCHANGED <<stamps, port, kept, inputs, pictures, passed>>
    BY <1>6 DEF HandlePicture
  <2>5. QED
    BY <2>1, <2>2, <2>3, <2>4 DEF Flow
<1>7. CASE HandleStopDone
  <2>1. msgs # << >> /\ Head(msgs).type = "stop_done" /\ msgs' = Tail(msgs)
    BY <1>7 DEF HandleStopDone
  <2>2. Len(msgs) = 1 /\ port = "stopping" /\ inputs = << >> /\ pictures = {}
    BY <1>a, <2>1, Received DEF Flow
  <2>3. msgs' = << >>
    BY <1>a, <2>1, <2>2, Received, EmptySeq
  <2>4. /\ port' = "off" /\ passed' = 0 /\ shown' = None
        /\ UNCHANGED <<stamps, kept, ts_reorder, inputs, pictures>>
    BY <1>7 DEF HandleStopDone
  <2>5. QED
    BY <2>2, <2>3, <2>4 DEF Flow
<1>8. CASE FwDecodes
  <2>1. inputs # << >> /\ UNCHANGED <<stamps, port, kept, ts_reorder, passed, shown>>
    BY <1>8 DEF FwDecodes
  <2>2. port # "off" /\ \A k \in 1..Len(msgs) : msgs[k].type # "stop_done"
    BY <2>1 DEF Flow
  <2>3. CASE /\ msgs' = Append(msgs, [type |-> "no_output", f |-> Head(inputs)])
             /\ UNCHANGED pictures
    <3>1. \A k \in 1..Len(msgs') : msgs'[k].type # "stop_done"
      <4>1. [type |-> "no_output", f |-> Head(inputs)] \in Message
        BY <1>a, <2>1, Received, MessagesHave DEF Carrying
      <4>2. QED
        BY <1>a, <2>2, <2>3, <4>1, Sent
    <3>2. QED
      BY <2>1, <2>2, <2>3, <3>1 DEF Flow
  <2>4. CASE /\ ~Head(inputs).part /\ pictures' = pictures \cup {Head(inputs)}
             /\ UNCHANGED msgs
    BY <2>1, <2>2, <2>4 DEF Flow
  <2>5. QED
    <3>1. Head(inputs).part \in BOOLEAN
      BY <1>a, <2>1, Received, FrameHas
    <3>2. QED
      BY <1>8, <2>3, <2>4, <3>1 DEF FwDecodes
<1>9. ASSUME NEW f \in pictures, FwOutputs(f) PROVE Flow'
  <2>1. /\ msgs' = Append(msgs, [type |-> "picture", f |-> f]) /\ passed' = f.pts
        /\ pictures' = pictures \ {f}
        /\ UNCHANGED <<stamps, port, kept, ts_reorder, inputs, shown>>
    BY <1>9 DEF FwOutputs
  <2>2. port # "off" /\ \A k \in 1..Len(msgs) : msgs[k].type # "stop_done"
    BY DEF Flow
  <2>3. \A k \in 1..Len(msgs') : msgs'[k].type # "stop_done"
    <3>1. [type |-> "picture", f |-> f] \in Message
      BY <1>a, MessagesHave DEF Carrying
    <3>2. QED
      BY <1>a, <2>1, <2>2, <3>1, Sent
  <2>4. passed' \in Nat
    BY <1>a, <2>1, FrameHas
  <2>5. QED
    BY <2>1, <2>2, <2>3, <2>4 DEF Flow
<1>10. CASE FwStops
  <2>1. /\ port = "stopping" /\ inputs' = << >> /\ pictures' = {}
        /\ \A k \in 1..Len(msgs) : msgs[k].type # "stop_done"
        /\ msgs' = Append(msgs, [type |-> "stop_done"])
        /\ UNCHANGED <<stamps, port, kept, ts_reorder, passed, shown>>
    BY <1>10 DEF FwStops
  <2>2. \A k \in 1..Len(msgs') : msgs'[k].type = "stop_done" => k = Len(msgs')
    <3>1. [type |-> "stop_done"] \in Message
      BY MessagesHave
    <3>2. QED
      BY <1>a, <2>1, <3>1, Sent
  <2>3. QED
    BY <2>1, <2>2 DEF Flow
<1>11. QED
  BY <1>1, <1>2, <1>3, <1>4, <1>5, <1>6, <1>7, <1>8, <1>9, <1>10
  DEF Next, Client, Thread, Firmware

\* A buffer the client queues next.
LEMMA NextHas ==
  ASSUME Typed, NEW f \in NextFrames
  PROVE  /\ f \in Frame /\ (stamps = "presentation" => f.ts = f.pts)
         /\ passed < f.pts /\ f.pts \notin WholeTimes
         /\ stamps # "presentation" => f.ts = queued + 1
<1>1. f \in Frame
  BY Frames
<1>2. QED
  BY <1>1 DEF NextFrames

\* No whole buffer on its way has the time of the next.
LEMMA NextIsNew ==
  ASSUME Typed, NEW f \in NextFrames
  PROVE  /\ \A k \in 1..Len(kept) : ~kept[k].part => f.pts # kept[k].pts
         /\ \A k \in 1..Len(inputs) : ~inputs[k].part => f.pts # inputs[k].pts
         /\ \A g \in pictures : ~g.part => f.pts # g.pts
<1> DEFINE all == Range(kept) \cup Range(inputs) \cup pictures
<1>1. \A g \in all : ~g.part => f.pts # g.pts
  BY NextHas DEF WholeTimes
<1>2. kept \in Seq(Frame) /\ inputs \in Seq(Frame)
  BY DEF Typed
<1>3. \A k \in 1..Len(kept) : kept[k] \in Range(kept)
  BY <1>2, RangeOfSeq, LenProperties DEF Range
<1>4. \A k \in 1..Len(inputs) : inputs[k] \in Range(inputs)
  BY <1>2, RangeOfSeq, LenProperties DEF Range
<1>5. QED
  BY <1>1, <1>3, <1>4

LEMMA ApartStep ==
  ASSUME Typed, Flow, FramesApart, Next
  PROVE  FramesApart'
<1> SUFFICES ASSUME stamps' = "presentation"
             PROVE  FramesApart'
  BY DEF FramesApart
<1>0. stamps = "presentation"
  BY DEF Next, Client, Thread, Firmware, QBufKeeps, QBuf, StreamOn, StreamOff, HandleNoOutput,
         HandlePicture, HandleStopDone, FwDecodes, FwOutputs, FwStops
<1>a. /\ kept \in Seq(Frame) /\ inputs \in Seq(Frame) /\ pictures \subseteq Frame
      /\ passed \in Nat
  BY DEF Flow, Typed
<1>b. /\ Wholes(kept) /\ Wholes(inputs)
      /\ \A k \in 1..Len(kept) : Timely(kept[k])
      /\ \A k \in 1..Len(inputs) : Timely(inputs[k])
      /\ \A f \in pictures : /\ Timely(f)
                             /\ \A k \in 1..Len(inputs) : inputs[k].pts # f.pts
                             /\ \A g \in pictures : f.pts = g.pts => f = g
  BY <1>0 DEF FramesApart
<1>c. << >> \in Seq(Frame) /\ Len(<< >>) = 0 /\ Wholes(<< >>)
  BY DEF Wholes
\* A sequence with one more buffer.
<1>d. ASSUME NEW s \in Seq(Frame), Wholes(s), \A k \in 1..Len(s) : Timely(s[k]),
             NEW f \in Frame, Timely(f), \A k \in 1..Len(s) : ~s[k].part => f.pts # s[k].pts
      PROVE  Wholes(Append(s, f)) /\ \A k \in 1..Len(Append(s, f)) : Timely(Append(s, f)[k])
  <2>0. PICK n \in Nat : n = Len(s)
    BY LenProperties
  <2>1. PICK t : t = Append(s, f) /\ n = Len(s)
    BY <2>0
  <2>2. /\ Len(t) = n + 1 /\ t[n + 1] = f /\ \A k \in 1..n : t[k] = s[k]
        /\ \A k \in 1..Len(t) : k \in 1..n \/ k = n + 1
    BY <2>1, Sent
  <2>3. \A k \in 1..Len(t) : Timely(t[k])
    BY <1>d, <2>1, <2>2
  <2>4. ASSUME NEW i \in 1..Len(t), NEW j \in 1..Len(t), i < j, ~t[i].part
        PROVE  t[j].pts # t[i].pts
    <3>1. i \in 1..n /\ t[i] = s[i]
      BY <2>1, <2>2, <2>4
    <3>2. CASE j \in 1..n
      BY <1>d, <2>1, <2>2, <2>4, <3>1, <3>2 DEF Wholes
    <3>3. CASE j = n + 1
      BY <1>d, <2>1, <2>2, <2>4, <3>1, <3>3
    <3>4. QED
      BY <2>2, <3>2, <3>3
  <2>5. QED
    BY <2>1, <2>3, <2>4 DEF Wholes
<1>1. ASSUME NEW f \in NextFrames, QBufKeeps(f) PROVE FramesApart'
  <2>1. /\ f \in Frame /\ Timely(f) /\ \A k \in 1..Len(kept) : ~kept[k].part => f.pts # kept[k].pts
    BY <1>0, NextHas, NextIsNew DEF Timely
  <2>2. kept' = Append(kept, f) /\ UNCHANGED <<inputs, pictures, passed>>
    BY <1>1 DEF QBufKeeps
  <2>3. Wholes(kept') /\ \A k \in 1..Len(kept') : Timely(kept'[k])
    BY <1>a, <1>b, <1>d, <2>1, <2>2, Zenon
  <2>4. QED
    BY <1>b, <2>2, <2>3 DEF Timely, FramesApart
<1>2. ASSUME NEW f \in NextFrames, QBuf(f) PROVE FramesApart'
  <2>1. /\ f \in Frame /\ Timely(f) /\ \A k \in 1..Len(inputs) : ~inputs[k].part => f.pts # inputs[k].pts
        /\ \A g \in pictures : f.pts # g.pts
    BY <1>0, NextHas, NextIsNew DEF Timely, Flow
  <2>2. inputs' = Append(inputs, f) /\ UNCHANGED <<kept, pictures, passed>>
    BY <1>2 DEF QBuf
  <2>3. Wholes(inputs') /\ \A k \in 1..Len(inputs') : Timely(inputs'[k])
    BY <1>a, <1>b, <1>d, <2>1, <2>2, Zenon
  <2>4. \A g \in pictures : \A k \in 1..Len(inputs') : inputs'[k].pts # g.pts
    BY <1>a, <1>b, <2>1, <2>2, Sent
  <2>5. QED
    BY <1>b, <2>2, <2>3, <2>4 DEF Timely, FramesApart
<1>3. CASE StreamOn
  <2>1. /\ port = "off" /\ inputs' = kept /\ kept' = << >> /\ UNCHANGED <<pictures, passed>>
    BY <1>3 DEF StreamOn
  <2>2. pictures = {}
    BY <2>1 DEF Flow
  <2>3. QED
    BY <1>b, <1>c, <2>1, <2>2 DEF Timely, FramesApart
<1>4. CASE StreamOff
  BY <1>0, <1>4 DEF StreamOff, Timely, FramesApart
<1>5. CASE HandleNoOutput
  BY <1>0, <1>5 DEF HandleNoOutput, Timely, FramesApart
<1>6. CASE HandlePicture
  <2>1. UNCHANGED <<stamps, kept, inputs, pictures, passed>>
    BY <1>6 DEF HandlePicture
  <2>2. QED
    BY <1>0, <2>1 DEF Timely, FramesApart
<1>7. CASE HandleStopDone
  <2>1. /\ msgs # << >> /\ Head(msgs).type = "stop_done" /\ msgs \in Seq(Message)
        /\ UNCHANGED <<kept, inputs, pictures>>
    BY <1>7 DEF HandleStopDone, Typed
  <2>2. inputs = << >> /\ pictures = {} /\ kept = << >>
    BY <2>1, Received DEF Flow
  <2>3. QED
    BY <1>c, <2>1, <2>2 DEF FramesApart
<1>8. CASE FwDecodes
  <2>1. /\ inputs # << >> /\ inputs' = Tail(inputs) /\ UNCHANGED <<kept, passed>>
        /\ pictures' = pictures \/ (pictures' = pictures \cup {Head(inputs)} /\ ~Head(inputs).part)
    <3>1. Head(inputs).part \in BOOLEAN
      BY <1>8, <1>a, Received, FrameHas DEF FwDecodes
    <3>2. QED
      BY <1>8, <3>1 DEF FwDecodes
  <2>2. PICK t \in Seq(Frame), n \in Nat :
          /\ t = inputs' /\ n = Len(t) /\ Len(inputs) = n + 1
          /\ \A k \in 1..n : t[k] = inputs[k + 1] /\ k + 1 \in 2..Len(inputs)
    <3>1. /\ Tail(inputs) \in Seq(Frame) /\ Len(inputs) = Len(Tail(inputs)) + 1
          /\ Len(Tail(inputs)) \in Nat
          /\ \A k \in 1..Len(Tail(inputs)) : Tail(inputs)[k] = inputs[k + 1] /\ k + 1 \in 2..Len(inputs)
      BY <1>a, <2>1, Received
    <3>2. QED
      BY <2>1, <3>1
  <2>3. Head(inputs) = inputs[1] /\ 1 \in 1..Len(inputs)
    BY <1>a, <2>1, Received
  <2>4. Wholes(t)
    <3> SUFFICES ASSUME NEW i \in 1..n, NEW j \in 1..n, i < j, ~t[i].part
                 PROVE  t[j].pts # t[i].pts
      BY <2>2 DEF Wholes
    <3>1. i + 1 \in 1..Len(inputs) /\ j + 1 \in 1..Len(inputs) /\ i + 1 < j + 1
      BY <2>2
    <3>2. QED
      BY <1>b, <2>2, <3>1 DEF Wholes
  <2>5. \A k \in 1..n : Timely(t[k])
    BY <1>b, <2>2
  <2>6. Timely(Head(inputs))
    BY <1>b, <2>3
  <2>7. ~Head(inputs).part => \A k \in 1..n : t[k].pts # Head(inputs).pts
    BY <1>b, <2>2, <2>3 DEF Wholes
  <2>8. \A f \in pictures : /\ \A k \in 1..n : t[k].pts # f.pts
                            /\ Head(inputs).pts # f.pts
    BY <1>b, <2>2, <2>3
  <2>9. QED
    BY <1>b, <2>1, <2>2, <2>4, <2>5, <2>6, <2>7, <2>8 DEF Timely, FramesApart
<1>9. ASSUME NEW f \in pictures, FwOutputs(f) PROVE FramesApart'
  <2>1. /\ pictures' = pictures \ {f} /\ passed' = f.pts /\ UNCHANGED <<kept, inputs>>
        /\ \A g \in pictures \cup Range(inputs) : f.pts <= g.pts
    BY <1>9 DEF FwOutputs
  <2>2. kept = << >>
    BY DEF Flow
  <2>3. \A k \in 1..Len(inputs) : inputs[k] \in Range(inputs)
    BY <1>a, RangeOfSeq, LenProperties DEF Range
  <2>4. \A k \in 1..Len(inputs) : f.pts < inputs[k].pts
    <3> TAKE k \in 1..Len(inputs)
    <3>1. inputs[k] \in Frame
      BY <1>a, ElementOfSeq
    <3>2. inputs[k].pts \in Nat /\ f.pts \in Nat
      BY <1>a, <3>1, FrameHas
    <3>3. f.pts <= inputs[k].pts /\ inputs[k].pts # f.pts
      BY <1>b, <2>1, <2>3
    <3>4. QED
      BY <3>2, <3>3
  <2>5. \A g \in pictures' : f.pts < g.pts
    <3> TAKE g \in pictures'
    <3>1. g \in pictures /\ g # f
      BY <2>1
    <3>2. g.pts \in Nat /\ f.pts \in Nat
      BY <1>a, <3>1, FrameHas
    <3>3. f.pts <= g.pts /\ f.pts # g.pts
      BY <1>b, <2>1, <3>1
    <3>4. QED
      BY <3>2, <3>3
  <2>6. QED
    BY <1>b, <1>c, <2>1, <2>2, <2>4, <2>5 DEF Timely, FramesApart
<1>10. CASE FwStops
  <2>1. inputs' = << >> /\ pictures' = {} /\ UNCHANGED <<kept, passed>>
    BY <1>10 DEF FwStops
  <2>2. QED
    BY <1>b, <1>c, <2>1 DEF Timely, FramesApart
<1>11. CASE Client
  BY <1>1, <1>2, <1>3, <1>4, <1>11 DEF Client
<1>12. CASE Thread
  BY <1>5, <1>6, <1>7, <1>12 DEF Thread
<1>13. CASE Firmware
  BY <1>8, <1>9, <1>10, <1>13 DEF Firmware
<1>14. QED
  BY <1>11, <1>12, <1>13 DEF Next

-----------------------------------------------------------------------------
(* The stamp of a picture is the least that is listed.                     *)

\* The counts are numbers.
LEMMA OwedType ==
  ASSUME Typed, Flow, NEW v
  PROVE  /\ Num(inputs, Stamped(v)) \in Nat /\ Num(msgs, Bears(v)) \in Nat
         /\ Waiting(v) \in {0, 1} /\ Owed(v) \in Nat /\ Listed(v) \in Nat
<1>1. Num(inputs, Stamped(v)) \in Nat
  BY NumType DEF Typed
<1>2. Num(msgs, Bears(v)) \in Nat
  BY NumType DEF Typed
<1>3. Listed(v) \in Nat
  BY NumType DEF Flow, Listed
<1>4. Waiting(v) \in {0, 1}
  BY DEF Waiting
<1>5. QED
  BY <1>1, <1>2, <1>3, <1>4 DEF Owed

\* Pictures get the stamp of their own buffer from a client that stamps with
\* the time of presentation.
LEMMA PictureHasItsStamp ==
  ASSUME Typed, Flow, FramesApart, MessagesOrdered, StampsCounted,
         stamps = "presentation", HandlePicture
  PROVE  /\ ts_reorder # << >> /\ Head(msgs).f \in Frame
         /\ Head(ts_reorder).val = Head(msgs).f.pts /\ Head(msgs).f.ts = Head(msgs).f.pts
         /\ shown.ts < Head(msgs).f.pts /\ Head(msgs).f.pts <= passed
<1>a. /\ ts_reorder \in Seq(Stamp) /\ Ascending(ts_reorder) /\ passed \in Nat
      /\ msgs \in Seq(Message) /\ pictures \subseteq Frame /\ inputs \in Seq(Frame)
  BY DEF Flow, Typed
<1>1. msgs # << >> /\ Head(msgs).type = "picture"
  BY DEF HandlePicture
<1>2. port # "off"
  BY <1>1 DEF Flow
<1>3. /\ Head(msgs) = msgs[1] /\ 1 \in 1..Len(msgs) /\ Head(msgs) \in Carrying
      /\ Head(msgs).f \in Frame
  BY <1>a, <1>1, Received, FrameHas
<1>4. PICK p \in Nat : p = Head(msgs).f.pts
  BY <1>3, FrameHas
<1>5. /\ Head(msgs).f.ts = p /\ shown.ts < p /\ p <= passed
      /\ \A l \in (1 + 1)..Len(msgs) : msgs[l].type # "stop_done" => p < msgs[l].f.pts
  BY <1>1, <1>3, <1>4 DEF MessagesOrdered
<1>6. Listed(p) # 0
  <2>1. msgs[1] \in Bears(p)
    BY <1>a, <1>3, <1>5, FrameHas
  <2>2. Num(msgs, Bears(p)) # 0
    BY <1>a, <1>3, <2>1, NumType
  <2>3. Owed(p) # 0
    BY <2>2, OwedType DEF Owed
  <2>4. Owed(p) <= Listed(p)
    BY <1>2 DEF StampsCounted
  <2>5. QED
    BY <2>3, <2>4, OwedType
<1>7. ts_reorder # << >>
  BY <1>6, NumNone DEF Listed
<1>8. PICK h \in Nat : h = Head(ts_reorder).val /\ h <= p /\ Head(ts_reorder) \in At(h)
  <2>1. Head(ts_reorder) \in Stamp /\ Head(ts_reorder).val <= p
    BY <1>a, <1>6, <1>7, FirstTaken DEF Listed
  <2>2. QED
    BY <2>1, StampHas DEF At
<1>9. Listed(h) # 0
  <2>1. 1 \in 1..Len(ts_reorder) /\ ts_reorder[1] = Head(ts_reorder)
    BY <1>a, <1>7, Received
  <2>2. QED
    BY <1>a, <1>8, <2>1, NumType DEF Listed
<1>10. ASSUME h # p PROVE FALSE
  <2>0. h < p /\ h < passed
    BY <1>5, <1>8, <1>10, <1>a
  <2>1. Num(inputs, Stamped(h)) = 0
    <3>1. ASSUME NEW k \in 1..Len(inputs) PROVE inputs[k] \notin Stamped(h)
      <4>1. inputs[k] \in Frame
        BY <1>a, ElementOfSeq
      <4>2. inputs[k].ts \in Nat /\ passed < inputs[k].ts
        BY <4>1, FrameHas DEF FramesApart, Timely
      <4>3. QED
        BY <1>a, <2>0, <4>1, <4>2, FrameHas
    <3>2. QED
      BY <1>a, <3>1, NumType
  <2>2. Waiting(h) = 0
    <3>1. ASSUME NEW f \in pictures PROVE f.ts # h
      <4>1. f.ts \in Nat /\ passed < f.ts
        BY <1>a, FrameHas DEF FramesApart, Timely
      <4>2. QED
        BY <1>a, <2>0, <4>1
    <3>2. QED
      BY <3>1 DEF Waiting
  <2>3. Num(msgs, Bears(h)) = 0
    <3>1. ASSUME NEW k \in 1..Len(msgs), msgs[k] \in Bears(h) PROVE FALSE
      <4>1. msgs[k] \in Message
        BY <1>a, ElementOfSeq
      <4>2. msgs[k].type # "stop_done" /\ msgs[k].f.ts = h
        BY <3>1, <4>1, FrameHas
      <4>3. msgs[k].f.ts = msgs[k].f.pts
        BY <4>2 DEF MessagesOrdered
      <4>4. k # 1
        BY <1>3, <1>5, <1>10, <4>2
      <4>5. k \in (1 + 1)..Len(msgs)
        BY <4>4
      <4>6. p < h
        BY <1>5, <4>2, <4>3, <4>5
      <4>7. QED
        BY <2>0, <4>6
    <3>2. QED
      BY <1>a, <3>1, NumType
  <2>4. Owed(h) = 0
    BY <2>1, <2>2, <2>3 DEF Owed
  <2>5. passed < h
    BY <1>2, <1>9, <2>4 DEF StampsCounted
  <2>6. QED
    BY <1>a, <2>0, <2>5
<1>11. QED
  BY <1>3, <1>4, <1>5, <1>7, <1>8, <1>10

LEMMA OrderedStep ==
  ASSUME Typed, Flow, FramesApart, MessagesOrdered, StampsCounted, Next
  PROVE  MessagesOrdered'
<1> SUFFICES ASSUME stamps' = "presentation" PROVE MessagesOrdered'
  BY DEF MessagesOrdered
<1>0. stamps = "presentation"
  BY DEF Next, Client, Thread, Firmware, QBufKeeps, QBuf, StreamOn, StreamOff, HandleNoOutput,
         HandlePicture, HandleStopDone, FwDecodes, FwOutputs, FwStops
<1>a. /\ msgs \in Seq(Message) /\ passed \in Nat /\ shown.ts \in Nat
      /\ pictures \subseteq Frame /\ inputs \in Seq(Frame)
  BY DEF Flow, Typed
<1> DEFINE Own(s) == \A k \in 1..Len(s) : s[k].type # "stop_done" => s[k].f.ts = s[k].f.pts
           Later(s) == \A k \in 1..Len(s) : s[k].type = "picture" =>
                         \A l \in (k + 1)..Len(s) :
                           s[l].type # "stop_done" => s[k].f.pts < s[l].f.pts
           Between(s, x, y) == \A k \in 1..Len(s) : s[k].type = "picture" =>
                                 x < s[k].f.pts /\ s[k].f.pts <= y
<1>b. Own(msgs) /\ Later(msgs) /\ Between(msgs, shown.ts, passed) /\ shown.ts <= passed
  BY <1>0 DEF MessagesOrdered
<1>c. Own(msgs') /\ Later(msgs') /\ Between(msgs', shown'.ts, passed') /\ shown'.ts <= passed'
        => MessagesOrdered'
  BY DEF MessagesOrdered
<1>d. ASSUME msgs # << >>
      PROVE  /\ Own(Tail(msgs)) /\ Later(Tail(msgs)) /\ Between(Tail(msgs), shown.ts, passed)
             /\ \A k \in 1..Len(Tail(msgs)) : \E l \in (1 + 1)..Len(msgs) : Tail(msgs)[k] = msgs[l]
  <2>1. PICK t \in Seq(Message), n \in Nat :
          /\ t = Tail(msgs) /\ n = Len(t) /\ Len(msgs) = n + 1
          /\ \A k \in 1..n : t[k] = msgs[k + 1] /\ k + 1 \in 2..Len(msgs)
    <3>1. /\ Tail(msgs) \in Seq(Message) /\ Len(msgs) = Len(Tail(msgs)) + 1
          /\ Len(Tail(msgs)) \in Nat
          /\ \A k \in 1..Len(Tail(msgs)) : Tail(msgs)[k] = msgs[k + 1] /\ k + 1 \in 2..Len(msgs)
      BY <1>a, <1>d, Received
    <3>2. QED
      BY <3>1
  <2>2. Own(t) /\ Between(t, shown.ts, passed)
    BY <1>b, <2>1
  <2>3. Later(t)
    <3> SUFFICES ASSUME NEW k \in 1..n, t[k].type = "picture",
                        NEW l \in (k + 1)..n, t[l].type # "stop_done"
                 PROVE  t[k].f.pts < t[l].f.pts
      BY <2>1
    <3>1. k + 1 \in 1..Len(msgs) /\ l + 1 \in ((k + 1) + 1)..Len(msgs) /\ l \in 1..n
      BY <2>1
    <3>2. QED
      BY <1>b, <2>1, <3>1
  <2>4. \A k \in 1..n : k + 1 \in (1 + 1)..Len(msgs)
    BY <2>1
  <2>5. QED
    BY <2>1, <2>2, <2>3, <2>4
\* A message about a buffer that is ahead of every picture.
<1>e. ASSUME NEW m \in Message, NEW x,
             m.type # "stop_done" => m.f.ts = m.f.pts /\ passed < m.f.pts,
             m.type = "picture" => m.f.pts <= x,
             x \in Nat, passed <= x
      PROVE  Own(Append(msgs, m)) /\ Later(Append(msgs, m)) /\ Between(Append(msgs, m), shown.ts, x)
  <2>0. PICK n \in Nat : n = Len(msgs)
    BY <1>a, LenProperties
  <2>1. PICK t : t = Append(msgs, m)
    OBVIOUS
  <2>2. /\ Len(t) = n + 1 /\ t[n + 1] = m /\ \A k \in 1..n : t[k] = msgs[k]
        /\ \A k \in 1..Len(t) : k \in 1..n \/ k = n + 1
    BY <1>a, <2>0, <2>1, Sent
  <2>3. \A k \in 1..n : msgs[k].type = "picture" => msgs[k].f.pts \in Nat
    <3> SUFFICES ASSUME NEW k \in 1..n, msgs[k].type = "picture" PROVE msgs[k].f.pts \in Nat
      OBVIOUS
    <3>1. msgs[k] \in Message
      BY <1>a, <2>0, ElementOfSeq
    <3>2. QED
      BY <3>1, FrameHas
  <2>4. m.type # "stop_done" => m.f.pts \in Nat
    BY FrameHas
  <2>5. Own(t)
    BY <1>b, <1>e, <2>0, <2>2
  <2>6. Between(t, shown.ts, x)
    <3> SUFFICES ASSUME NEW k \in 1..Len(t), t[k].type = "picture"
                 PROVE  shown.ts < t[k].f.pts /\ t[k].f.pts <= x
      OBVIOUS
    <3>1. CASE k \in 1..n
      BY <1>a, <1>b, <1>e, <2>0, <2>2, <2>3, <3>1
    <3>2. CASE k = n + 1
      BY <1>a, <1>b, <1>e, <2>2, <2>4, <3>2
    <3>3. QED
      BY <2>2, <3>1, <3>2
  <2>7. Later(t)
    <3> SUFFICES ASSUME NEW k \in 1..Len(t), t[k].type = "picture",
                        NEW l \in (k + 1)..Len(t), t[l].type # "stop_done"
                 PROVE  t[k].f.pts < t[l].f.pts
      OBVIOUS
    <3>1. k \in 1..n /\ t[k] = msgs[k] /\ l \in 1..Len(t)
      BY <2>2
    <3>2. CASE l \in 1..n
      <4>1. l \in (k + 1)..Len(msgs) /\ t[l] = msgs[l]
        BY <2>0, <2>2, <3>1, <3>2
      <4>2. QED
        BY <1>b, <2>0, <3>1, <4>1
    <3>3. CASE l = n + 1
      <4>1. t[k].f.pts \in Nat /\ t[k].f.pts <= passed
        BY <1>b, <2>0, <2>3, <3>1
      <4>2. passed < t[l].f.pts /\ t[l].f.pts \in Nat
        BY <1>e, <2>2, <2>4, <3>3
      <4>3. QED
        BY <1>a, <4>1, <4>2
    <3>4. QED
      BY <2>2, <3>1, <3>2, <3>3
  <2>8. QED
    BY <2>1, <2>5, <2>6, <2>7
<1> HIDE DEF Own, Later, Between
<1>1. CASE Client
  <2>1. UNCHANGED <<msgs, shown, passed>>
    BY <1>1 DEF Client, QBufKeeps, QBuf, StreamOn, StreamOff
  <2>2. QED
    BY <1>b, <1>c, <2>1
<1>2. CASE HandleNoOutput
  <2>1. msgs # << >> /\ msgs' = Tail(msgs) /\ UNCHANGED <<shown, passed>>
    BY <1>2 DEF HandleNoOutput
  <2>2. QED
    BY <1>b, <1>c, <1>d, <2>1
<1>3. CASE HandlePicture
  <2>1. /\ ts_reorder # << >> /\ Head(msgs).f \in Frame
        /\ Head(ts_reorder).val = Head(msgs).f.pts /\ Head(msgs).f.pts <= passed
    BY <1>0, <1>3, PictureHasItsStamp
  <2>2. /\ msgs # << >> /\ msgs' = Tail(msgs) /\ passed' = passed /\ Head(msgs).type = "picture"
        /\ shown' = [ts |-> Head(ts_reorder).val, pts |-> Head(msgs).f.pts]
    BY <1>3, <2>1 DEF HandlePicture
  <2>3. PICK p \in Nat : p = Head(msgs).f.pts /\ shown'.ts = p /\ p <= passed
    BY <2>1, <2>2, FrameHas
  <2>4. \A l \in (1 + 1)..Len(msgs) : msgs[l].type # "stop_done" => p < msgs[l].f.pts
    <3>1. Head(msgs) = msgs[1] /\ 1 \in 1..Len(msgs)
      BY <1>a, <2>2, Received
    <3>2. QED
      BY <1>b, <2>2, <2>3, <3>1 DEF Later
  <2>5. Between(Tail(msgs), p, passed)
    <3> SUFFICES ASSUME NEW k \in 1..Len(Tail(msgs)), Tail(msgs)[k].type = "picture"
                 PROVE  p < Tail(msgs)[k].f.pts /\ Tail(msgs)[k].f.pts <= passed
      BY DEF Between
    <3>1. PICK l \in (1 + 1)..Len(msgs) : Tail(msgs)[k] = msgs[l]
      BY <1>d, <2>2
    <3>2. Tail(msgs)[k].f.pts <= passed
      BY <1>d, <2>2 DEF Between
    <3>3. p < msgs[l].f.pts
      BY <2>4, <3>1
    <3>4. QED
      BY <3>1, <3>2, <3>3
  <2>6. QED
    BY <1>c, <1>d, <2>2, <2>3, <2>5
<1>4. CASE HandleStopDone
  <2>1. /\ msgs # << >> /\ Head(msgs).type = "stop_done" /\ msgs' = Tail(msgs)
        /\ passed' = 0 /\ shown' = None
    BY <1>4 DEF HandleStopDone
  <2>2. Len(msgs) = 1
    BY <1>a, <2>1, Received DEF Flow
  <2>3. msgs' = << >> /\ shown'.ts = 0
    BY <1>a, <2>1, <2>2, Received, EmptySeq DEF None
  <2>4. Own(<< >>) /\ Later(<< >>) /\ Between(<< >>, 0, 0)
    BY DEF Own, Later, Between
  <2>5. Own(msgs') /\ Later(msgs') /\ Between(msgs', shown'.ts, passed')
    BY <2>1, <2>3, <2>4, Zenon
  <2>6. shown'.ts <= passed'
    BY <2>1, <2>3
  <2>7. QED
    BY <1>c, <2>5, <2>6
<1>5. CASE FwDecodes
  <2>1. CASE UNCHANGED <<msgs, shown, passed>>
    BY <1>b, <1>c, <2>1
  <2>2. CASE /\ msgs' = Append(msgs, [type |-> "no_output", f |-> Head(inputs)])
             /\ inputs # << >> /\ UNCHANGED <<shown, passed>>
    <3>1. Head(inputs) \in Frame /\ Head(inputs) = inputs[1] /\ 1 \in 1..Len(inputs)
      BY <1>a, <2>2, Received
    <3>2. Head(inputs).ts = Head(inputs).pts /\ passed < Head(inputs).pts
      BY <1>0, <3>1 DEF FramesApart, Timely
    <3>3. [type |-> "no_output", f |-> Head(inputs)] \in Message
      BY <3>1, MessagesHave DEF Carrying
    <3>4. passed <= passed
      BY <1>a
    <3>5. /\ Own(msgs') /\ Later(msgs') /\ Between(msgs', shown.ts, passed)
      BY <1>a, <1>e, <2>2, <3>2, <3>3, <3>4
    <3>6. QED
      BY <1>b, <1>c, <2>2, <3>5
  <2>3. QED
    BY <1>5, <2>1, <2>2 DEF FwDecodes
<1>6. ASSUME NEW f \in pictures, FwOutputs(f) PROVE MessagesOrdered'
  <2>1. msgs' = Append(msgs, [type |-> "picture", f |-> f]) /\ passed' = f.pts /\ shown' = shown
    BY <1>6 DEF FwOutputs
  <2>2. f \in Frame /\ f.ts = f.pts /\ passed < f.pts /\ f.pts \in Nat
    BY <1>0, <1>a, FrameHas DEF FramesApart, Timely
  <2>3. [type |-> "picture", f |-> f] \in Message
    BY <2>2, MessagesHave DEF Carrying
  <2>4. passed <= f.pts /\ f.pts <= f.pts
    BY <1>a, <2>2
  <2>5. Own(msgs') /\ Later(msgs') /\ Between(msgs', shown.ts, f.pts)
    BY <1>a, <1>e, <2>1, <2>2, <2>3, <2>4
  <2>6. shown.ts <= f.pts
    BY <1>a, <1>b, <2>2
  <2>7. QED
    BY <1>c, <2>1, <2>5, <2>6
<1>7. CASE FwStops
  <2>1. msgs' = Append(msgs, [type |-> "stop_done"]) /\ UNCHANGED <<shown, passed>>
    BY <1>7 DEF FwStops
  <2>2. [type |-> "stop_done"] \in Message
    BY MessagesHave
  <2>3. passed <= passed
    BY <1>a
  <2>4. Own(msgs') /\ Later(msgs') /\ Between(msgs', shown.ts, passed)
    BY <1>a, <1>e, <2>1, <2>2, <2>3
  <2>5. QED
    BY <1>b, <1>c, <2>1, <2>4
<1>8. CASE Thread
  BY <1>2, <1>3, <1>4, <1>8 DEF Thread
<1>9. CASE Firmware
  BY <1>5, <1>6, <1>7, <1>9 DEF Firmware
<1>10. QED
  BY <1>1, <1>8, <1>9 DEF Next

\* The answer to a stop stays until it is handled.
LEMMA StaysStopped ==
  ASSUME Typed, Stopped,
         \/ UNCHANGED msgs
         \/ \E m \in Message : msgs' = Append(msgs, m)
         \/ msgs # << >> /\ Head(msgs).type # "stop_done" /\ msgs' = Tail(msgs)
  PROVE  Stopped'
<1>a. msgs \in Seq(Message)
  BY DEF Typed
<1>1. PICK k \in 1..Len(msgs) : msgs[k].type = "stop_done"
  BY DEF Stopped
<1>2. CASE UNCHANGED msgs
  BY <1>2 DEF Stopped
<1>3. ASSUME NEW m \in Message, msgs' = Append(msgs, m) PROVE Stopped'
  <2>1. PICK n \in Nat : n = Len(msgs)
    BY <1>a, LenProperties
  <2>2. Len(msgs') = n + 1 /\ msgs'[k] = msgs[k] /\ k \in 1..(n + 1)
    BY <1>a, <1>3, <2>1, Sent
  <2>3. QED
    BY <1>1, <2>2 DEF Stopped
<1>4. CASE msgs # << >> /\ Head(msgs).type # "stop_done" /\ msgs' = Tail(msgs)
  <2>1. /\ Len(msgs) = Len(Tail(msgs)) + 1 /\ Head(msgs) = msgs[1] /\ Len(Tail(msgs)) \in Nat
        /\ \A j \in 1..Len(Tail(msgs)) : Tail(msgs)[j] = msgs[j + 1]
    BY <1>a, <1>4, Received
  <2>2. PICK t, n : t = Tail(msgs) /\ n = Len(t)
    OBVIOUS
  <2>3. k # 1
    BY <1>1, <1>4, <2>1
  <2>4. k - 1 \in 1..n /\ (k - 1) + 1 = k /\ n \in Nat
    BY <1>1, <2>1, <2>2, <2>3
  <2>5. t[k - 1] = msgs[k]
    BY <2>1, <2>2, <2>4
  <2>6. QED
    BY <1>1, <1>4, <2>2, <2>4, <2>5 DEF Stopped
<1>5. QED
  BY <1>2, <1>3, <1>4

\* A buffer that is still to be decoded or shown is ahead.
LEMMA PendingIsAhead ==
  ASSUME Typed, FramesApart, stamps = "presentation", NEW v,
         Num(inputs, Stamped(v)) # 0 \/ Waiting(v) # 0
  PROVE  passed < v
<1>1. CASE Num(inputs, Stamped(v)) # 0
  <2>1. PICK k \in 1..Len(inputs) : inputs[k] \in Stamped(v)
    BY <1>1, NumType DEF Typed
  <2>2. QED
    BY <2>1 DEF FramesApart, Timely, Stamped
<1>2. CASE Waiting(v) # 0
  <2>1. PICK f \in pictures : f.ts = v
    BY <1>2 DEF Waiting
  <2>2. QED
    BY <2>1 DEF FramesApart, Timely
<1>3. QED
  BY <1>1, <1>2

LEMMA CountedStep ==
  ASSUME Typed, Flow, FramesApart, MessagesOrdered, StampsCounted, Typed', Flow', Next
  PROVE  StampsCounted'
<1>0. stamps' = "presentation" => stamps = "presentation"
  BY DEF Next, Client, Thread, Firmware, QBufKeeps, QBuf, StreamOn, StreamOff, HandleNoOutput,
         HandlePicture, HandleStopDone, FwDecodes, FwOutputs, FwStops
<1> SUFFICES ASSUME stamps = "presentation", port' # "off", NEW v \in Nat
             PROVE  /\ Owed(v)' <= Listed(v)'
                    /\ Owed(v)' # Listed(v)' => Stopped' /\ passed' < v
  BY <1>0 DEF StampsCounted
<1>a. /\ msgs \in Seq(Message) /\ pictures \subseteq Frame /\ inputs \in Seq(Frame)
      /\ kept \in Seq(Frame) /\ ts_reorder \in Seq(Stamp) /\ Ascending(ts_reorder)
  BY DEF Flow, Typed
<1> DEFINE one(x) == IF x = v THEN 1 ELSE 0
           I == Num(inputs, Stamped(v))
           M == Num(msgs, Bears(v))
           Goal == /\ Owed(v)' <= Listed(v)'
                   /\ Owed(v)' # Listed(v)' => Stopped' /\ passed' < v
<1>b. /\ I \in Nat /\ M \in Nat /\ Waiting(v) \in {0, 1} /\ Listed(v) \in Nat
      /\ Owed(v) = I + Waiting(v) + M
  BY OwedType DEF Owed
<1>c. /\ I' \in Nat /\ M' \in Nat /\ Waiting(v)' \in {0, 1} /\ Listed(v)' \in Nat
      /\ Owed(v)' = I' + Waiting(v)' + M'
  <2>1. I' \in Nat /\ M' \in Nat
    BY NumType DEF Typed
  <2>2. Listed(v)' \in Nat
    BY NumType DEF Flow, Listed
  <2>3. QED
    BY <2>1, <2>2 DEF Owed, Waiting
<1>d. port # "off" => /\ Owed(v) <= Listed(v)
                      /\ Owed(v) # Listed(v) => Stopped /\ passed < v
  BY DEF StampsCounted
<1>e. \A x : one(x) \in {0, 1}
  OBVIOUS
<1>f. /\ \A f \in Frame : (IF f \in Stamped(v) THEN 1 ELSE 0) = one(f.ts)
      /\ \A m \in Carrying : (IF m \in Bears(v) THEN 1 ELSE 0) = one(m.f.ts)
      /\ \A x \in Nat : (IF [val |-> x] \in At(v) THEN 1 ELSE 0) = one(x)
  <2>1. \A m \in Carrying : m \in Bears(v) <=> m.f.ts = v
    BY DEF Bears
  <2>2. QED
    BY <2>1, FrameHas, StampHas
\* The same is owed and listed as before, or one less, or one more of each.
<1>g. ASSUME NEW x, port # "off", passed' = passed, Stopped => Stopped',
             \/ Owed(v)' = Owed(v) /\ Listed(v)' = Listed(v)
             \/ Owed(v)' = Owed(v) + one(x) /\ Listed(v)' = Listed(v) + one(x)
             \/ Owed(v) = Owed(v)' + one(x) /\ Listed(v) = Listed(v)' + one(x)
      PROVE  Goal
  <2>1. PICK o \in Nat, l \in Nat, o1 \in Nat, l1 \in Nat, d \in {0, 1} :
          /\ o = Owed(v) /\ l = Listed(v) /\ o1 = Owed(v)' /\ l1 = Listed(v)' /\ d = one(x)
    BY <1>b, <1>c, <1>e
  <2>2. o1 <= l1 /\ (o1 # l1 => o # l)
    BY <1>d, <1>g, <2>1
  <2>3. QED
    BY <1>d, <1>g, <2>1, <2>2
<1> HIDE DEF one
<1>1. ASSUME NEW f \in NextFrames, QBufKeeps(f) PROVE Goal
  BY <1>1 DEF QBufKeeps
<1>2. ASSUME NEW f \in NextFrames, QBuf(f) PROVE Goal
  <2>1. /\ port = "on" /\ inputs' = Append(inputs, f) /\ ts_reorder' = Insert(ts_reorder, <<f>>)
        /\ UNCHANGED <<pictures, msgs, passed>>
    BY <1>2 DEF QBuf
  <2>2. f \in Frame /\ f.ts \in Nat
    BY Frames
  <2>3. I' = I + one(f.ts)
    <3>1. Num(Append(inputs, f), Stamped(v)) = I + (IF f \in Stamped(v) THEN 1 ELSE 0)
      BY <1>a, <2>2, NumAppend
    <3>2. QED
      BY <1>f, <2>1, <2>2, <3>1
  <2>4. Listed(v)' = Listed(v) + one(f.ts)
    BY <1>f, <2>1, <2>2, OneInserted DEF Listed
  <2>5. M' = M /\ Waiting(v)' = Waiting(v) /\ (Stopped => Stopped')
    BY <2>1 DEF Waiting, Stopped
  <2>6. Owed(v)' = Owed(v) + one(f.ts)
    BY <1>b, <1>c, <1>e, <2>3, <2>5
  <2>7. QED
    BY <1>g, <2>1, <2>4, <2>5, <2>6
<1>3. CASE StreamOn
  <2>1. /\ port = "off" /\ inputs' = kept /\ ts_reorder' = Insert(<< >>, kept)
        /\ UNCHANGED <<pictures, msgs>>
    BY <1>3 DEF StreamOn
  <2>2. pictures = {} /\ msgs = << >>
    BY <2>1 DEF Flow
  <2>3. Listed(v)' = Num(kept, Stamped(v))
    <3>1. PICK none \in Seq(Stamp) : none = << >> /\ Ascending(none)
      <4>1. << >> \in Seq(Stamp) /\ Ascending(<< >>)
        BY DEF Ascending
      <4>2. QED
        BY <4>1
    <3>2. Num(Insert(none, kept), At(v))
            = Num(none, At(v)) + Num(kept, {f \in Frame : [val |-> f.ts] \in At(v)})
      BY <1>a, <3>1, AllInserted
    <3>3. {f \in Frame : [val |-> f.ts] \in At(v)} = Stamped(v)
      BY FrameHas, StampHas DEF Stamped
    <3>4. PICK n \in Nat : n = Num(kept, Stamped(v)) /\ Num(none, At(v)) = 0
      BY <1>a, <3>1, NumType, NumNone
    <3>5. Num(Insert(none, kept), At(v)) = 0 + n
      BY <3>2, <3>3, <3>4, Zenon
    <3>6. QED
      BY <2>1, <3>1, <3>4, <3>5 DEF Listed
  <2>4. M' = 0 /\ Waiting(v)' = 0
    BY <2>1, <2>2, NumNone DEF Waiting
  <2>5. QED
    BY <1>c, <2>1, <2>3, <2>4
<1>4. CASE StreamOff
  <2>1. port = "on" /\ UNCHANGED <<inputs, pictures, msgs, ts_reorder, passed>>
    BY <1>4 DEF StreamOff
  <2>2. Owed(v)' = Owed(v) /\ Listed(v)' = Listed(v) /\ (Stopped => Stopped')
    BY <2>1 DEF Owed, Listed, Waiting, Stopped
  <2>3. QED
    BY <1>g, <2>1, <2>2
<1>5. CASE HandleNoOutput
  <2>1. /\ msgs # << >> /\ Head(msgs).type = "no_output" /\ msgs' = Tail(msgs)
        /\ ts_reorder' = RemoveTimestamp(ts_reorder, Head(msgs).f.ts)
        /\ UNCHANGED <<port, inputs, pictures, passed>>
    BY <1>5 DEF HandleNoOutput
  <2>2. /\ Head(msgs) \in Carrying /\ Head(msgs) = msgs[1] /\ 1 \in 1..Len(msgs)
    BY <1>a, <2>1, Received, FrameHas
  <2>3. PICK w \in Nat : w = Head(msgs).f.ts /\ msgs[1] \in Bears(w)
    <3>1. Head(msgs).f.ts \in Nat
      BY <2>2, FrameHas DEF Carrying
    <3>2. Head(msgs) \in Bears(Head(msgs).f.ts)
      BY <2>2 DEF Bears
    <3>3. QED
      BY <2>2, <3>1, <3>2
  <2>4. Num(ts_reorder, At(w)) # 0
    <3>1. Num(msgs, Bears(w)) # 0
      BY <1>a, <2>2, <2>3, NumType
    <3>2. Owed(w) # 0 /\ Owed(w) \in Nat
      BY <3>1, OwedType DEF Owed
    <3>3. Owed(w) <= Listed(w) /\ Listed(w) \in Nat
      BY <2>1, OwedType DEF StampsCounted
    <3>4. QED
      BY <3>2, <3>3 DEF Listed
  <2>5. Listed(v) = Listed(v)' + one(w)
    <3>1. Num(ts_reorder, At(v)) = Num(RemoveTimestamp(ts_reorder, w), At(v))
                                     + (IF [val |-> w] \in At(v) THEN 1 ELSE 0)
      BY <1>a, <2>4, RemovedStamp
    <3>2. QED
      BY <1>f, <2>1, <2>3, <3>1 DEF Listed
  <2>6. M = M' + one(w)
    <3>1. M = Num(Tail(msgs), Bears(v)) + (IF Head(msgs) \in Bears(v) THEN 1 ELSE 0)
      BY <1>a, <2>1, NumTail
    <3>2. QED
      BY <1>f, <2>1, <2>2, <2>3, <3>1
  <2>7. I' = I /\ Waiting(v)' = Waiting(v)
    BY <2>1 DEF Waiting
  <2>8. Owed(v) = Owed(v)' + one(w)
    BY <1>b, <1>c, <1>e, <2>6, <2>7
  <2>9. Stopped => Stopped'
    BY <2>1, StaysStopped
  <2>10. QED
    BY <1>g, <2>1, <2>5, <2>8, <2>9
<1>6. CASE HandlePicture
  <2>1. /\ ts_reorder # << >> /\ Head(msgs).f \in Frame
        /\ Head(ts_reorder).val = Head(msgs).f.ts
    BY <1>6, PictureHasItsStamp
  <2>2. /\ msgs # << >> /\ Head(msgs).type = "picture" /\ msgs' = Tail(msgs)
        /\ ts_reorder' = Tail(ts_reorder) /\ UNCHANGED <<port, inputs, pictures, passed>>
    BY <1>6, <2>1 DEF HandlePicture
  <2>3. PICK w \in Nat : w = Head(msgs).f.ts
    BY <2>1, FrameHas
  <2>4. Head(msgs) \in Carrying
    BY <1>a, <2>2, Received, FrameHas
  <2>5. Head(ts_reorder) = [val |-> w]
    BY <1>a, <2>1, <2>3, FirstTaken, StampHas
  <2>6. Listed(v) = Listed(v)' + one(w)
    <3>1. Num(ts_reorder, At(v)) = Num(Tail(ts_reorder), At(v))
                                     + (IF Head(ts_reorder) \in At(v) THEN 1 ELSE 0)
      BY <1>a, <2>1, FirstTaken
    <3>2. QED
      BY <1>f, <2>2, <2>3, <2>5, <3>1 DEF Listed
  <2>7. M = M' + one(w)
    <3>1. M = Num(Tail(msgs), Bears(v)) + (IF Head(msgs) \in Bears(v) THEN 1 ELSE 0)
      BY <1>a, <2>2, NumTail
    <3>2. QED
      BY <1>f, <2>2, <2>3, <2>4, <3>1
  <2>8. I' = I /\ Waiting(v)' = Waiting(v)
    BY <2>2 DEF Waiting
  <2>9. Owed(v) = Owed(v)' + one(w)
    BY <1>b, <1>c, <1>e, <2>7, <2>8
  <2>10. Stopped => Stopped'
    BY <2>2, StaysStopped
  <2>11. QED
    BY <1>g, <2>2, <2>6, <2>9, <2>10
<1>7. CASE HandleStopDone
  BY <1>7 DEF HandleStopDone
<1>8. CASE FwDecodes
  <2>1. /\ inputs # << >> /\ inputs' = Tail(inputs) /\ UNCHANGED <<port, ts_reorder, passed>>
    BY <1>8 DEF FwDecodes
  <2>2. Head(inputs) \in Frame /\ Head(inputs) = inputs[1] /\ 1 \in 1..Len(inputs)
    BY <1>a, <2>1, Received
  <2>3. PICK w \in Nat : w = Head(inputs).ts
    BY <2>2, FrameHas
  <2>4. I = I' + one(w)
    BY <1>a, <1>f, <2>1, <2>2, <2>3, NumTail
  <2>5. port # "off" /\ Listed(v)' = Listed(v)
    BY <2>1 DEF Flow, Listed
  <2>6. CASE /\ msgs' = Append(msgs, [type |-> "no_output", f |-> Head(inputs)])
             /\ UNCHANGED pictures
    <3>1. PICK m \in Carrying : m = [type |-> "no_output", f |-> Head(inputs)] /\ m.f.ts = w
      BY <2>2, <2>3, MessagesHave
    <3>2. m \in Message
      BY DEF Carrying
    <3>3. M' = M + one(w)
      BY <1>a, <1>f, <2>6, <3>1, <3>2, NumAppend
    <3>4. Waiting(v)' = Waiting(v)
      BY <2>6 DEF Waiting
    <3>5. Owed(v)' = Owed(v)
      BY <1>b, <1>c, <1>e, <2>4, <3>3, <3>4
    <3>6. Stopped => Stopped'
      BY <2>6, <3>1, <3>2, StaysStopped
    <3>7. QED
      BY <1>g, <2>1, <2>5, <3>5, <3>6
  <2>7. CASE pictures' = pictures \cup {Head(inputs)} /\ UNCHANGED msgs
    <3>1. M' = M /\ (Stopped => Stopped')
      BY <2>7 DEF Stopped
    <3>2. Waiting(v)' = Waiting(v) + one(w)
      <4>1. CASE w = v
        <5>1. Head(inputs) \in pictures'
          BY <2>7
        <5>2. Waiting(v)' = 1
          BY <2>3, <4>1, <5>1 DEF Waiting
        <5>3. ASSUME NEW f \in pictures PROVE f.ts # v
          BY <2>2, <2>3, <4>1 DEF FramesApart, Timely
        <5>4. Waiting(v) = 0
          BY <5>3 DEF Waiting
        <5>5. QED
          BY <4>1, <5>2, <5>4 DEF one
      <4>2. CASE w # v
        <5>1. (\E f \in pictures' : f.ts = v) <=> (\E f \in pictures : f.ts = v)
          BY <2>3, <2>7, <4>2
        <5>2. Waiting(v)' = Waiting(v)
          BY <5>1 DEF Waiting
        <5>3. QED
          BY <1>b, <4>2, <5>2 DEF one
      <4>3. QED
        BY <4>1, <4>2
    <3>3. Owed(v)' = Owed(v)
      BY <1>b, <1>c, <1>e, <2>4, <3>1, <3>2
    <3>4. QED
      BY <1>g, <2>1, <2>5, <3>1, <3>3
  <2>8. QED
    BY <1>8, <2>6, <2>7 DEF FwDecodes
<1>9. ASSUME NEW f \in pictures, FwOutputs(f) PROVE Goal
  <2>1. /\ msgs' = Append(msgs, [type |-> "picture", f |-> f]) /\ pictures' = pictures \ {f}
        /\ UNCHANGED <<inputs, ts_reorder>>
    BY <1>9 DEF FwOutputs
  <2>2. f \in Frame
    BY <1>a
  <2>3. PICK w \in Nat : w = f.ts
    BY <2>2, FrameHas
  <2>4. PICK m \in Carrying : m = [type |-> "picture", f |-> f] /\ m.f.ts = w
    BY <2>2, <2>3, MessagesHave
  <2>5. M' = M + one(w)
    <3>1. m \in Message
      BY DEF Carrying
    <3>2. Num(Append(msgs, m), Bears(v)) = M + (IF m \in Bears(v) THEN 1 ELSE 0)
      BY <1>a, <3>1, NumAppend
    <3>3. QED
      BY <1>f, <2>1, <2>4, <3>2
  <2>6. Waiting(v) = Waiting(v)' + one(w)
    <3>1. CASE w = v
      <4>1. Waiting(v) = 1
        BY <2>3, <3>1 DEF Waiting
      <4>2. ASSUME NEW g \in pictures' PROVE g.ts # v
        <5>1. g \in pictures /\ g # f
          BY <2>1
        <5>2. g.ts = g.pts /\ f.ts = f.pts /\ g.pts # f.pts
          BY <5>1 DEF FramesApart, Timely
        <5>3. QED
          BY <2>3, <3>1, <5>2
      <4>3. Waiting(v)' = 0
        BY <4>2 DEF Waiting
      <4>4. QED
        BY <3>1, <4>1, <4>3 DEF one
    <3>2. CASE w # v
      <4>1. (\E g \in pictures' : g.ts = v) <=> (\E g \in pictures : g.ts = v)
        BY <2>1, <2>3, <3>2
      <4>2. Waiting(v)' = Waiting(v)
        BY <4>1 DEF Waiting
      <4>3. QED
        BY <1>b, <3>2, <4>2 DEF one
    <3>3. QED
      BY <3>1, <3>2
  <2>7. Owed(v)' = Owed(v) /\ Listed(v)' = Listed(v)
    BY <1>b, <1>c, <1>e, <2>1, <2>5, <2>6 DEF Listed
  <2>8. port # "off" /\ ~Stopped
    BY NoneBefore DEF Flow
  <2>9. QED
    BY <1>b, <1>d, <2>7, <2>8
<1>10. CASE FwStops
  <2>1. /\ port = "stopping" /\ inputs' = << >> /\ pictures' = {}
        /\ msgs' = Append(msgs, [type |-> "stop_done"]) /\ UNCHANGED <<ts_reorder, passed>>
        /\ \A k \in 1..Len(msgs) : msgs[k].type # "stop_done"
    BY <1>10 DEF FwStops
  <2>2. PICK m \in Message : m = [type |-> "stop_done"] /\ m \notin Bears(v)
    BY MessagesHave DEF Bears
  <2>3. M' = M /\ I' = 0 /\ Waiting(v)' = 0 /\ Listed(v)' = Listed(v)
    <3>1. M' = M + 0
      BY <1>a, <2>1, <2>2, NumAppend
    <3>2. I' = 0 /\ Waiting(v)' = 0 /\ Listed(v)' = Listed(v)
      BY <2>1, NumNone DEF Waiting, Listed
    <3>3. QED
      BY <1>b, <3>1, <3>2
  <2>4. Owed(v) = Listed(v)
    BY <1>d, <2>1 DEF Stopped
  <2>5. Owed(v)' = M
    BY <1>b, <1>c, <2>3
  <2>6. M <= Listed(v) /\ (M # Listed(v) => I # 0 \/ Waiting(v) # 0)
    BY <1>b, <2>4
  <2>7. M # Listed(v) => passed < v
    BY <2>6, PendingIsAhead
  <2>8. Stopped'
    <3>1. PICK n \in Nat : n = Len(msgs)
      BY <1>a, LenProperties
    <3>2. Len(msgs') = n + 1 /\ msgs'[n + 1] = m /\ n + 1 \in 1..(n + 1)
      BY <1>a, <2>1, <2>2, <3>1, Sent
    <3>3. QED
      BY <2>2, <3>2 DEF Stopped
  <2>9. QED
    BY <2>1, <2>3, <2>5, <2>6, <2>7, <2>8
<1>11. CASE Client
  BY <1>1, <1>2, <1>3, <1>4, <1>11 DEF Client
<1>12. CASE Thread
  BY <1>5, <1>6, <1>7, <1>12 DEF Thread
<1>13. CASE Firmware
  BY <1>8, <1>9, <1>10, <1>13 DEF Firmware
<1>14. QED
  BY <1>11, <1>12, <1>13 DEF Next

-----------------------------------------------------------------------------
(* The numbers of a client that numbers its buffers.                       *)

LEMMA NumAll ==
  ASSUME NEW X, NEW s \in Seq(X) PROVE Num(s, X) = Len(s)
<1>1. PICK n \in Nat : n = Len(s)
  BY LenProperties
<1>2. Places(s, X) = 1..n
  BY <1>1, ElementOfSeq DEF Places
<1>3. Cardinality(1..n) = n
  BY FS_Interval
<1>4. QED
  BY <1>1, <1>2, <1>3 DEF Num

\* The streamon lists the buffers that were kept, and only those.
LEMMA KeptAreListed ==
  ASSUME Typed, StreamOn
  PROVE  /\ \A v \in Nat : Listed(v)' = Num(kept, Stamped(v))
         /\ Len(ts_reorder') = Len(kept)
<1>1. PICK none \in Seq(Stamp) : none = << >> /\ Ascending(none)
  <2>1. << >> \in Seq(Stamp) /\ Ascending(<< >>)
    BY DEF Ascending
  <2>2. QED
    BY <2>1
<1>2. kept \in Seq(Frame) /\ ts_reorder' = Insert(none, kept)
  BY <1>1 DEF Typed, StreamOn
<1>3. Insert(none, kept) \in Seq(Stamp)
  BY <1>1, <1>2, AllInserted
<1>4. ASSUME NEW S, NEW F, \A f \in Frame : f \in F <=> [val |-> f.ts] \in S, F \subseteq Frame
      PROVE  Num(Insert(none, kept), S) = Num(kept, F)
  <2>1. Num(Insert(none, kept), S)
          = Num(none, S) + Num(kept, {f \in Frame : [val |-> f.ts] \in S})
    BY <1>1, <1>2, AllInserted
  <2>2. {f \in Frame : [val |-> f.ts] \in S} = F
    BY <1>4
  <2>3. PICK n \in Nat : n = Num(kept, F) /\ Num(none, S) = 0
    BY <1>1, <1>2, NumType, NumNone
  <2>4. Num(Insert(none, kept), S) = 0 + n
    BY <2>1, <2>2, <2>3, Zenon
  <2>5. QED
    BY <2>3, <2>4
<1>5. ASSUME NEW v \in Nat PROVE Listed(v)' = Num(kept, Stamped(v))
  <2>1. Stamped(v) \subseteq Frame
    BY DEF Stamped
  <2>2. Num(Insert(none, kept), At(v)) = Num(kept, Stamped(v))
    BY <1>4, <2>1, FrameHas, StampHas
  <2>3. QED
    BY <1>2, <2>2 DEF Listed
<1>6. Num(Insert(none, kept), Stamp) = Num(kept, Frame)
  BY <1>4, FrameHas, StampHas
<1>7. QED
  BY <1>2, <1>3, <1>5, <1>6, NumAll, Zenon

\* Numbers only grow for a client that numbers its buffers.
LEMMA NumbersGrow ==
  ASSUME Typed, Flow, StampsDistinct, stamps = "decoding", HandlePicture
  PROVE  /\ ts_reorder # << >> /\ Head(ts_reorder) \in Stamp
         /\ shown.ts < Head(ts_reorder).val /\ Head(ts_reorder).val <= queued
<1>a. /\ ts_reorder \in Seq(Stamp) /\ Ascending(ts_reorder) /\ msgs \in Seq(Message)
  BY DEF Flow, Typed
<1>1. msgs # << >> /\ Head(msgs).type = "picture"
  BY DEF HandlePicture
<1>2. port # "off"
  BY <1>1 DEF Flow
<1>3. Head(msgs) = msgs[1] /\ 1 \in 1..Len(msgs) /\ Head(msgs) \in Carrying
  BY <1>a, <1>1, Received, FrameHas
<1>4. Num(msgs, Carrying) # 0 /\ Num(msgs, Carrying) \in Nat
  BY <1>a, <1>3, NumType
<1>5. Len(inputs) \in Nat /\ Cardinality(pictures) \in Nat
  BY FS_CardinalityType DEF StampsDistinct, Typed
<1>6. ts_reorder # << >>
  <2>1. Len(inputs) + Cardinality(pictures) + Num(msgs, Carrying) <= Len(ts_reorder)
    BY <1>2 DEF StampsDistinct
  <2>2. Len(ts_reorder) # 0
    BY <1>a, <1>4, <1>5, <2>1
  <2>3. QED
    BY <2>2
<1>7. PICK h \in Nat : h = Head(ts_reorder).val /\ Head(ts_reorder) \in At(h)
  <2>1. Head(ts_reorder) \in Stamp
    BY <1>a, <1>6, FirstTaken
  <2>2. QED
    BY <2>1, StampHas DEF At
<1>8. Listed(h) # 0
  <2>1. 1 \in 1..Len(ts_reorder) /\ ts_reorder[1] = Head(ts_reorder)
    BY <1>a, <1>6, Received
  <2>2. QED
    BY <1>a, <1>7, <2>1, NumType DEF Listed
<1>9. QED
  BY <1>2, <1>6, <1>7, <1>8 DEF StampsDistinct, At

LEMMA DistinctStep ==
  ASSUME Typed, Flow, StampsDistinct, Typed', Flow', Next
  PROVE  StampsDistinct'
<1>0. stamps' = "decoding" => stamps = "decoding"
  BY DEF Next, Client, Thread, Firmware, QBufKeeps, QBuf, StreamOn, StreamOff, HandleNoOutput,
         HandlePicture, HandleStopDone, FwDecodes, FwOutputs, FwStops
<1> SUFFICES ASSUME stamps = "decoding" PROVE StampsDistinct'
  BY <1>0 DEF StampsDistinct
<1>a. /\ msgs \in Seq(Message) /\ pictures \subseteq Frame /\ inputs \in Seq(Frame)
      /\ kept \in Seq(Frame) /\ ts_reorder \in Seq(Stamp) /\ Ascending(ts_reorder)
      /\ queued \in Nat /\ shown.ts \in Nat
  BY DEF Flow, Typed
<1> DEFINE One(s, lo, hi) == \A v \in Nat : Num(s, Stamped(v)) <= 1
                               /\ (Num(s, Stamped(v)) # 0 => lo < v /\ v <= hi)
           Sum == Len(inputs) + Cardinality(pictures) + Num(msgs, Carrying)
           Apart(s, lo, hi) == \A v \in Nat : Num(s, At(v)) <= 1
                               /\ (Num(s, At(v)) # 0 => lo < v /\ v <= hi)
<1>b. /\ IsFiniteSet(pictures) /\ shown.ts <= queued /\ One(kept, 0, queued)
      /\ port # "off" => Apart(ts_reorder, shown.ts, queued) /\ Sum <= Len(ts_reorder)
  BY DEF StampsDistinct, Listed
<1>c. (/\ IsFiniteSet(pictures') /\ shown'.ts <= queued' /\ One(kept', 0, queued')
       /\ port' # "off" => Apart(ts_reorder', shown'.ts, queued') /\ Sum' <= Len(ts_reorder'))
      => StampsDistinct'
  BY DEF StampsDistinct, Listed
<1>d. /\ Len(inputs) \in Nat /\ Cardinality(pictures) \in Nat /\ Num(msgs, Carrying) \in Nat
      /\ Len(ts_reorder) \in Nat
  <2>1. Len(inputs) \in Nat /\ Len(ts_reorder) \in Nat
    BY <1>a
  <2>2. Cardinality(pictures) \in Nat
    BY <1>b, FS_CardinalityType, Zenon
  <2>3. Num(msgs, Carrying) \in Nat
    BY <1>a, NumType, Zenon
  <2>4. QED
    BY <2>1, <2>2, <2>3
<1>e. \A v : Num(kept, Stamped(v)) \in Nat /\ Num(ts_reorder, At(v)) \in Nat
  BY <1>a, NumType
<1>f. ASSUME NEW f \in NextFrames
      PROVE  f \in Frame /\ f.ts = queued + 1 /\ Count = queued + 1
  BY NextHas DEF Count
<1> HIDE DEF One, Apart, Sum
<1>1. ASSUME NEW f \in NextFrames, QBufKeeps(f) PROVE StampsDistinct'
  <2>1. /\ port' = "off" /\ kept' = Append(kept, f) /\ queued' = queued + 1
        /\ UNCHANGED <<pictures, shown>>
    BY <1>1, <1>f DEF QBufKeeps
  <2>2. One(kept', 0, queued')
    <3> SUFFICES ASSUME NEW v \in Nat
                 PROVE  /\ Num(kept', Stamped(v)) <= 1
                        /\ Num(kept', Stamped(v)) # 0 => 0 < v /\ v <= queued'
      BY DEF One
    <3>1. Num(Append(kept, f), Stamped(v))
            = Num(kept, Stamped(v)) + (IF f \in Stamped(v) THEN 1 ELSE 0)
      BY <1>a, <1>f, NumAppend
    <3>2. f \in Stamped(v) <=> v = queued + 1
      BY <1>f DEF Stamped
    <3>3. /\ Num(kept, Stamped(v)) <= 1
          /\ Num(kept, Stamped(v)) # 0 => 0 < v /\ v <= queued
      BY <1>b DEF One
    <3>4. QED
      BY <1>a, <1>e, <2>1, <3>1, <3>2, <3>3
  <2>3. QED
    BY <1>a, <1>b, <1>c, <2>1, <2>2
<1>2. ASSUME NEW f \in NextFrames, QBuf(f) PROVE StampsDistinct'
  <2>1. /\ port = "on" /\ port' = "on" /\ inputs' = Append(inputs, f) /\ queued' = queued + 1
        /\ ts_reorder' = Insert(ts_reorder, <<f>>)
        /\ UNCHANGED <<kept, pictures, msgs, shown>>
    BY <1>2, <1>f DEF QBuf
  <2>2. One(kept', 0, queued')
    <3> SUFFICES ASSUME NEW v \in Nat
                 PROVE  /\ Num(kept, Stamped(v)) <= 1
                        /\ Num(kept, Stamped(v)) # 0 => 0 < v /\ v <= queued + 1
      BY <2>1 DEF One
    <3>1. QED
      BY <1>a, <1>b DEF One
  <2>3. \A S : Num(ts_reorder', S)
                 = Num(ts_reorder, S) + (IF [val |-> queued + 1] \in S THEN 1 ELSE 0)
    BY <1>f, <2>1, OneInserted
  <2>4. Apart(ts_reorder', shown'.ts, queued')
    <3> SUFFICES ASSUME NEW v \in Nat
                 PROVE  /\ Num(ts_reorder', At(v)) <= 1
                        /\ Num(ts_reorder', At(v)) # 0 => shown.ts < v /\ v <= queued + 1
      BY <2>1 DEF Apart
    <3>1. Num(ts_reorder', At(v)) = Num(ts_reorder, At(v)) + (IF queued + 1 = v THEN 1 ELSE 0)
      <4>1. queued + 1 \in Nat
        BY <1>a
      <4>2. [val |-> queued + 1] \in At(v) <=> queued + 1 = v
        BY <4>1, StampHas
      <4>3. QED
        BY <2>3, <4>2
    <3>2. /\ Num(ts_reorder, At(v)) <= 1
          /\ Num(ts_reorder, At(v)) # 0 => shown.ts < v /\ v <= queued
      BY <1>b, <2>1 DEF Apart
    <3>3. QED
      BY <1>a, <1>b, <1>e, <3>1, <3>2
  <2>5. Len(ts_reorder') = Len(ts_reorder) + 1
    <3>1. queued + 1 \in Nat
      BY <1>a
    <3>2. Num(ts_reorder', Stamp) = Num(ts_reorder, Stamp) + 1
      BY <2>3, <3>1, StampHas
    <3>3. ts_reorder' \in Seq(Stamp)
      BY DEF Flow
    <3>4. Num(ts_reorder', Stamp) = Len(ts_reorder') /\ Num(ts_reorder, Stamp) = Len(ts_reorder)
      BY <1>a, <3>3, NumAll
    <3>5. QED
      BY <3>2, <3>4
  <2>6. Sum' = Sum + 1
    <3>1. Len(inputs') = Len(inputs) + 1
      BY <1>a, <1>f, <2>1, Sent
    <3>2. QED
      BY <1>d, <2>1, <3>1 DEF Sum
  <2>7. Sum' <= Len(ts_reorder')
    BY <1>b, <1>d, <2>1, <2>5, <2>6 DEF Sum
  <2>8. QED
    BY <1>a, <1>b, <1>c, <2>1, <2>2, <2>4, <2>7
<1>g. One(<< >>, 0, queued') /\ \A s : s = << >> => One(s, 0, queued')
  BY NumNone DEF One
<1>3. CASE StreamOn
  <2>1. /\ port = "off" /\ inputs' = kept /\ kept' = << >>
        /\ UNCHANGED <<pictures, msgs, queued, shown>>
    BY <1>3 DEF StreamOn
  <2>2. pictures = {} /\ msgs = << >> /\ shown.ts = 0
    BY <2>1 DEF Flow, None
  <2>3. Apart(ts_reorder', shown'.ts, queued')
    <3> SUFFICES ASSUME NEW v \in Nat
                 PROVE  /\ Num(ts_reorder', At(v)) <= 1
                        /\ Num(ts_reorder', At(v)) # 0 => 0 < v /\ v <= queued
      BY <2>1, <2>2 DEF Apart
    <3>1. Num(ts_reorder', At(v)) = Num(kept, Stamped(v))
      BY <1>3, KeptAreListed DEF Listed
    <3>2. QED
      BY <1>b, <3>1 DEF One
  <2>4. Sum' = Len(ts_reorder')
    <3>1. Cardinality({}) = 0 /\ Num(<< >>, Carrying) = 0
      BY FS_EmptySet, NumNone
    <3>2. Sum' = Len(kept) + 0 + 0
      BY <2>1, <2>2, <3>1, Zenon DEF Sum
    <3>3. Len(kept) \in Nat
      BY <1>a
    <3>4. QED
      BY <1>3, <3>2, <3>3, KeptAreListed
  <2>5. Len(ts_reorder') \in Nat
    BY <1>3, <1>a, KeptAreListed
  <2>6. QED
    BY <1>b, <1>c, <1>g, <2>1, <2>3, <2>4, <2>5
<1>4. CASE StreamOff
  <2>1. port = "on" /\ UNCHANGED <<kept, inputs, pictures, msgs, ts_reorder, queued, shown>>
    BY <1>4 DEF StreamOff
  <2>2. Sum' = Sum
    BY <2>1 DEF Sum
  <2>3. QED
    BY <1>b, <1>c, <2>1, <2>2
<1>5. CASE HandleNoOutput
  <2>1. /\ msgs # << >> /\ Head(msgs).type = "no_output" /\ msgs' = Tail(msgs)
        /\ ts_reorder' = RemoveTimestamp(ts_reorder, Head(msgs).f.ts)
        /\ UNCHANGED <<port, kept, inputs, pictures, queued, shown>>
    BY <1>5 DEF HandleNoOutput
  <2>2. /\ Head(msgs) \in Carrying /\ Head(msgs).f \in Frame
    BY <1>a, <2>1, Received, FrameHas
  <2>3. PICK w \in Nat : w = Head(msgs).f.ts
    BY <2>2, FrameHas
  <2>4. ASSUME NEW S
        PROVE  \/ Num(ts_reorder, S) = Num(ts_reorder', S)
               \/ Num(ts_reorder, S) = Num(ts_reorder', S) + (IF [val |-> w] \in S THEN 1 ELSE 0)
    <3>1. /\ Num(ts_reorder, At(w)) = 0 => RemoveTimestamp(ts_reorder, w) = ts_reorder
          /\ Num(ts_reorder, At(w)) # 0 =>
               Num(ts_reorder, S) = Num(RemoveTimestamp(ts_reorder, w), S)
                                      + (IF [val |-> w] \in S THEN 1 ELSE 0)
      BY <1>a, RemovedStamp
    <3>2. ts_reorder' = RemoveTimestamp(ts_reorder, w)
      BY <2>1, <2>3
    <3>3. QED
      BY <3>1, <3>2
  <2>5. ts_reorder' \in Seq(Stamp)
    BY DEF Flow
  <2>6. port # "off"
    BY <2>1 DEF Flow
  <2>7. Apart(ts_reorder', shown'.ts, queued')
    <3> SUFFICES ASSUME NEW v \in Nat
                 PROVE  /\ Num(ts_reorder', At(v)) <= 1
                        /\ Num(ts_reorder', At(v)) # 0 => shown.ts < v /\ v <= queued
      BY <2>1 DEF Apart
    <3>1. Num(ts_reorder', At(v)) \in Nat
      BY <2>5, NumType
    <3>2. Num(ts_reorder', At(v)) <= Num(ts_reorder, At(v))
      BY <1>e, <2>4, <3>1
    <3>3. /\ Num(ts_reorder, At(v)) <= 1
          /\ Num(ts_reorder, At(v)) # 0 => shown.ts < v /\ v <= queued
      BY <1>b, <2>6 DEF Apart
    <3>4. QED
      BY <1>e, <3>1, <3>2, <3>3
  <2>8. Len(ts_reorder) \in {Len(ts_reorder'), Len(ts_reorder') + 1} /\ Len(ts_reorder') \in Nat
    <3>1. Num(ts_reorder', Stamp) = Len(ts_reorder') /\ Num(ts_reorder, Stamp) = Len(ts_reorder)
      BY <1>a, <2>5, NumAll
    <3>2. [val |-> w] \in Stamp
      BY StampHas
    <3>3. QED
      BY <2>4, <2>5, <3>1, <3>2
  <2>9. Num(msgs, Carrying) = Num(msgs', Carrying) + 1 /\ Num(msgs', Carrying) \in Nat
    <3>1. Num(msgs, Carrying) = Num(Tail(msgs), Carrying) + (IF Head(msgs) \in Carrying THEN 1 ELSE 0)
      BY <1>a, <2>1, NumTail
    <3>2. Num(Tail(msgs), Carrying) \in Nat
      BY <1>a, <2>1, Received, NumType
    <3>3. QED
      BY <2>1, <2>2, <3>1, <3>2
  <2>10. Sum' <= Len(ts_reorder')
    BY <1>b, <1>d, <2>1, <2>6, <2>8, <2>9 DEF Sum
  <2>11. QED
    BY <1>b, <1>c, <2>1, <2>7, <2>10
<1>6. CASE HandlePicture
  <2>1. /\ ts_reorder # << >> /\ Head(ts_reorder) \in Stamp
        /\ shown.ts < Head(ts_reorder).val /\ Head(ts_reorder).val <= queued
    BY <1>6, NumbersGrow
  <2>2. /\ msgs # << >> /\ Head(msgs).type = "picture" /\ msgs' = Tail(msgs)
        /\ shown' = [ts |-> Head(ts_reorder).val, pts |-> Head(msgs).f.pts]
        /\ ts_reorder' = Tail(ts_reorder)
        /\ UNCHANGED <<port, kept, inputs, pictures, queued>>
    BY <1>6, <2>1 DEF HandlePicture
  <2>3. PICK h \in Nat : /\ h = Head(ts_reorder).val /\ shown'.ts = h /\ shown.ts < h /\ h <= queued
                         /\ Head(ts_reorder) = [val |-> h]
    BY <2>1, <2>2, StampHas
  <2>4. Head(msgs) \in Carrying /\ port # "off"
    BY <1>a, <2>2, Received, FrameHas DEF Flow
  <2>5. \A S : Num(ts_reorder, S) = Num(ts_reorder', S) + (IF [val |-> h] \in S THEN 1 ELSE 0)
    BY <1>a, <2>1, <2>2, <2>3, FirstTaken
  <2>6. Apart(ts_reorder', shown'.ts, queued')
    <3> SUFFICES ASSUME NEW v \in Nat
                 PROVE  /\ Num(ts_reorder', At(v)) <= 1
                        /\ Num(ts_reorder', At(v)) # 0 => h < v /\ v <= queued
      BY <2>2, <2>3 DEF Apart
    <3>1. Num(ts_reorder', At(v)) \in Nat
      BY NumType DEF Flow
    <3>2. Num(ts_reorder, At(v)) = Num(ts_reorder', At(v)) + (IF h = v THEN 1 ELSE 0)
      BY <2>5, StampHas
    <3>3. /\ Num(ts_reorder, At(v)) <= 1
          /\ Num(ts_reorder, At(v)) # 0 => shown.ts < v /\ v <= queued
      BY <1>b, <2>4 DEF Apart
    <3>4. Num(ts_reorder, At(v)) # 0 => h <= v
      BY <1>a, <2>1, <2>3, FirstTaken
    <3>5. QED
      BY <1>e, <3>1, <3>2, <3>3, <3>4
  <2>7. Len(ts_reorder) = Len(ts_reorder') + 1 /\ Len(ts_reorder') \in Nat
    BY <1>a, <2>1, <2>2, Received
  <2>8. Num(msgs, Carrying) = Num(msgs', Carrying) + 1 /\ Num(msgs', Carrying) \in Nat
    <3>1. Num(msgs, Carrying) = Num(Tail(msgs), Carrying) + (IF Head(msgs) \in Carrying THEN 1 ELSE 0)
      BY <1>a, <2>2, NumTail
    <3>2. Num(Tail(msgs), Carrying) \in Nat
      BY <1>a, <2>2, Received, NumType
    <3>3. QED
      BY <2>2, <2>4, <3>1, <3>2
  <2>9. Sum' <= Len(ts_reorder')
    BY <1>b, <1>d, <2>2, <2>4, <2>7, <2>8 DEF Sum
  <2>10. QED
    BY <1>b, <1>c, <2>2, <2>3, <2>6, <2>9
<1>7. CASE HandleStopDone
  <2>1. /\ msgs # << >> /\ Head(msgs).type = "stop_done"
        /\ port' = "off" /\ queued' = 0 /\ shown' = None /\ UNCHANGED <<kept, pictures>>
    BY <1>7 DEF HandleStopDone
  <2>2. kept = << >>
    BY <2>1 DEF Flow
  <2>3. shown'.ts <= queued'
    BY <2>1 DEF None
  <2>4. QED
    BY <1>b, <1>c, <1>g, <2>1, <2>2, <2>3
<1>8. CASE FwDecodes
  <2>1. /\ inputs # << >> /\ inputs' = Tail(inputs)
        /\ UNCHANGED <<port, kept, ts_reorder, queued, shown>>
        /\ \/ /\ msgs' = Append(msgs, [type |-> "no_output", f |-> Head(inputs)])
              /\ UNCHANGED pictures
           \/ /\ pictures' = pictures \cup {Head(inputs)}
              /\ UNCHANGED msgs
    BY <1>8 DEF FwDecodes
  <2>2. Head(inputs) \in Frame /\ Len(inputs) = Len(inputs') + 1 /\ Len(inputs') \in Nat
    BY <1>a, <2>1, Received
  <2>3. /\ IsFiniteSet(pictures \cup {Head(inputs)})
        /\ Cardinality(pictures \cup {Head(inputs)})
             \in {Cardinality(pictures), Cardinality(pictures) + 1}
    BY <1>b, FS_AddElement
  <2>4. Num(Append(msgs, [type |-> "no_output", f |-> Head(inputs)]), Carrying)
          = Num(msgs, Carrying) + 1
    <3>1. PICK m \in Carrying : m = [type |-> "no_output", f |-> Head(inputs)] /\ m \in Message
      BY <2>2, MessagesHave DEF Carrying
    <3>2. Num(Append(msgs, m), Carrying) = Num(msgs, Carrying) + (IF m \in Carrying THEN 1 ELSE 0)
      BY <1>a, <3>1, NumAppend
    <3>3. QED
      BY <3>1, <3>2
  <2>5. Sum' <= Sum /\ IsFiniteSet(pictures') /\ Sum' \in Nat /\ Sum \in Nat
    <3>1. PICK p \in Nat, q \in Nat, m \in Nat : /\ p = Cardinality(pictures)
                                              /\ q = Len(inputs') /\ m = Num(msgs, Carrying)
      BY <1>d, <2>2
    <3>2. Sum = q + 1 + p + m
      BY <2>2, <3>1 DEF Sum
    <3>3. Sum' = q + Cardinality(pictures') + Num(msgs', Carrying)
      BY <3>1 DEF Sum
    <3>4. CASE pictures' = pictures /\ msgs' = Append(msgs, [type |-> "no_output", f |-> Head(inputs)])
      <4>1. Cardinality(pictures') = p /\ Num(msgs', Carrying) = m + 1 /\ IsFiniteSet(pictures')
        BY <1>b, <2>4, <3>1, <3>4
      <4>2. Sum' = q + p + (m + 1)
        BY <3>3, <4>1, Zenon
      <4>3. q + p + (m + 1) = q + 1 + p + m /\ q + 1 + p + m \in Nat
        OBVIOUS
      <4>4. Sum' = Sum /\ Sum \in Nat
        BY <3>2, <4>2, <4>3, Zenon
      <4>5. Sum <= Sum
        BY <4>4
      <4>6. QED
        BY <4>1, <4>4, <4>5, Zenon
    <3>5. CASE pictures' = pictures \cup {Head(inputs)} /\ msgs' = msgs
      <4>1. Cardinality(pictures') \in {p, p + 1} /\ Num(msgs', Carrying) = m /\ IsFiniteSet(pictures')
        BY <2>3, <3>1, <3>5
      <4>2. QED
        BY <3>1, <3>2, <3>3, <4>1
    <3>6. QED
      BY <2>1, <3>4, <3>5
  <2>6. QED
    BY <1>b, <1>c, <1>d, <2>1, <2>5
<1>9. ASSUME NEW f \in pictures, FwOutputs(f) PROVE StampsDistinct'
  <2>1. /\ msgs' = Append(msgs, [type |-> "picture", f |-> f]) /\ pictures' = pictures \ {f}
        /\ UNCHANGED <<port, kept, inputs, ts_reorder, queued, shown>>
    BY <1>9 DEF FwOutputs
  <2>2. IsFiniteSet(pictures') /\ Cardinality(pictures') = Cardinality(pictures) - 1
    BY <1>b, <2>1, FS_RemoveElement
  <2>3. Num(msgs', Carrying) = Num(msgs, Carrying) + 1
    <3>1. PICK m \in Carrying : m = [type |-> "picture", f |-> f] /\ m \in Message
      BY <1>a, MessagesHave DEF Carrying
    <3>2. Num(Append(msgs, m), Carrying) = Num(msgs, Carrying) + (IF m \in Carrying THEN 1 ELSE 0)
      BY <1>a, <3>1, NumAppend
    <3>3. QED
      BY <2>1, <3>1, <3>2
  <2>4. Sum' = Sum
    BY <1>d, <2>1, <2>2, <2>3 DEF Sum
  <2>5. QED
    BY <1>b, <1>c, <2>1, <2>2, <2>4
<1>10. CASE FwStops
  <2>1. /\ port = "stopping" /\ inputs' = << >> /\ pictures' = {}
        /\ msgs' = Append(msgs, [type |-> "stop_done"])
        /\ UNCHANGED <<port, kept, ts_reorder, queued, shown>>
    BY <1>10 DEF FwStops
  <2>2. Num(msgs', Carrying) = Num(msgs, Carrying)
    <3>1. PICK m \in Message : m = [type |-> "stop_done"] /\ m \notin Carrying
      BY MessagesHave
    <3>2. Num(Append(msgs, m), Carrying) = Num(msgs, Carrying) + (IF m \in Carrying THEN 1 ELSE 0)
      BY <1>a, NumAppend
    <3>3. QED
      BY <1>d, <2>1, <3>1, <3>2
  <2>3. IsFiniteSet({}) /\ Cardinality({}) = 0 /\ Len(<< >>) = 0
    BY FS_EmptySet
  <2>4. Sum' = 0 + 0 + Num(msgs, Carrying)
    BY <2>1, <2>2, <2>3, Zenon DEF Sum
  <2>5. Sum' <= Len(ts_reorder)
    BY <1>b, <1>d, <2>1, <2>4 DEF Sum
  <2>6. QED
    BY <1>b, <1>c, <2>1, <2>3, <2>5
<1>11. CASE Client
  BY <1>1, <1>2, <1>3, <1>4, <1>11 DEF Client
<1>12. CASE Thread
  BY <1>5, <1>6, <1>7, <1>12 DEF Thread
<1>13. CASE Firmware
  BY <1>8, <1>9, <1>10, <1>13 DEF Firmware
<1>14. QED
  BY <1>11, <1>12, <1>13 DEF Next

-----------------------------------------------------------------------------
(* JInv holds.                                                             *)

LEMMA InitJInv == Init => JInv
<1> SUFFICES ASSUME Init PROVE JInv
  OBVIOUS
<1>1. \A X : << >> \in Seq(X)
  OBVIOUS
<1>2. Len(<< >>) = 0 /\ \A k : ~ (k \in 1..Len(<< >>))
  OBVIOUS
<1>3. Flow
  BY <1>1, <1>2 DEF Init, Flow, Ascending, None
<1>4. FramesApart
  BY <1>2 DEF Init, FramesApart, Wholes
<1>5. MessagesOrdered
  <2>1. shown.ts <= passed
    BY DEF Init, None
  <2>2. QED
    BY <1>2, <2>1 DEF Init, MessagesOrdered
<1>6. StampsCounted
  BY DEF Init, StampsCounted
<1>7. StampsDistinct
  <2>1. IsFiniteSet(pictures)
    BY FS_EmptySet DEF Init
  <2>2. shown.ts <= queued
    BY DEF Init, None
  <2>3. \A v : Num(kept, Stamped(v)) = 0
    BY NumNone, Zenon DEF Init
  <2>4. port = "off"
    BY DEF Init
  <2>5. QED
    BY <2>1, <2>2, <2>3, <2>4 DEF StampsDistinct
<1>8. QED
  BY <1>3, <1>4, <1>5, <1>6, <1>7 DEF JInv

LEMMA JInvStep ==
  ASSUME Typed, Typed', JInv, [Next]_vars
  PROVE  JInv'
<1>1. CASE Next
  <2>1. Flow'
    BY <1>1, FlowStep DEF JInv
  <2>2. FramesApart'
    BY <1>1, ApartStep DEF JInv
  <2>3. MessagesOrdered'
    BY <1>1, OrderedStep DEF JInv
  <2>4. StampsCounted'
    BY <1>1, <2>1, CountedStep DEF JInv
  <2>5. StampsDistinct'
    BY <1>1, <2>1, DistinctStep DEF JInv
  <2>6. QED
    BY <2>1, <2>2, <2>3, <2>4, <2>5 DEF JInv
<1>2. CASE UNCHANGED vars
  <2>1. /\ stamps' = stamps /\ port' = port /\ kept' = kept /\ ts_reorder' = ts_reorder
        /\ inputs' = inputs /\ pictures' = pictures /\ msgs' = msgs /\ queued' = queued
        /\ passed' = passed /\ shown' = shown
    BY <1>2 DEF vars
  <2>2. Flow'
    BY <2>1 DEF JInv, Flow
  <2>3. FramesApart'
    BY <2>1 DEF JInv, FramesApart, Timely
  <2>4. MessagesOrdered'
    BY <2>1 DEF JInv, MessagesOrdered
  <2>5. StampsCounted'
    BY <2>1 DEF JInv, StampsCounted, Owed, Waiting, Listed, Stopped
  <2>6. StampsDistinct'
    BY <2>1 DEF JInv, StampsDistinct, Listed
  <2>7. QED
    BY <2>2, <2>3, <2>4, <2>5, <2>6 DEF JInv
<1>3. QED
  BY <1>1, <1>2

LEMMA JInvHolds == Spec => []JInv
<1>1. IInv /\ JInv /\ IInv' /\ [Next]_vars => JInv'
  BY JInvStep DEF IInv
<1>2. QED
  BY <1>1, InitJInv, IInvHolds, PTL DEF Spec

-----------------------------------------------------------------------------
\* Whatever the client queues, whatever was dropped, came in parts or was left
\* over by an earlier stream, each picture has the stamp of its own buffer, or
\* a greater number than the one before (msm_vidc_driver.c:2553,
\* venus_hfi_response.c:1225, msm_vdec.c:1688).
THEOREM PicturesAlwaysKeepTime == Spec => PicturesKeepTime
<1> DEFINE Kept == shown' \notin {shown, None} =>
                     /\ shown'.ts > shown.ts
                     /\ stamps = "presentation" => shown'.ts = shown'.pts
<1>1. ASSUME Typed, JInv, Next PROVE Kept
  <2>1. CASE HandlePicture
    <3>1. /\ shown.ts \in Nat
          /\ stamps \in {"presentation", "decoding"}
      BY <1>1 DEF JInv, Flow
    <3>2. ASSUME ts_reorder # << >>
          PROVE  shown'.ts = Head(ts_reorder).val /\ shown'.pts = Head(msgs).f.pts
      BY <2>1, <3>2 DEF HandlePicture
    <3>3. CASE stamps = "presentation"
      <4>1. /\ ts_reorder # << >> /\ Head(msgs).f \in Frame
            /\ Head(ts_reorder).val = Head(msgs).f.pts
            /\ shown.ts < Head(msgs).f.pts
        BY <1>1, <2>1, <3>3, PictureHasItsStamp DEF JInv
      <4>2. Head(msgs).f.pts \in Nat
        BY <4>1, FrameHas
      <4>3. QED
        BY <3>1, <3>2, <4>1, <4>2
    <3>4. CASE stamps = "decoding"
      <4>1. /\ ts_reorder # << >> /\ Head(ts_reorder) \in Stamp
            /\ shown.ts < Head(ts_reorder).val
        BY <1>1, <2>1, <3>4, NumbersGrow DEF JInv
      <4>2. Head(ts_reorder).val \in Nat
        BY <4>1, StampHas
      <4>3. QED
        BY <3>1, <3>2, <3>4, <4>1, <4>2
    <3>5. QED
      BY <3>1, <3>3, <3>4
  <2>2. CASE ~HandlePicture
    <3>1. shown' = shown \/ shown' = None
      BY <1>1, <2>2 DEF Next, Client, Thread, Firmware, QBufKeeps, QBuf, StreamOn, StreamOff,
                        HandleNoOutput, HandleStopDone, FwDecodes, FwOutputs, FwStops
    <3>2. QED
      BY <3>1
  <2>3. QED
    BY <2>1, <2>2
<1>2. IInv /\ JInv /\ [Next]_vars => [Kept]_vars
  BY <1>1 DEF IInv
<1>3. QED
  BY <1>2, IInvHolds, JInvHolds, PTL DEF Spec, PicturesKeepTime
=============================================================================
