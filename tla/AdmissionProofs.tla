-------------------------- MODULE AdmissionProofs --------------------------
(***************************************************************************)
(* The sessions that stream are within the limits of the platform, for any *)
(* number of sessions, any sizes, rates and limits, and however their      *)
(* checks overlap.                                                         *)
(***************************************************************************)
EXTENDS Admission, Integers, FiniteSetTheorems, WellFoundedInduction, TLAPS

-----------------------------------------------------------------------------
(* Induction over the natural numbers, with sets in place of predicates.   *)

LEMMA LessIsWellFounded ==
  \E R : /\ IsWellFoundedOn(R, Nat)
         /\ \A x, y \in Nat : y < x => <<y, x>> \in R
<1>1. \A x, y \in Nat : y < x => <<y, x>> \in OpToRel(<, Nat)
  BY DEF OpToRel
<1>2. QED
  BY <1>1, NatLessThanWellFounded

LEMMA Least ==
  ASSUME NEW T, T \subseteq Nat, T # {}
  PROVE  \E x \in T : \A y \in T : x <= y
<1>1. PICK R : /\ IsWellFoundedOn(R, Nat)
               /\ \A x, y \in Nat : y < x => <<y, x>> \in R
  BY LessIsWellFounded
<1>2. PICK x \in T : \A y \in T : ~ (<<y, x>> \in R)
  BY <1>1, WFMin
<1>3. \A z, y \in Nat : ~ (<<y, z>> \in R) => z <= y
  BY <1>1
<1>4. QED
  BY <1>2, <1>3

LEMMA Induct ==
  ASSUME NEW T, T \subseteq Nat, 0 \in T, \A n \in T : n + 1 \in T
  PROVE  T = Nat
<1>1. SUFFICES ASSUME T # Nat PROVE FALSE
  OBVIOUS
<1>2. PICK x \in Nat \ T : \A y \in Nat \ T : x <= y
  BY <1>1, Least
<1>3. x # 0 /\ x - 1 \in Nat
  BY <1>2
<1>4. x - 1 \in T
  BY <1>2, <1>3
<1>5. QED
  BY <1>2, <1>3, <1>4

-----------------------------------------------------------------------------
(***************************************************************************)
(* Sums over a finite set: SumFunctionOnSet takes the elements one by one, *)
(* First(A) before the rest of A, but the order does not matter.           *)
(***************************************************************************)
First(A) == CHOOSE x \in A : TRUE

LEMMA FirstIsIn == \A A : A # {} => First(A) \in A
BY DEF First

LEMMA SmallerSet ==
  ASSUME NEW S, IsFiniteSet(S), NEW A \in SUBSET S, NEW x \in A
  PROVE  /\ A \ {x} \in SUBSET S /\ IsFiniteSet(A) /\ IsFiniteSet(A \ {x})
         /\ Cardinality(A) \in Nat /\ Cardinality(A \ {x}) \in Nat
         /\ Cardinality(A) = Cardinality(A \ {x}) + 1
<1>1. IsFiniteSet(A)
  BY FS_Subset
<1>2. IsFiniteSet(A \ {x}) /\ Cardinality(A \ {x}) = Cardinality(A) - 1
  BY <1>1, FS_RemoveElement
<1>3. Cardinality(A) \in Nat /\ Cardinality(A \ {x}) \in Nat
  BY <1>1, <1>2, FS_CardinalityType
<1>4. QED
  BY <1>1, <1>2, <1>3

\* What a table of the sums of all subsets of S says of A.
SumAt(f, g, A) == g[A] = IF A = {} THEN 0 ELSE f[First(A)] + g[A \ {First(A)}]

LEMMA TableExists ==
  ASSUME NEW S, IsFiniteSet(S), NEW f, \A x \in S : f[x] \in Nat
  PROVE  \E g \in [SUBSET S -> Nat] : \A A \in SUBSET S : SumAt(f, g, A)
<1> DEFINE T == {n \in Nat : \E g \in [SUBSET S -> Nat] :
                   \A A \in SUBSET S : Cardinality(A) <= n => SumAt(f, g, A)}
<1>1. \A A \in SUBSET S : Cardinality(A) \in Nat /\ IsFiniteSet(A)
  BY FS_Subset, FS_CardinalityType
<1>2. 0 \in T
  <2>1. PICK g : g = [A \in SUBSET S |-> 0]
    OBVIOUS
  <2>2. g \in [SUBSET S -> Nat]
    BY <2>1
  <2>3. ASSUME NEW A \in SUBSET S, Cardinality(A) <= 0 PROVE SumAt(f, g, A)
    <3>1. A = {}
      BY <1>1, <2>3, FS_EmptySet
    <3>2. QED
      BY <2>1, <3>1 DEF SumAt
  <2>4. QED
    BY <2>2, <2>3
<1>3. ASSUME NEW n \in T PROVE n + 1 \in T
  <2>1. PICK g \in [SUBSET S -> Nat] :
          \A A \in SUBSET S : Cardinality(A) <= n => SumAt(f, g, A)
    OBVIOUS
  <2>2. PICK h : h = [A \in SUBSET S |-> IF Cardinality(A) <= n THEN g[A]
                                         ELSE f[First(A)] + g[A \ {First(A)}]]
    OBVIOUS
  <2>3. ASSUME NEW A \in SUBSET S, A # {}
        PROVE  /\ First(A) \in A /\ f[First(A)] \in Nat /\ A \ {First(A)} \in SUBSET S
               /\ g[A \ {First(A)}] \in Nat
               /\ Cardinality(A \ {First(A)}) \in Nat
               /\ Cardinality(A) = Cardinality(A \ {First(A)}) + 1
    <3>1. First(A) \in A
      BY <2>3, FirstIsIn
    <3>2. /\ A \ {First(A)} \in SUBSET S /\ Cardinality(A \ {First(A)}) \in Nat
          /\ Cardinality(A) = Cardinality(A \ {First(A)}) + 1
      BY <3>1, SmallerSet
    <3>3. QED
      BY <3>1, <3>2
  <2>4. \A A \in SUBSET S : ~(Cardinality(A) <= n) => A # {}
    <3>1. n \in Nat /\ Cardinality({}) <= n
      BY FS_EmptySet
    <3>2. QED
      BY <3>1
  <2>5. h \in [SUBSET S -> Nat]
    BY <2>2, <2>3, <2>4
  <2>6. ASSUME NEW A \in SUBSET S, Cardinality(A) <= n + 1 PROVE SumAt(f, h, A)
    <3>1. CASE A = {}
      <4>1. Cardinality(A) = 0 /\ Cardinality(A) <= n
        BY <3>1, FS_EmptySet
      <4>2. SumAt(f, g, A) /\ h[A] = g[A]
        BY <2>1, <2>2, <4>1
      <4>3. QED
        BY <3>1, <4>2 DEF SumAt
    <3>2. CASE A # {} /\ Cardinality(A) <= n
      <4>1. Cardinality(A \ {First(A)}) <= n /\ A \ {First(A)} \in SUBSET S
        BY <2>3, <3>2
      <4>2. SumAt(f, g, A) /\ h[A] = g[A] /\ h[A \ {First(A)}] = g[A \ {First(A)}]
        BY <2>1, <2>2, <3>2, <4>1
      <4>3. QED
        BY <3>2, <4>2 DEF SumAt
    <3>3. CASE A # {} /\ ~(Cardinality(A) <= n)
      <4>1. Cardinality(A \ {First(A)}) <= n /\ A \ {First(A)} \in SUBSET S
        BY <2>3, <2>6, <3>3
      <4>2. /\ h[A] = f[First(A)] + g[A \ {First(A)}]
            /\ h[A \ {First(A)}] = g[A \ {First(A)}]
        BY <2>2, <3>3, <4>1
      <4>3. QED
        BY <3>3, <4>2 DEF SumAt
    <3>4. QED
      BY <3>1, <3>2, <3>3
  <2>7. QED
    BY <2>5, <2>6
<1>4. T = Nat
  <2> HIDE DEF T
  <2>1. T \subseteq Nat
    BY DEF T
  <2>2. QED
    BY <1>2, <1>3, <2>1, Induct
<1>5. PICK g \in [SUBSET S -> Nat] :
        \A A \in SUBSET S : Cardinality(A) <= Cardinality(S) => SumAt(f, g, A)
  <2>1. Cardinality(S) \in T
    BY <1>4, FS_CardinalityType
  <2>2. QED
    BY <2>1
<1>6. QED
  BY <1>5, FS_Subset

\* Two tables agree wherever both are one.
LEMMA TablesAgree ==
  ASSUME NEW S, IsFiniteSet(S), NEW f, NEW g, NEW h,
         \A A \in SUBSET S : SumAt(f, g, A) /\ SumAt(f, h, A)
  PROVE  g[S] = h[S]
<1> DEFINE T == {n \in Nat : \A A \in SUBSET S : Cardinality(A) = n => g[A] = h[A]}
<1>1. 0 \in T
  <2>1. ASSUME NEW A \in SUBSET S, Cardinality(A) = 0 PROVE g[A] = h[A]
    <3>1. A = {}
      BY <2>1, FS_EmptySet, FS_Subset
    <3>2. QED
      BY <3>1 DEF SumAt
  <2>2. QED
    BY <2>1
<1>2. ASSUME NEW n \in T PROVE n + 1 \in T
  <2>1. ASSUME NEW A \in SUBSET S, Cardinality(A) = n + 1 PROVE g[A] = h[A]
    <3>1. A # {}
      BY <2>1, FS_EmptySet
    <3>2. First(A) \in A
      BY <3>1, FirstIsIn
    <3>3. /\ A \ {First(A)} \in SUBSET S /\ Cardinality(A \ {First(A)}) \in Nat
          /\ Cardinality(A) = Cardinality(A \ {First(A)}) + 1
      BY <3>2, SmallerSet
    <3>4. Cardinality(A \ {First(A)}) = n
      BY <2>1, <3>3
    <3>5. g[A \ {First(A)}] = h[A \ {First(A)}]
      BY <3>3, <3>4
    <3>6. SumAt(f, g, A) /\ SumAt(f, h, A)
      OBVIOUS
    <3>7. QED
      BY <3>1, <3>5, <3>6 DEF SumAt
  <2>2. QED
    BY <2>1
<1>3. T = Nat
  <2> HIDE DEF T
  <2>1. T \subseteq Nat
    BY DEF T
  <2>2. QED
    BY <1>1, <1>2, <2>1, Induct
<1>4. Cardinality(S) \in T
  BY <1>3, FS_CardinalityType
<1>5. QED
  BY <1>4

\* The sum is what the tables say.
LEMMA SumOfTable ==
  ASSUME NEW S, IsFiniteSet(S), NEW f, NEW g \in [SUBSET S -> Nat],
         \A A \in SUBSET S : SumAt(f, g, A)
  PROVE  SumFunctionOnSet(f, S) = g[S]
<1>1. g = [A \in SUBSET S |-> IF A = {} THEN 0 ELSE f[First(A)] + g[A \ {First(A)}]]
  BY DEF SumAt
<1>2. \E h : h = [A \in SUBSET S |-> IF A = {} THEN 0
                    ELSE f[CHOOSE x \in A : TRUE] + h[A \ {CHOOSE x \in A : TRUE}]]
  BY <1>1, Zenon DEF First
<1>3. \E h : /\ h = [A \in SUBSET S |-> IF A = {} THEN 0
                       ELSE f[CHOOSE x \in A : TRUE] + h[A \ {CHOOSE x \in A : TRUE}]]
             /\ SumFunctionOnSet(f, S) = h[S]
  BY <1>2, Zenon DEF SumFunctionOnSet, FoldFunctionOnSet, MapThenFoldSet
<1>4. PICK h : /\ h = [A \in SUBSET S |-> IF A = {} THEN 0
                         ELSE f[First(A)] + h[A \ {First(A)}]]
               /\ SumFunctionOnSet(f, S) = h[S]
  BY <1>3, Zenon DEF First
<1>5. \A A \in SUBSET S : SumAt(f, h, A)
  BY <1>4 DEF SumAt
<1>6. g[S] = h[S]
  BY <1>5, TablesAgree
<1>7. QED
  BY <1>4, <1>6

LEMMA SumStep ==
  ASSUME NEW S, IsFiniteSet(S), NEW f, \A x \in S : f[x] \in Nat
  PROVE  /\ SumFunctionOnSet(f, S) \in Nat
         /\ SumFunctionOnSet(f, S) =
              IF S = {} THEN 0 ELSE f[First(S)] + SumFunctionOnSet(f, S \ {First(S)})
<1>1. PICK g \in [SUBSET S -> Nat] : \A A \in SUBSET S : SumAt(f, g, A)
  BY TableExists
<1>2. SumFunctionOnSet(f, S) = g[S] /\ S \in SUBSET S
  BY <1>1, SumOfTable
<1>3. CASE S = {}
  <2>1. SumAt(f, g, S)
    BY <1>1, <1>2
  <2>2. g[S] = 0
    BY <1>3, <2>1 DEF SumAt
  <2>3. QED
    BY <1>2, <1>3, <2>2
<1>4. CASE S # {}
  <2>1. PICK R : R = S \ {First(S)} /\ R \subseteq S /\ SUBSET R \subseteq SUBSET S
    OBVIOUS
  <2>2. IsFiniteSet(R) /\ \A x \in R : f[x] \in Nat
    BY <2>1, FS_Subset
  <2>3. PICK h \in [SUBSET R -> Nat] : \A A \in SUBSET R : SumAt(f, h, A)
    BY <2>2, TableExists
  <2>4. \A A \in SUBSET R : SumAt(f, g, A) /\ SumAt(f, h, A)
    BY <1>1, <2>1, <2>3
  <2>5. SumFunctionOnSet(f, R) = h[R] /\ g[R] = h[R]
    BY <2>2, <2>3, <2>4, SumOfTable, TablesAgree
  <2>6. g[S] = f[First(S)] + g[R]
    BY <1>1, <1>2, <1>4, <2>1 DEF SumAt
  <2>7. g[S] \in Nat
    BY <1>2
  <2>8. QED
    BY <1>2, <1>4, <2>1, <2>5, <2>6, <2>7
<1>5. QED
  BY <1>3, <1>4

\* Any element may be taken first.
LEMMA SumRemove ==
  ASSUME NEW S, IsFiniteSet(S), NEW f, \A x \in S : f[x] \in Nat
  PROVE  \A y \in S : SumFunctionOnSet(f, S) = f[y] + SumFunctionOnSet(f, S \ {y})
<1>0. \A A \in SUBSET S : \A x \in A :
        /\ A \ {x} \in SUBSET S /\ Cardinality(A \ {x}) \in Nat
        /\ Cardinality(A) = Cardinality(A \ {x}) + 1
  BY SmallerSet
<1> DEFINE Sum(A) == SumFunctionOnSet(f, A)
           T == {n \in Nat : \A A \in SUBSET S : Cardinality(A) = n =>
                   \A y \in A : Sum(A) = f[y] + Sum(A \ {y})}
<1>1. ASSUME NEW A \in SUBSET S
      PROVE  /\ Sum(A) \in Nat
             /\ A # {} => First(A) \in A /\ Sum(A) = f[First(A)] + Sum(A \ {First(A)})
  <2>1. IsFiniteSet(A) /\ \A x \in A : f[x] \in Nat
    BY FS_Subset
  <2>2. QED
    BY <2>1, SumStep, FirstIsIn
<1> HIDE DEF Sum
<1>2. 0 \in T
  <2>1. \A A \in SUBSET S : Cardinality(A) = 0 => A = {}
    BY FS_EmptySet, FS_Subset
  <2>2. QED
    BY <2>1
<1>3. ASSUME NEW n \in T PROVE n + 1 \in T
  <2>1. ASSUME NEW A \in SUBSET S, Cardinality(A) = n + 1, NEW y \in A
        PROVE  Sum(A) = f[y] + Sum(A \ {y})
    <3>1. PICK c \in A : Sum(A) = f[c] + Sum(A \ {c})
      BY <1>1
    <3>2. CASE c = y
      BY <3>1, <3>2
    <3>3. CASE c # y
      <4>1. /\ A \ {y} \in SUBSET S /\ Cardinality(A \ {y}) = n
            /\ A \ {c} \in SUBSET S /\ Cardinality(A \ {c}) = n
        BY <1>0, <2>1
      <4>2. Sum(A \ {y}) = f[c] + Sum((A \ {y}) \ {c})
        BY <3>3, <4>1
      <4>3. Sum(A \ {c}) = f[y] + Sum((A \ {c}) \ {y})
        BY <3>3, <4>1
      <4>4. PICK B \in SUBSET S : B = (A \ {c}) \ {y} /\ B = (A \ {y}) \ {c}
        OBVIOUS
      <4>5. f[c] \in Nat /\ f[y] \in Nat /\ Sum(B) \in Nat
        BY <1>1
      <4>6. Sum(A \ {y}) = f[c] + Sum(B) /\ Sum(A) = f[c] + (f[y] + Sum(B))
        BY <3>1, <4>2, <4>3, <4>4
      <4>7. QED
        BY <4>5, <4>6
    <3>4. QED
      BY <3>2, <3>3
  <2>2. QED
    BY <2>1
<1>4. T = Nat
  <2> HIDE DEF T
  <2>1. T \subseteq Nat
    BY DEF T
  <2>2. QED
    BY <1>2, <1>3, <2>1, Induct
<1>5. Cardinality(S) \in T /\ S \in SUBSET S
  BY <1>4, FS_CardinalityType
<1>6. \A y \in S : Sum(S) = f[y] + Sum(S \ {y})
  BY <1>5
<1>7. QED
  BY <1>6 DEF Sum

\* A sum over fewer elements, each with no larger a value, is no larger.
LEMMA SumMonotone ==
  ASSUME NEW S, IsFiniteSet(S), NEW g, \A x \in S : g[x] \in Nat,
         NEW R \in SUBSET S, NEW f, \A x \in R : f[x] \in Nat /\ f[x] <= g[x]
  PROVE  SumFunctionOnSet(f, R) <= SumFunctionOnSet(g, S)
<1> DEFINE F(A) == SumFunctionOnSet(f, A)
           G(A) == SumFunctionOnSet(g, A)
           T == {n \in Nat : \A A \in SUBSET S : Cardinality(A) = n => F(A \cap R) <= G(A)}
<1>1. ASSUME NEW A \in SUBSET S
      PROVE  /\ G(A) \in Nat /\ F(A \cap R) \in Nat
             /\ \A y \in A : G(A) = g[y] + G(A \ {y})
             /\ \A y \in A \cap R : F(A \cap R) = f[y] + F((A \cap R) \ {y})
             /\ A = {} => G(A) = 0 /\ F(A \cap R) = 0
  <2>1. PICK B \in SUBSET S : B = A \cap R
    OBVIOUS
  <2>2. /\ IsFiniteSet(A) /\ \A x \in A : g[x] \in Nat
        /\ IsFiniteSet(B) /\ \A x \in B : f[x] \in Nat
    BY <2>1, FS_Subset
  <2>3. G(A) \in Nat /\ F(B) \in Nat /\ (A = {} => G(A) = 0) /\ (B = {} => F(B) = 0)
    BY <2>2, SumStep
  <2>4. \A y \in A : G(A) = g[y] + G(A \ {y})
    BY <2>2, SumRemove
  <2>5. \A y \in B : F(B) = f[y] + F(B \ {y})
    BY <2>2, SumRemove
  <2>6. QED
    BY <2>1, <2>3, <2>4, <2>5
<1> HIDE DEF F, G
<1>2. 0 \in T
  <2>1. \A A \in SUBSET S : Cardinality(A) = 0 => A = {}
    BY FS_EmptySet, FS_Subset
  <2>2. \A A \in SUBSET S : Cardinality(A) = 0 => F(A \cap R) <= G(A)
    BY <1>1, <2>1
  <2>3. QED
    BY <2>2
<1>3. ASSUME NEW n \in T PROVE n + 1 \in T
  <2>1. ASSUME NEW A \in SUBSET S, Cardinality(A) = n + 1 PROVE F(A \cap R) <= G(A)
    <3>1. PICK y \in A : TRUE
      BY <2>1, FS_EmptySet
    <3>2. PICK B \in SUBSET S : B = A \ {y} /\ Cardinality(B) = n
      <4>1. /\ A \ {y} \in SUBSET S /\ Cardinality(A \ {y}) \in Nat
            /\ Cardinality(A) = Cardinality(A \ {y}) + 1
        BY SmallerSet
      <4>2. QED
        BY <2>1, <4>1
    <3>3. F(B \cap R) <= G(B) /\ F(B \cap R) \in Nat /\ G(B) \in Nat
      BY <1>1, <3>2
    <3>4. G(A) = g[y] + G(B) /\ g[y] \in Nat
      BY <1>1, <3>2
    <3>5. CASE y \in R
      <4>1. F(A \cap R) = f[y] + F((A \cap R) \ {y}) /\ (A \cap R) \ {y} = B \cap R
        BY <1>1, <3>2, <3>5
      <4>2. F(A \cap R) = f[y] + F(B \cap R)
        BY <4>1
      <4>3. f[y] \in Nat /\ f[y] <= g[y]
        BY <3>5
      <4>4. QED
        BY <3>3, <3>4, <4>2, <4>3
    <3>6. CASE y \notin R
      <4>1. A \cap R = B \cap R
        BY <3>2, <3>6
      <4>2. F(A \cap R) = F(B \cap R)
        BY <4>1
      <4>3. QED
        BY <3>3, <3>4, <4>2
    <3>7. QED
      BY <3>5, <3>6
  <2>2. QED
    BY <2>1
<1>4. T = Nat
  <2> HIDE DEF T
  <2>1. T \subseteq Nat
    BY DEF T
  <2>2. QED
    BY <1>2, <1>3, <2>1, Induct
<1>5. Cardinality(S) \in T /\ S \in SUBSET S /\ S \cap R = R
  BY <1>4, FS_CardinalityType
<1>6. F(S \cap R) <= G(S)
  BY <1>5
<1>7. QED
  BY <1>5, <1>6 DEF F, G

-----------------------------------------------------------------------------
(***************************************************************************)
(* The invariant.  A session is counted from the scan it passed on, not    *)
(* only from the end of its check: between the two others may pass scans   *)
(* of their own, but each of those sees it in the list.                    *)
(***************************************************************************)
Sessions ==
  [enc : BOOLEAN, rt : BOOLEAN, critical : BOOLEAN, size : Nat, rate : Nat, core : 0..2,
   adjust : BOOLEAN, on : BOOLEAN, old : Nat]
Plans ==
  [ok : BOOLEAN, lower : {"none", "self", "all"}, fits : SUBSET (1..2), light : 1..2]

\* Where a check of the load is, where it decides, and where one is that has
\* been let in by it or does not need it.
RateChecks == {"rate_critical", "rate_mbps", "rate_decide"}
LoadChecks == {"critical_mbps", "mbps", "decide"}
Deciding   == {"decide", "rate_decide"}
Past       == {"critical_mbpf", "mbpf", "rt_mbpf", "sessions"}

Typed ==
  /\ cores \in {1, 2}
  /\ listed \in SUBSET Inst /\ IsFiniteSet(listed)
  /\ s \in [Inst -> Sessions] /\ plan \in [Inst -> Plans]
  /\ pc \in [Inst -> {"idle"} \cup LoadChecks \cup RateChecks \cup Past]
  /\ sure \in [size : SUBSET Inst, load : SUBSET Inst, core : SUBSET Inst]

\* What a session may be while it is checked, or counted.
Steady ==
  \A i \in Inst :
    /\ i \in sure.size \cup sure.load \cup sure.core \/ pc[i] # "idle" => i \in listed
    /\ i \in sure.load => s[i].rt /\ pc[i] \notin RateChecks
    /\ pc[i] \in LoadChecks \cup RateChecks => s[i].rt
    /\ pc[i] \in LoadChecks \cup Past => s[i].old = s[i].rate
    /\ cores = 2 /\ (i \in sure.core \/ (pc[i] \in Past /\ s[i].rt)) => s[i].core # 0
    /\ pc[i] \in Deciding /\ plan[i].lower = "self" => ~s[i].enc

\* Whose sizes have been found to fit together, on one core and on two.
Sized == {i \in Inst : i \in sure.size \/ pc[i] \in {"rt_mbpf", "sessions"}}
OnCore(i) ==
  \/ i \in sure.core
  \/ s[i].rt /\ (pc[i] = "sessions" \/ (pc[i] = "rt_mbpf" /\ plan[i].ok))
Placed(c) == {i \in Inst : s[i].core = c /\ OnCore(i)}

\* Whose loads: the encoders, and those that nobody has asked, or is about
\* to ask, to give way.
Counted(i) == s[i].rt /\ (i \in sure.load \/ pc[i] \in Past)
Hard == {i \in Inst : s[i].enc /\ (Counted(i) \/ (s[i].rt /\ pc[i] \in Deciding /\ plan[i].ok))}
Unasked(i) == s[i].enc \/ ~s[i].adjust
Free == {i \in Inst : /\ Unasked(i)
                      /\ \/ Counted(i)
                         \/ s[i].rt /\ pc[i] \in Deciding /\ plan[i].ok /\ plan[i].lower = "none"}

Fits ==
  /\ cores = 1 => Mbpf(Sized) <= MaxMbpf /\ Mbps(Hard) <= MaxMbps /\ Mbps(Free) <= MaxMbps
  /\ cores = 2 => \A c \in 1..2 : Mbpf(Placed(c)) <= MaxMbpf
  /\ Cardinality({i \in sure.size : s[i].size >= LargeSize}) <= MaxLarge

IInv == Typed /\ Steady /\ Fits

-----------------------------------------------------------------------------
(* What the types of the constants and of the scans' results are.          *)

LEMMA MinIsIn ==
  ASSUME NEW T, T \subseteq Nat, T # {}
  PROVE  Min(T) \in Nat
<1>1. \E x \in T : \A y \in T : x <= y
  BY Least
<1>2. Min(T) \in T
  BY <1>1, Zenon DEF Min
<1>3. QED
  BY <1>2

LEMMA LeastSizeAndRate == Min(Size) \in Nat /\ Min(Rate) \in Nat
<1>1. Size \subseteq Nat /\ Size # {} /\ Rate \subseteq Nat /\ Rate # {}
  BY LimitAssumption
<1>2. QED
  BY <1>1, MinIsIn

LEMMA NoPlanTyped ==
  /\ NoPlan \in Plans /\ NoPlan.lower = "none"
  /\ [NoPlan EXCEPT !.ok = FALSE] \in Plans /\ [NoPlan EXCEPT !.ok = FALSE].lower = "none"
<1>1. NoPlan \in Plans /\ NoPlan.lower = "none"
  <2>1. PICK fits \in SUBSET (1..2) : fits = {}
    OBVIOUS
  <2>2. PICK light \in 1..2 : light = 1
    OBVIOUS
  <2>3. NoPlan = [ok |-> TRUE, lower |-> "none", fits |-> fits, light |-> light]
    BY <2>1, <2>2 DEF NoPlan
  <2>4. QED
    BY <2>3 DEF Plans
<1>2. QED
  BY <1>1 DEF Plans

LEMMA WeighTyped ==
  ASSUME Typed, NEW i \in Inst, NEW sum, NEW new, NEW max, NEW seats \in SUBSET (1..2)
  PROVE  Weigh(i, sum, new, max, seats) \in Plans /\ Weigh(i, sum, new, max, seats).lower = "none"
<1>1. CASE cores = 1
  <2>1. Weigh(i, sum, new, max, seats) = NoPlan
    BY <1>1 DEF Weigh
  <2>2. QED
    BY <2>1, NoPlanTyped
<1>2. CASE cores # 1
  <2>1. PICK ok \in BOOLEAN : ok = (s[i].core # 0 => sum[s[i].core] <= max)
    OBVIOUS
  <2>2. PICK fits \in SUBSET (1..2) : fits = {c \in seats : sum[c] + new <= max}
    OBVIOUS
  <2>3. PICK light \in 1..2 : light = IF sum[1] <= sum[2] THEN 1 ELSE 2
    OBVIOUS
  <2>4. Weigh(i, sum, new, max, seats) = [ok |-> ok, lower |-> "none", fits |-> fits, light |-> light]
    BY <1>2, <2>1, <2>2, <2>3 DEF Weigh
  <2>5. QED
    BY <2>4 DEF Plans
<1>3. QED
  BY <1>1, <1>2

LEMMA PickTyped ==
  ASSUME Typed, NEW i \in Inst, NEW p \in Plans, NEW seats \in SUBSET (1..2)
  PROVE  /\ Pick(i, p, seats) \in 0..2
         /\ s[i].core # 0 => Pick(i, p, seats) = s[i].core
<1> DEFINE fits == p.fits \cap seats
<1>1. fits \in SUBSET (1..2) /\ p.light \in 0..2
  BY DEF Plans
<1>2. s[i].core \in 0..2
  BY DEF Typed, Sessions
<1>3. fits # {} => (CHOOSE c \in fits : TRUE) \in fits
  BY Zenon
<1>4. fits # {} => (CHOOSE c \in fits : TRUE) \in 0..2
  BY <1>1, <1>3
<1>5. QED
  BY <1>1, <1>2, <1>4 DEF Pick

LEMMA MbpsPlanTyped ==
  ASSUME Typed, NEW i \in Inst
  PROVE  MbpsPlan(i) \in Plans /\ (MbpsPlan(i).lower = "self" => ~s[i].enc)
<1>1. Seats \in SUBSET (1..2)
  BY DEF Seats
<1> DEFINE w == Weigh(i, [c \in 1..2 |-> Mbps(Realtime(c))], s[i].size * s[i].rate, MaxMbps, Seats)
<1>2. w \in Plans
  BY <1>1, WeighTyped
<1> HIDE DEF w
<1>3. \A l \in {"none", "self", "all"} : [w EXCEPT !.lower = l] \in Plans /\ [w EXCEPT !.lower = l].lower = l
  BY <1>2 DEF Plans
<1>4. [NoPlan EXCEPT !.ok = FALSE] \in Plans /\ [NoPlan EXCEPT !.ok = FALSE].lower = "none"
  BY NoPlanTyped
<1>5. QED
  BY <1>3, <1>4 DEF MbpsPlan, w

-----------------------------------------------------------------------------
(* The initial states.                                                     *)

LEMMA InitTyped == Init => Typed
<1> SUFFICES ASSUME Init PROVE Typed
  OBVIOUS
<1>1. cores \in {1, 2} /\ listed = {} /\ listed \in SUBSET Inst /\ IsFiniteSet(listed)
  BY LimitAssumption, FS_EmptySet DEF Init
<1>2. s \in [Inst -> Sessions]
  <2>1. PICK z : z = Min(Size) /\ z \in Nat
    BY LeastSizeAndRate
  <2>2. PICK r : r = Min(Rate) /\ r \in Nat
    BY LeastSizeAndRate
  <2>3. \A c \in Config : [enc |-> c.enc, rt |-> c.rt, critical |-> c.critical, size |-> z,
                           rate |-> r, core |-> 0, adjust |-> FALSE, on |-> FALSE, old |-> r]
                          \in Sessions
    BY <2>1, <2>2, LimitAssumption DEF Sessions
  <2>4. s \in [Inst -> {[enc |-> c.enc, rt |-> c.rt, critical |-> c.critical, size |-> z,
                         rate |-> r, core |-> 0, adjust |-> FALSE, on |-> FALSE, old |-> r] :
                        c \in Config}]
    BY <2>1, <2>2 DEF Init
  <2>5. QED
    BY <2>3, <2>4
<1>3. plan \in [Inst -> Plans]
  BY NoPlanTyped DEF Init
<1>4. pc \in [Inst -> {"idle"} \cup LoadChecks \cup RateChecks \cup Past]
  BY DEF Init
<1>5. sure \in [size : SUBSET Inst, load : SUBSET Inst, core : SUBSET Inst]
  BY DEF Init
<1>6. QED
  BY <1>1, <1>2, <1>3, <1>4, <1>5 DEF Typed

LEMMA SumOfNone == \A f : SumFunctionOnSet(f, {}) = 0
BY SumStep, FS_EmptySet

LEMMA InitInvariant == Init => IInv
<1> SUFFICES ASSUME Init PROVE IInv
  OBVIOUS
<1>1. Typed
  BY InitTyped
<1>2. /\ sure.size = {} /\ sure.load = {} /\ sure.core = {}
      /\ \A i \in Inst : pc[i] = "idle"
  BY DEF Init
<1>3. Steady
  BY <1>2 DEF Steady, LoadChecks, RateChecks, Past, Deciding
<1>4. Fits
  <2>1. Sized = {} /\ Hard = {} /\ Free = {} /\ \A c \in 1..2 : Placed(c) = {}
    BY <1>2 DEF Sized, Hard, Free, Placed, Counted, OnCore, Past, Deciding
  <2>2. Mbpf({}) = 0 /\ Mbps({}) = 0
    BY SumOfNone DEF Mbpf, Mbps
  <2>3. Cardinality({i \in sure.size : s[i].size >= LargeSize}) = 0
    BY <1>2, FS_EmptySet
  <2>4. 0 <= MaxMbpf /\ 0 <= MaxMbps /\ 0 <= MaxLarge
    BY LimitAssumption
  <2>5. QED
    BY <2>1, <2>2, <2>3, <2>4 DEF Fits
<1>5. QED
  BY <1>1, <1>3, <1>4 DEF IInv

-----------------------------------------------------------------------------
(* Types are kept by every step.                                           *)

LEMMA ListedStep ==
  ASSUME Typed, NEW i \in Inst, Client(i) \/ Check(i)
  PROVE  /\ cores' = cores
         /\ listed' \in SUBSET Inst /\ IsFiniteSet(listed')
<1>1. \A z \in Size : SetSize(i, z) => listed' = listed /\ cores' = cores
  BY DEF SetSize
<1>2. \A r \in Rate : SetRate(i, r) => listed' = listed /\ cores' = cores
  BY DEF SetRate
<1>3. cores' = cores /\ (listed' = listed \/ listed' = listed \cup {i} \/ listed' = listed \ {i})
  BY <1>1, <1>2 DEF Client, Check, AddSession, RemoveSession, SetPriority, Lowers, StreamOn,
     StreamOff, CriticalMbps, ScanMbps, Decide, CriticalMbpf, ScanMbpf, ScanRtMbpf,
     CheckMaxSessions
<1>4. /\ listed \in SUBSET Inst /\ IsFiniteSet(listed)
  BY DEF Typed
<1>5. IsFiniteSet(listed \cup {i}) /\ IsFiniteSet(listed \ {i})
  BY <1>4, FS_AddElement, FS_RemoveElement
<1>6. QED
  BY <1>3, <1>4, <1>5

LEMMA SureStep ==
  ASSUME Typed, NEW i \in Inst, Client(i) \/ Check(i)
  PROVE  sure' \in [size : SUBSET Inst, load : SUBSET Inst, core : SUBSET Inst]
<1>1. sure \in [size : SUBSET Inst, load : SUBSET Inst, core : SUBSET Inst]
  BY DEF Typed
<1>2. Unsure(i) \in [size : SUBSET Inst, load : SUBSET Inst, core : SUBSET Inst]
  BY <1>1 DEF Unsure
<1>3. LoadUnsure(i) \in [size : SUBSET Inst, load : SUBSET Inst, core : SUBSET Inst]
  BY <1>1 DEF LoadUnsure
<1>4. CASE \/ AddSession(i) \/ StreamOn(i) \/ CriticalMbps(i) \/ ScanMbps(i) \/ CriticalMbpf(i)
           \/ ScanMbpf(i) \/ ScanRtMbpf(i)
  BY <1>1, <1>4 DEF AddSession, StreamOn, CriticalMbps, ScanMbps, CriticalMbpf, ScanMbpf,
     ScanRtMbpf
<1>5. CASE RemoveSession(i) \/ StreamOff(i) \/ \E z \in Size : SetSize(i, z)
  BY <1>2, <1>5 DEF RemoveSession, StreamOff, SetSize
<1>6. CASE SetPriority(i) \/ Lowers(i) \/ \E r \in Rate : SetRate(i, r)
  BY <1>3, <1>6 DEF SetPriority, Lowers, SetRate
<1>7. CASE Decide(i)
  <2>1. sure' = sure \/ sure' = [sure EXCEPT !.load = @ \cup {i}]
    BY <1>7 DEF Decide
  <2>2. QED
    BY <1>1, <2>1
<1>8. CASE CheckMaxSessions(i)
  <2>1. CASE Cardinality(Large) > MaxLarge
    BY <1>1, <1>8, <2>1 DEF CheckMaxSessions
  <2>2. CASE ~(Cardinality(Large) > MaxLarge)
    <3>1. PICK a \in SUBSET Inst : a = sure.size \cup {i}
      BY <1>1
    <3>2. PICK b \in SUBSET Inst : b = IF s[i].rt THEN sure.load \cup {i} ELSE sure.load
      BY <1>1
    <3>3. PICK c \in SUBSET Inst : c = IF s[i].rt THEN sure.core \cup {i} ELSE sure.core
      BY <1>1
    <3>4. sure' = [size |-> a, load |-> b, core |-> c]
      BY <1>8, <2>2, <3>1, <3>2, <3>3 DEF CheckMaxSessions
    <3>5. QED
      BY <3>4
  <2>3. QED
    BY <2>1, <2>2
<1>9. QED
  BY <1>4, <1>5, <1>6, <1>7, <1>8 DEF Client, Check

LEMMA PcStep ==
  ASSUME Typed, NEW i \in Inst, Client(i) \/ Check(i)
  PROVE  pc' \in [Inst -> {"idle"} \cup LoadChecks \cup RateChecks \cup Past]
<1>1. pc \in [Inst -> {"idle"} \cup LoadChecks \cup RateChecks \cup Past]
  BY DEF Typed
<1>2. \A z \in Size : SetSize(i, z) => pc' = pc
  BY DEF SetSize
<1>3. CASE AddSession(i) \/ RemoveSession(i) \/ SetPriority(i) \/ Lowers(i) \/ StreamOff(i)
           \/ \E z \in Size : SetSize(i, z)
  BY <1>1, <1>2, <1>3 DEF AddSession, RemoveSession, SetPriority, Lowers, StreamOff
<1>4. CASE StreamOn(i) \/ \E r \in Rate : SetRate(i, r)
  BY <1>1, <1>4 DEF StreamOn, SetRate, LoadChecks, RateChecks, Past
<1>5. CASE CriticalMbps(i) \/ ScanMbps(i) \/ Decide(i)
  BY <1>1, <1>5 DEF CriticalMbps, ScanMbps, Decide, Fails, LoadChecks, RateChecks, Past
<1>6. CASE CriticalMbpf(i) \/ ScanMbpf(i) \/ ScanRtMbpf(i) \/ CheckMaxSessions(i)
  BY <1>1, <1>6 DEF CriticalMbpf, ScanMbpf, ScanRtMbpf, CheckMaxSessions, Fails, LoadChecks,
     RateChecks, Past
<1>7. QED
  BY <1>3, <1>4, <1>5, <1>6 DEF Client, Check

LEMMA PlanStep ==
  ASSUME Typed, NEW i \in Inst, Client(i) \/ Check(i)
  PROVE  plan' \in [Inst -> Plans]
<1>1. plan \in [Inst -> Plans] /\ NoPlan \in Plans
  BY NoPlanTyped DEF Typed
<1>2. CASE Client(i) \/ CriticalMbps(i) \/ CriticalMbpf(i) \/ CheckMaxSessions(i)
  <2>1. plan' = plan
    BY <1>2 DEF Client, AddSession, RemoveSession, SetPriority, Lowers, StreamOn, StreamOff,
       SetSize, SetRate, CriticalMbps, CriticalMbpf, CheckMaxSessions
  <2>2. QED
    BY <1>1, <2>1
<1>3. CASE ScanMbps(i)
  BY <1>1, <1>3, MbpsPlanTyped DEF ScanMbps
<1>4. CASE Decide(i) \/ ScanRtMbpf(i)
  BY <1>1, <1>4 DEF Decide, ScanRtMbpf
<1>5. CASE ScanMbpf(i)
  <2>1. PICK w \in Plans : w = Weigh(i, [c \in 1..2 |-> Mbpf(On(c))], s[i].size, MaxMbpf, {1, 2})
    <3>1. {1, 2} \in SUBSET (1..2)
      OBVIOUS
    <3>2. QED
      BY <3>1, WeighTyped
  <2>2. plan' = plan \/ plan' = [plan EXCEPT ![i] = w]
    BY <1>5, <2>1 DEF ScanMbpf
  <2>3. QED
    BY <1>1, <2>2
<1>6. QED
  BY <1>2, <1>3, <1>4, <1>5 DEF Check

LEMMA FieldsStep ==
  ASSUME Typed, NEW i \in Inst, Client(i) \/ Check(i)
  PROVE  s' \in [Inst -> Sessions]
<1>1. s \in [Inst -> Sessions] /\ plan \in [Inst -> Plans]
  BY DEF Typed
<1>0. s[i] \in Sessions /\ s[i].old \in Nat /\ s[i].rate \in Nat /\ s[i].rt \in BOOLEAN
  BY <1>1 DEF Sessions
<1>2. CASE AddSession(i) \/ ScanMbps(i)
  BY <1>1, <1>2 DEF AddSession, ScanMbps
<1>3. CASE StreamOn(i) \/ (\E r \in Rate : SetRate(i, r))
  <2>1. CASE StreamOn(i)
    <3>1. PICK n \in Nat : n = s[i].rate
      BY <1>0
    <3>2. s' = [s EXCEPT ![i].old = n]
      BY <2>1, <3>1 DEF StreamOn
    <3>3. QED
      BY <1>1, <3>2 DEF Sessions
  <2>2. ASSUME NEW r \in Rate, SetRate(i, r) PROVE s' \in [Inst -> Sessions]
    <3>1. PICK n \in Nat : n = s[i].rate
      BY <1>0
    <3>2. r \in Nat
      BY LimitAssumption
    <3>3. s' = [s EXCEPT ![i].rate = r, ![i].old = n]
      BY <2>2, <3>1 DEF SetRate
    <3>4. QED
      BY <1>1, <3>2, <3>3 DEF Sessions
  <2>3. QED
    BY <1>3, <2>1, <2>2
<1>4. CASE StreamOff(i) \/ SetPriority(i) \/ Lowers(i) \/ CheckMaxSessions(i)
  <2>1. PICK b \in BOOLEAN : b = ~s[i].rt
    BY <1>0
  <2>2. \/ s' = s \/ s' = [s EXCEPT ![i].on = FALSE] \/ s' = [s EXCEPT ![i].rt = b]
        \/ s' = [s EXCEPT ![i].adjust = FALSE, ![i].rt = FALSE] \/ s' = [s EXCEPT ![i].on = TRUE]
    BY <1>4, <2>1 DEF StreamOff, SetPriority, Lowers, CheckMaxSessions
  <2>3. PICK x \in Sessions : x = [s[i] EXCEPT !.adjust = FALSE, !.rt = FALSE]
    <3>1. [s[i] EXCEPT !.adjust = FALSE] \in Sessions
      BY <1>0 DEF Sessions
    <3>2. [[s[i] EXCEPT !.adjust = FALSE] EXCEPT !.rt = FALSE] \in Sessions
      BY <3>1 DEF Sessions
    <3>3. QED
      BY <3>2
  <2>4. [s EXCEPT ![i].adjust = FALSE, ![i].rt = FALSE] = [s EXCEPT ![i] = x]
    BY <1>1, <2>3
  <2>5. [s EXCEPT ![i] = x] \in [Inst -> Sessions]
    BY <1>1, <2>3
  <2>6. /\ [s EXCEPT ![i].on = FALSE] \in [Inst -> Sessions]
        /\ [s EXCEPT ![i].on = TRUE] \in [Inst -> Sessions]
        /\ [s EXCEPT ![i].rt = b] \in [Inst -> Sessions]
    BY <1>1 DEF Sessions
  <2>7. QED
    BY <1>1, <2>2, <2>4, <2>5, <2>6
<1>5. CASE RemoveSession(i)
  <2>1. PICK z \in Nat : z = Min(Size)
    BY LeastSizeAndRate
  <2>2. PICK r \in Nat : r = Min(Rate)
    BY LeastSizeAndRate
  <2>3. PICK x : x = [enc |-> s[i].enc, rt |-> s[i].rt, critical |-> s[i].critical, size |-> z,
                      rate |-> r, core |-> 0, adjust |-> FALSE, on |-> FALSE, old |-> r]
    OBVIOUS
  <2>4. x \in Sessions
    BY <1>0, <2>3 DEF Sessions
  <2>5. PICK y : y = [s[i] EXCEPT !.core = 0, !.adjust = FALSE, !.on = FALSE,
                                  !.size = z, !.rate = r, !.old = r]
    OBVIOUS
  <2>6. x = y
    BY <1>0, <2>3, <2>5 DEF Sessions
  <2>7. s' = [s EXCEPT ![i].core = 0, ![i].adjust = FALSE, ![i].on = FALSE,
                       ![i].size = z, ![i].rate = r, ![i].old = r]
    BY <1>5, <2>1, <2>2 DEF RemoveSession
  <2>8. s' = [s EXCEPT ![i] = y]
    BY <1>1, <2>5, <2>7
  <2>9. QED
    BY <1>1, <2>4, <2>6, <2>8
<1>6. ASSUME NEW z \in Size, SetSize(i, z) PROVE s' \in [Inst -> Sessions]
  BY <1>1, <1>6, LimitAssumption DEF SetSize, Sessions
<1>7. CASE CriticalMbps(i) \/ CriticalMbpf(i) \/ ScanMbpf(i)
  <2>1. PICK n \in Nat : n = s[i].old
    BY <1>0
  <2>2. s' = s \/ s' = [s EXCEPT ![i].rate = n]
    BY <1>7, <2>1 DEF CriticalMbps, CriticalMbpf, ScanMbpf, Fails
  <2>3. QED
    BY <1>1, <2>2 DEF Sessions
<1>8. CASE Decide(i)
  <2>1. PICK p \in 0..2 : p = Pick(i, plan[i], {1, 2})
    BY <1>1, PickTyped
  <2>2. PICK in \in BOOLEAN : in = LetIn(i, plan[i], {1, 2})
    BY <1>1 DEF LetIn, Plans
  <2>3. s' = [j \in Inst |->
                [s[j] EXCEPT !.adjust = @ \/ j \in Asked(i),
                             !.core = IF j = i THEN p ELSE @,
                             !.rate = IF j = i /\ ~in THEN s[i].old ELSE @]]
    BY <1>8, <2>1, <2>2 DEF Decide
  <2>4. QED
    BY <1>1, <2>1, <2>3 DEF Sessions
<1>9. CASE ScanRtMbpf(i)
  <2>1. PICK p \in 0..2 : p = Pick(i, plan[i], Seats)
    <3>1. Seats \in SUBSET (1..2)
      BY DEF Seats
    <3>2. QED
      BY <1>1, <3>1, PickTyped
  <2>2. s' = [s EXCEPT ![i].core = p] \/ s' = [s EXCEPT ![i].rate = s[i].old]
    BY <1>9, <2>1 DEF ScanRtMbpf, Fails
  <2>3. QED
    BY <1>1, <2>2 DEF Sessions
<1>10. QED
  BY <1>2, <1>3, <1>4, <1>5, <1>6, <1>7, <1>8, <1>9 DEF Client, Check

LEMMA TypedStep ==
  ASSUME Typed, NEW i \in Inst, Client(i) \/ Check(i)
  PROVE  Typed'
<1>1. cores \in {1, 2}
  BY DEF Typed
<1>2. QED
  BY <1>1, ListedStep, SureStep, PcStep, PlanStep, FieldsStep
     DEF Typed, LoadChecks, RateChecks, Past, Sessions, Plans

-----------------------------------------------------------------------------
(* What a step of i leaves of another session, and does to i.              *)

Same(j) ==
  /\ s'[j].enc = s[j].enc /\ s'[j].rt = s[j].rt /\ s'[j].size = s[j].size
  /\ s'[j].rate = s[j].rate /\ s'[j].core = s[j].core /\ s'[j].old = s[j].old
  /\ s'[j].critical = s[j].critical /\ s'[j].on = s[j].on
  /\ (s[j].adjust => s'[j].adjust)

SameSure(j) ==
  /\ j \in sure.size' <=> j \in sure.size
  /\ j \in sure.load' <=> j \in sure.load
  /\ j \in sure.core' <=> j \in sure.core

LEMMA OthersKeepFields ==
  ASSUME Typed, NEW i \in Inst, Client(i) \/ Check(i), NEW j \in Inst, j # i
  PROVE  Same(j)
<1>1. s \in [Inst -> Sessions]
  BY DEF Typed
<1>2. CASE Client(i)
  <2>1. s'[j] = s[j]
    BY <1>1, <1>2 DEF Client, AddSession, RemoveSession, SetPriority, Lowers, StreamOn,
       StreamOff, SetSize, SetRate
  <2>2. QED
    BY <2>1 DEF Same
<1>3. CASE \/ CriticalMbps(i) \/ ScanMbps(i) \/ CriticalMbpf(i) \/ ScanMbpf(i)
           \/ ScanRtMbpf(i) \/ CheckMaxSessions(i)
  <2>1. s'[j] = s[j]
    BY <1>1, <1>3 DEF CriticalMbps, ScanMbps, CriticalMbpf, ScanMbpf, ScanRtMbpf,
       CheckMaxSessions, Fails
  <2>2. QED
    BY <2>1 DEF Same
<1>4. CASE Decide(i)
  <2>1. s'[j] = [s[j] EXCEPT !.adjust = @ \/ j \in Asked(i), !.core = @, !.rate = @]
    BY <1>4 DEF Decide
  <2>2. s[j] \in Sessions
    BY <1>1
  <2>3. QED
    BY <2>1, <2>2 DEF Same, Sessions
<1>5. QED
  BY <1>2, <1>3, <1>4 DEF Check

LEMMA OthersKeepRest ==
  ASSUME Typed, NEW i \in Inst, Client(i) \/ Check(i), NEW j \in Inst, j # i
  PROVE  /\ pc'[j] = pc[j] /\ plan'[j] = plan[j] /\ (j \in listed' <=> j \in listed)
         /\ SameSure(j)
<1>1. /\ pc \in [Inst -> {"idle"} \cup LoadChecks \cup RateChecks \cup Past]
      /\ plan \in [Inst -> Plans]
      /\ sure \in [size : SUBSET Inst, load : SUBSET Inst, core : SUBSET Inst]
  BY DEF Typed
<1>2. pc'[j] = pc[j]
  BY <1>1 DEF Client, AddSession, RemoveSession, SetPriority, Lowers, StreamOn, StreamOff,
     SetSize, SetRate, Check, CriticalMbps, ScanMbps, CriticalMbpf, ScanMbpf, ScanRtMbpf,
     CheckMaxSessions, Decide, Fails
<1>3. plan'[j] = plan[j]
  BY <1>1 DEF Client, AddSession, RemoveSession, SetPriority, Lowers, StreamOn, StreamOff,
     SetSize, SetRate, Check, CriticalMbps, ScanMbps, CriticalMbpf, ScanMbpf, ScanRtMbpf,
     CheckMaxSessions, Decide, Fails
<1>4. j \in listed' <=> j \in listed
  BY DEF Client, AddSession, RemoveSession, SetPriority, Lowers, StreamOn, StreamOff,
     SetSize, SetRate, Check, CriticalMbps, ScanMbps, CriticalMbpf, ScanMbpf, ScanRtMbpf,
     CheckMaxSessions, Decide, Fails
<1>5. SameSure(j)
  <2>1. CASE Client(i)
    <3>1. sure' = sure \/ sure' = Unsure(i) \/ sure' = LoadUnsure(i)
      BY <2>1 DEF Client, AddSession, RemoveSession, SetPriority, Lowers, StreamOn,
         StreamOff, SetSize, SetRate
    <3>2. QED
      BY <1>1, <3>1 DEF SameSure, Unsure, LoadUnsure
  <2>2. CASE \/ CriticalMbps(i) \/ ScanMbps(i) \/ CriticalMbpf(i) \/ ScanMbpf(i) \/ ScanRtMbpf(i)
    BY <2>2 DEF SameSure, CriticalMbps, ScanMbps, CriticalMbpf, ScanMbpf, ScanRtMbpf
  <2>3. CASE CheckMaxSessions(i)
    BY <2>3 DEF SameSure, CheckMaxSessions
  <2>4. CASE Decide(i)
    <3>1. sure' = sure \/ sure' = [sure EXCEPT !.load = @ \cup {i}]
      BY <2>4 DEF Decide
    <3>2. QED
      BY <1>1, <3>1 DEF SameSure
  <2>5. QED
    BY <2>1, <2>2, <2>3, <2>4 DEF Check
<1>6. QED
  BY <1>2, <1>3, <1>4, <1>5

-----------------------------------------------------------------------------
(* Steady is kept.                                                         *)

SteadyOf(i) ==
  /\ i \in sure.size \cup sure.load \cup sure.core \/ pc[i] # "idle" => i \in listed
  /\ i \in sure.load => s[i].rt /\ pc[i] \notin RateChecks
  /\ pc[i] \in LoadChecks \cup RateChecks => s[i].rt
  /\ pc[i] \in LoadChecks \cup Past => s[i].old = s[i].rate
  /\ cores = 2 /\ (i \in sure.core \/ (pc[i] \in Past /\ s[i].rt)) => s[i].core # 0
  /\ pc[i] \in Deciding /\ plan[i].lower = "self" => ~s[i].enc

LEMMA SteadyOthers ==
  ASSUME Typed, Steady, NEW i \in Inst, Client(i) \/ Check(i), NEW j \in Inst, j # i
  PROVE  SteadyOf(j)'
<1>1. Same(j)
  BY OthersKeepFields
<1>2. /\ pc'[j] = pc[j] /\ plan'[j] = plan[j] /\ (j \in listed' <=> j \in listed)
      /\ SameSure(j)
  BY OthersKeepRest
<1>3. cores' = cores
  BY ListedStep
<1>4. SteadyOf(j)
  BY DEF Steady, SteadyOf
<1>5. QED
  BY <1>1, <1>2, <1>3, <1>4 DEF Same, SameSure, SteadyOf, LoadChecks, RateChecks, Past, Deciding

\* What a check that fails leaves of i.
LEMMA FailsSelf ==
  ASSUME Typed, NEW i \in Inst, Fails(i)
  PROVE  /\ pc'[i] = "idle"
         /\ s'[i].enc = s[i].enc /\ s'[i].rt = s[i].rt /\ s'[i].size = s[i].size
         /\ s'[i].core = s[i].core /\ s'[i].adjust = s[i].adjust /\ s'[i].old = s[i].old
         /\ s'[i].rate = s[i].old
<1>1. /\ s \in [Inst -> Sessions] /\ s[i] \in Sessions
      /\ pc \in [Inst -> {"idle"} \cup LoadChecks \cup RateChecks \cup Past]
  BY DEF Typed
<1>2. s'[i] = [s[i] EXCEPT !.rate = s[i].old] /\ pc'[i] = "idle"
  BY <1>1 DEF Fails
<1>3. QED
  BY <1>1, <1>2 DEF Sessions

\* What a check that lets i in, or not, does to i.
LEMMA DecideSelf ==
  ASSUME Typed, NEW i \in Inst, Decide(i)
  PROVE  LET in == LetIn(i, plan[i], {1, 2})
         IN  /\ pc'[i] = IF in /\ pc[i] = "decide" THEN "critical_mbpf" ELSE "idle"
             /\ s'[i].enc = s[i].enc /\ s'[i].rt = s[i].rt /\ s'[i].size = s[i].size
             /\ s'[i].core = Pick(i, plan[i], {1, 2}) /\ s'[i].old = s[i].old
             /\ s'[i].rate = IF in THEN s[i].rate ELSE s[i].old
             /\ s'[i].adjust = (s[i].adjust \/ i \in Asked(i))
             /\ sure'.size = sure.size /\ sure'.core = sure.core
             /\ sure'.load = IF in /\ pc[i] = "rate_decide" THEN sure.load \cup {i} ELSE sure.load
<1> DEFINE in == LetIn(i, plan[i], {1, 2})
<1>1. /\ s \in [Inst -> Sessions] /\ s[i] \in Sessions
      /\ pc \in [Inst -> {"idle"} \cup LoadChecks \cup RateChecks \cup Past]
      /\ sure \in [size : SUBSET Inst, load : SUBSET Inst, core : SUBSET Inst]
  BY DEF Typed
<1>2. s'[i] = [s[i] EXCEPT !.adjust = @ \/ i \in Asked(i),
                           !.core = Pick(i, plan[i], {1, 2}),
                           !.rate = IF ~in THEN s[i].old ELSE @]
  BY DEF Decide
<1>3. /\ pc' = [pc EXCEPT ![i] = IF in /\ pc[i] = "decide" THEN "critical_mbpf" ELSE "idle"]
      /\ sure' = IF in /\ pc[i] = "rate_decide" THEN [sure EXCEPT !.load = @ \cup {i}] ELSE sure
  BY DEF Decide
<1> HIDE DEF in
<1>4. /\ s'[i].enc = s[i].enc /\ s'[i].rt = s[i].rt /\ s'[i].size = s[i].size
      /\ s'[i].core = Pick(i, plan[i], {1, 2}) /\ s'[i].old = s[i].old
      /\ s'[i].rate = IF in THEN s[i].rate ELSE s[i].old
      /\ s'[i].adjust = (s[i].adjust \/ i \in Asked(i))
  BY <1>1, <1>2 DEF Sessions
<1>5. pc'[i] = IF in /\ pc[i] = "decide" THEN "critical_mbpf" ELSE "idle"
  BY <1>1, <1>3
<1>6. /\ sure'.size = sure.size /\ sure'.core = sure.core
      /\ sure'.load = IF in /\ pc[i] = "rate_decide" THEN sure.load \cup {i} ELSE sure.load
  BY <1>1, <1>3
<1>7. QED
  BY <1>4, <1>5, <1>6 DEF in

\* What the last scan does to i when it does not fail.
LEMMA ScanRtMbpfSelf ==
  ASSUME Typed, NEW i \in Inst, ScanRtMbpf(i), ~Fails(i)
  PROVE  /\ pc'[i] = IF LetIn(i, plan[i], Seats) THEN "sessions" ELSE "idle"
         /\ s'[i].enc = s[i].enc /\ s'[i].rt = s[i].rt /\ s'[i].size = s[i].size
         /\ s'[i].core = Pick(i, plan[i], Seats) /\ s'[i].old = s[i].old
         /\ s'[i].rate = s[i].rate /\ s'[i].adjust = s[i].adjust
<1>1. /\ s \in [Inst -> Sessions] /\ s[i] \in Sessions
      /\ pc \in [Inst -> {"idle"} \cup LoadChecks \cup RateChecks \cup Past]
  BY DEF Typed
<1>2. /\ s'[i] = [s[i] EXCEPT !.core = Pick(i, plan[i], Seats)]
      /\ pc'[i] = IF LetIn(i, plan[i], Seats) THEN "sessions" ELSE "idle"
  BY <1>1 DEF ScanRtMbpf
<1>3. QED
  BY <1>1, <1>2 DEF Sessions

LEMMA CheckMaxSessionsSelf ==
  ASSUME Typed, NEW i \in Inst, CheckMaxSessions(i)
  PROVE  /\ pc[i] = "sessions" /\ pc'[i] = "idle"
         /\ s'[i].enc = s[i].enc /\ s'[i].rt = s[i].rt /\ s'[i].size = s[i].size
         /\ s'[i].core = s[i].core /\ s'[i].old = s[i].old
         /\ s'[i].rate = s[i].rate /\ s'[i].adjust = s[i].adjust
         /\ i \in sure.load' => i \in sure.load \/ s[i].rt
         /\ i \in sure.core' => i \in sure.core \/ s[i].rt
         /\ Cardinality(Large) > MaxLarge => UNCHANGED sure
<1>1. /\ s \in [Inst -> Sessions] /\ s[i] \in Sessions
      /\ pc \in [Inst -> {"idle"} \cup LoadChecks \cup RateChecks \cup Past]
  BY DEF Typed
<1>2. s' = s \/ s' = [s EXCEPT ![i].on = TRUE]
  BY DEF CheckMaxSessions
<1>3. s'[i] = s[i] \/ s'[i] = [s[i] EXCEPT !.on = TRUE]
  BY <1>1, <1>2
<1>4. /\ s'[i].enc = s[i].enc /\ s'[i].rt = s[i].rt /\ s'[i].size = s[i].size
      /\ s'[i].core = s[i].core /\ s'[i].old = s[i].old
      /\ s'[i].rate = s[i].rate /\ s'[i].adjust = s[i].adjust
  BY <1>1, <1>3 DEF Sessions
<1>5. pc[i] = "sessions" /\ pc'[i] = "idle"
  BY <1>1 DEF CheckMaxSessions
<1>6. /\ i \in sure.load' => i \in sure.load \/ s[i].rt
      /\ i \in sure.core' => i \in sure.core \/ s[i].rt
      /\ Cardinality(Large) > MaxLarge => UNCHANGED sure
  BY DEF CheckMaxSessions
<1>7. QED
  BY <1>4, <1>5, <1>6

LEMMA SteadySelf ==
  ASSUME Typed, Steady, NEW i \in Inst, Client(i) \/ Check(i)
  PROVE  SteadyOf(i)'
<1>1. /\ SteadyOf(i) /\ s \in [Inst -> Sessions] /\ plan \in [Inst -> Plans]
      /\ pc \in [Inst -> {"idle"} \cup LoadChecks \cup RateChecks \cup Past]
      /\ sure \in [size : SUBSET Inst, load : SUBSET Inst, core : SUBSET Inst]
      /\ s[i] \in Sessions
  BY DEF Typed, Steady, SteadyOf
<1>2. cores' = cores
  BY ListedStep
<1> USE <1>1, <1>2 DEF SteadyOf, LoadChecks, RateChecks, Past, Deciding
<1>3. CASE AddSession(i)
  BY <1>3 DEF AddSession
<1>4. CASE RemoveSession(i)
  BY <1>4 DEF RemoveSession, Idle, Unsure
<1>5. CASE \E z \in Size : SetSize(i, z)
  BY <1>5 DEF SetSize, Idle, Unsure
<1>6. CASE StreamOff(i)
  BY <1>6 DEF StreamOff, Idle, Unsure
<1>7. CASE SetPriority(i)
  BY <1>7 DEF SetPriority, Idle, LoadUnsure
<1>8. CASE Lowers(i)
  BY <1>8 DEF Lowers, Idle, LoadUnsure
<1>9. CASE \E r \in Rate : SetRate(i, r)
  BY <1>9 DEF SetRate, Idle, LoadUnsure
<1>10. CASE StreamOn(i)
  BY <1>10 DEF StreamOn, Idle, Sessions
<1>11. CASE CriticalMbps(i)
  <2>1. CASE Fails(i)
    <3>1. sure' = sure /\ listed' = listed
      BY <1>11 DEF CriticalMbps
    <3>2. QED
      BY <2>1, <3>1, FailsSelf
  <2>2. CASE ~Fails(i)
    BY <1>11, <2>2 DEF CriticalMbps
  <2>3. QED
    BY <2>1, <2>2
<1>12. CASE ScanMbps(i)
  <2>1. pc'[i] = (IF pc[i] = "mbps" THEN "decide" ELSE "rate_decide") /\ plan'[i] = MbpsPlan(i)
    BY <1>12 DEF ScanMbps
  <2>2. plan'[i].lower = "self" => ~s[i].enc
    BY <2>1, MbpsPlanTyped
  <2>3. QED
    BY <1>12, <2>1, <2>2 DEF ScanMbps
<1>13. CASE Decide(i)
  <2>1. PICK in \in BOOLEAN : in = LetIn(i, plan[i], {1, 2})
    BY DEF LetIn, Plans
  <2>2. /\ pc'[i] = IF in /\ pc[i] = "decide" THEN "critical_mbpf" ELSE "idle"
        /\ s'[i].enc = s[i].enc /\ s'[i].rt = s[i].rt
        /\ s'[i].core = Pick(i, plan[i], {1, 2}) /\ s'[i].old = s[i].old
        /\ s'[i].rate = IF in THEN s[i].rate ELSE s[i].old
        /\ sure'.size = sure.size /\ sure'.core = sure.core
        /\ sure'.load = IF in /\ pc[i] = "rate_decide" THEN sure.load \cup {i} ELSE sure.load
    BY <1>13, <2>1, DecideSelf
  <2>3. /\ s[i].core # 0 => s'[i].core # 0
        /\ cores = 2 /\ in => s'[i].core # 0
    <3>1. plan[i] \in Plans /\ {1, 2} \in SUBSET (1..2)
      OBVIOUS
    <3>2. s[i].core # 0 => Pick(i, plan[i], {1, 2}) = s[i].core
      BY <3>1, PickTyped
    <3>3. QED
      BY <2>1, <2>2, <3>2 DEF LetIn
  <2>4. listed' = listed /\ pc[i] \in {"decide", "rate_decide"}
    BY <1>13 DEF Decide
  <2>5. QED
    BY <2>2, <2>3, <2>4
<1>14. CASE CriticalMbpf(i)
  <2>1. CASE Fails(i)
    <3>1. sure' = sure /\ listed' = listed
      BY <1>14 DEF CriticalMbpf
    <3>2. QED
      BY <2>1, <3>1, FailsSelf
  <2>2. CASE ~Fails(i)
    BY <1>14, <2>2 DEF CriticalMbpf
  <2>3. QED
    BY <2>1, <2>2
<1>15. CASE ScanMbpf(i)
  <2>1. CASE Fails(i)
    <3>1. sure' = sure /\ listed' = listed
      BY <1>15 DEF ScanMbpf
    <3>2. QED
      BY <2>1, <3>1, FailsSelf
  <2>2. CASE ~Fails(i)
    BY <1>15, <2>2 DEF ScanMbpf
  <2>3. QED
    BY <2>1, <2>2
<1>16. CASE ScanRtMbpf(i)
  <2>0. sure' = sure /\ listed' = listed /\ pc[i] = "rt_mbpf"
    BY <1>16 DEF ScanRtMbpf
  <2>1. CASE Fails(i)
    BY <2>0, <2>1, FailsSelf
  <2>2. CASE ~Fails(i)
    <3>1. PICK in \in BOOLEAN : in = LetIn(i, plan[i], Seats)
      BY DEF LetIn, Plans
    <3>2. /\ pc'[i] = IF in THEN "sessions" ELSE "idle"
          /\ s'[i].enc = s[i].enc /\ s'[i].rt = s[i].rt
          /\ s'[i].core = Pick(i, plan[i], Seats) /\ s'[i].old = s[i].old
          /\ s'[i].rate = s[i].rate
      BY <1>16, <2>2, <3>1, ScanRtMbpfSelf
    <3>3. s[i].core # 0 => s'[i].core # 0
      <4>1. plan[i] \in Plans /\ Seats \in SUBSET (1..2)
        BY DEF Seats
      <4>2. s[i].core # 0 => Pick(i, plan[i], Seats) = s[i].core
        BY <4>1, PickTyped
      <4>3. QED
        BY <3>2, <4>2
    <3>4. QED
      BY <2>0, <3>2, <3>3
  <2>3. QED
    BY <2>1, <2>2
<1>17. CASE CheckMaxSessions(i)
  <2>1. listed' = listed /\ \A x \in {"idle"} : x \notin LoadChecks \cup RateChecks \cup Past
    BY <1>17 DEF CheckMaxSessions
  <2>2. QED
    BY <1>17, <2>1, CheckMaxSessionsSelf
<1>18. QED
  BY <1>3, <1>4, <1>5, <1>6, <1>7, <1>8, <1>9, <1>10, <1>11, <1>12, <1>13, <1>14, <1>15,
     <1>16, <1>17 DEF Client, Check

LEMMA SteadyStep ==
  ASSUME Typed, Steady, NEW i \in Inst, Client(i) \/ Check(i)
  PROVE  Steady'
<1>1. \A j \in Inst : SteadyOf(j)'
  BY SteadyOthers, SteadySelf
<1>2. QED
  BY <1>1 DEF Steady, SteadyOf

-----------------------------------------------------------------------------
(***************************************************************************)
(* The sums of the invariant do not grow, except in the two scans that     *)
(* count a session, and those have just compared what they count.          *)
(***************************************************************************)
Area == [i \in Inst |-> s[i].size]
Load == [i \in Inst |-> s[i].size * s[i].rate]

LEMMA AreaAndLoad ==
  ASSUME Typed
  PROVE  \A j \in Inst : /\ Area[j] = s[j].size /\ Area[j] \in Nat
                         /\ Load[j] = s[j].size * s[j].rate /\ Load[j] \in Nat
<1>1. \A j \in Inst : s[j].size \in Nat /\ s[j].rate \in Nat
  BY DEF Typed, Sessions
<1>2. \A x, y \in Nat : x * y \in Nat
  OBVIOUS
<1>3. QED
  BY <1>1, <1>2 DEF Area, Load

LEMMA SumsAreNumbers ==
  ASSUME Typed, NEW P \in SUBSET listed
  PROVE  /\ Mbpf(P) = SumFunctionOnSet(Area, P) /\ Mbpf(P) \in Nat
         /\ Mbps(P) = SumFunctionOnSet(Load, P) /\ Mbps(P) \in Nat
<1>1. IsFiniteSet(P) /\ P \subseteq Inst
  BY FS_Subset DEF Typed
<1>2. Mbpf(P) = SumFunctionOnSet(Area, P) /\ Mbps(P) = SumFunctionOnSet(Load, P)
  BY DEF Mbpf, Mbps, Area, Load
<1>3. \A j \in P : Area[j] \in Nat /\ Load[j] \in Nat
  BY <1>1, AreaAndLoad
<1>4. SumFunctionOnSet(Area, P) \in Nat /\ SumFunctionOnSet(Load, P) \in Nat
  BY <1>1, <1>3, SumStep
<1>5. QED
  BY <1>2, <1>4

\* The sums over P after a step are at most those over Q before it.
LEMMA AreaBound ==
  ASSUME Typed, Typed', NEW Q \in SUBSET listed, NEW P \in SUBSET Q,
         \A j \in P : s'[j].size = s[j].size
  PROVE  SumFunctionOnSet(Area', P) \in Nat /\ SumFunctionOnSet(Area', P) <= Mbpf(Q)
<1>1. IsFiniteSet(Q) /\ Q \subseteq Inst
  BY FS_Subset DEF Typed
<1>2. \A j \in Q : Area[j] \in Nat
  BY <1>1, AreaAndLoad
<1>3. \A j \in Inst : Area'[j] = s'[j].size /\ Area[j] = s[j].size
  BY DEF Area
<1>4. \A j \in P : Area'[j] \in Nat /\ Area'[j] <= Area[j]
  BY <1>1, <1>2, <1>3
<1>5. SumFunctionOnSet(Area', P) <= SumFunctionOnSet(Area, Q)
  BY <1>1, <1>2, <1>4, SumMonotone
<1>6. IsFiniteSet(P)
  BY <1>1, FS_Subset
<1>7. SumFunctionOnSet(Area', P) \in Nat
  BY <1>4, <1>6, SumStep
<1>8. QED
  BY <1>5, <1>7, SumsAreNumbers

LEMMA LoadBound ==
  ASSUME Typed, Typed', NEW Q \in SUBSET listed, NEW P \in SUBSET Q,
         \A j \in P : s'[j].size = s[j].size /\ s'[j].rate = s[j].rate
  PROVE  SumFunctionOnSet(Load', P) \in Nat /\ SumFunctionOnSet(Load', P) <= Mbps(Q)
<1>1. IsFiniteSet(Q) /\ Q \subseteq Inst
  BY FS_Subset DEF Typed
<1>2. \A j \in Q : Load[j] \in Nat
  BY <1>1, AreaAndLoad
<1>3. \A j \in Inst : Load'[j] = s'[j].size * s'[j].rate /\ Load[j] = s[j].size * s[j].rate
  BY DEF Load
<1>4. \A j \in P : Load'[j] = Load[j]
  BY <1>1, <1>3
<1>5. \A j \in P : Load'[j] \in Nat /\ Load'[j] <= Load[j]
  BY <1>2, <1>4
<1>6. SumFunctionOnSet(Load', P) <= SumFunctionOnSet(Load, Q)
  BY <1>1, <1>2, <1>5, SumMonotone
<1>7. IsFiniteSet(P)
  BY <1>1, FS_Subset
<1>8. SumFunctionOnSet(Load', P) \in Nat
  BY <1>5, <1>7, SumStep
<1>9. QED
  BY <1>6, <1>8, SumsAreNumbers

LEMMA CountedAreListed ==
  ASSUME Typed, Steady
  PROVE  /\ Sized \in SUBSET listed /\ Hard \in SUBSET listed /\ Free \in SUBSET listed
         /\ \A c \in 1..2 : Placed(c) \in SUBSET listed
         /\ sure.size \in SUBSET listed /\ sure.load \in SUBSET listed
         /\ sure.core \in SUBSET listed
<1>1. /\ sure \in [size : SUBSET Inst, load : SUBSET Inst, core : SUBSET Inst]
  BY DEF Typed
<1>2. \A j \in Inst : j \in sure.size \cup sure.load \cup sure.core \/ pc[j] # "idle" => j \in listed
  BY DEF Steady
<1>3. Sized \in SUBSET listed
  BY <1>1, <1>2 DEF Sized
<1>4. Hard \in SUBSET listed /\ Free \in SUBSET listed
  BY <1>1, <1>2 DEF Hard, Free, Counted, Past, Deciding
<1>5. \A c \in 1..2 : Placed(c) \in SUBSET listed
  BY <1>1, <1>2 DEF Placed, OnCore
<1>6. QED
  BY <1>1, <1>2, <1>3, <1>4, <1>5

\* A sum that was within a limit stays so.
LEMMA LimitsAreNumbers ==
  MaxMbps \in Nat /\ MaxMbpf \in Nat /\ MaxLarge \in Nat
BY LimitAssumption

LEMMA SizedKeeps ==
  ASSUME Typed, Typed', NEW Q \in SUBSET listed, Mbpf(Q) <= MaxMbpf,
         \A j \in Inst : j \in Sized' => j \in Q /\ s'[j].size = s[j].size
  PROVE  Mbpf(Sized)' <= MaxMbpf
<1>1. Sized' \subseteq Inst
  BY DEF Sized
<1>2. PICK P : P = Sized'
  OBVIOUS
<1>3. P \in SUBSET Q /\ \A j \in P : s'[j].size = s[j].size
  BY <1>1, <1>2
<1>4. SumFunctionOnSet(Area', P) \in Nat /\ SumFunctionOnSet(Area', P) <= Mbpf(Q)
  BY <1>3, AreaBound
<1>5. Mbpf(Sized)' = SumFunctionOnSet(Area', P)
  BY <1>2 DEF Mbpf, Area
<1>6. Mbpf(Q) \in Nat
  BY SumsAreNumbers
<1>7. QED
  BY <1>4, <1>5, <1>6, LimitsAreNumbers

LEMMA PlacedKeeps ==
  ASSUME Typed, Typed', NEW c \in 1..2, NEW Q \in SUBSET listed, Mbpf(Q) <= MaxMbpf,
         \A j \in Inst : j \in Placed(c)' => j \in Q /\ s'[j].size = s[j].size
  PROVE  Mbpf(Placed(c))' <= MaxMbpf
<1>1. Placed(c)' \subseteq Inst
  BY DEF Placed
<1>2. PICK P : P = Placed(c)'
  OBVIOUS
<1>3. P \in SUBSET Q /\ \A j \in P : s'[j].size = s[j].size
  BY <1>1, <1>2
<1>4. SumFunctionOnSet(Area', P) \in Nat /\ SumFunctionOnSet(Area', P) <= Mbpf(Q)
  BY <1>3, AreaBound
<1>5. Mbpf(Placed(c))' = SumFunctionOnSet(Area', P)
  BY <1>2 DEF Mbpf, Area
<1>6. Mbpf(Q) \in Nat
  BY SumsAreNumbers
<1>7. QED
  BY <1>4, <1>5, <1>6, LimitsAreNumbers

LEMMA HardKeeps ==
  ASSUME Typed, Typed', NEW Q \in SUBSET listed, Mbps(Q) <= MaxMbps,
         \A j \in Inst : j \in Hard' => j \in Q /\ s'[j].size = s[j].size /\ s'[j].rate = s[j].rate
  PROVE  Mbps(Hard)' <= MaxMbps
<1>1. Hard' \subseteq Inst
  BY DEF Hard
<1>2. PICK P : P = Hard'
  OBVIOUS
<1>3. P \in SUBSET Q /\ \A j \in P : s'[j].size = s[j].size /\ s'[j].rate = s[j].rate
  BY <1>1, <1>2
<1>4. SumFunctionOnSet(Load', P) \in Nat /\ SumFunctionOnSet(Load', P) <= Mbps(Q)
  BY <1>3, LoadBound
<1>5. Mbps(Hard)' = SumFunctionOnSet(Load', P)
  BY <1>2 DEF Mbps, Load
<1>6. Mbps(Q) \in Nat
  BY SumsAreNumbers
<1>7. QED
  BY <1>4, <1>5, <1>6, LimitsAreNumbers

LEMMA FreeKeeps ==
  ASSUME Typed, Typed', NEW Q \in SUBSET listed, Mbps(Q) <= MaxMbps,
         \A j \in Inst : j \in Free' => j \in Q /\ s'[j].size = s[j].size /\ s'[j].rate = s[j].rate
  PROVE  Mbps(Free)' <= MaxMbps
<1>1. Free' \subseteq Inst
  BY DEF Free
<1>2. PICK P : P = Free'
  OBVIOUS
<1>3. P \in SUBSET Q /\ \A j \in P : s'[j].size = s[j].size /\ s'[j].rate = s[j].rate
  BY <1>1, <1>2
<1>4. SumFunctionOnSet(Load', P) \in Nat /\ SumFunctionOnSet(Load', P) <= Mbps(Q)
  BY <1>3, LoadBound
<1>5. Mbps(Free)' = SumFunctionOnSet(Load', P)
  BY <1>2 DEF Mbps, Load
<1>6. Mbps(Q) \in Nat
  BY SumsAreNumbers
<1>7. QED
  BY <1>4, <1>5, <1>6, LimitsAreNumbers

-----------------------------------------------------------------------------
(* Where the steps of i leave i itself.                                    *)

\* A step between checks does nothing to what is counted, or i counts no more.
LEMMA ClientSelf ==
  ASSUME Typed, Steady, NEW i \in Inst, Client(i)
  PROVE  /\ pc[i] = "idle"
         /\ \/ s'[i] = s[i] /\ pc'[i] = "idle" /\ SameSure(i)
            \/ pc'[i] = "idle" /\ i \notin sure.size' \cup sure.load' \cup sure.core'
            \/ /\ s'[i].size = s[i].size /\ s'[i].core = s[i].core
               /\ pc'[i] \in {"idle", "rate_critical"} /\ i \notin sure.load'
               /\ (i \in sure.size' => i \in sure.size) /\ (i \in sure.core' => i \in sure.core)
            \/ /\ s'[i].enc = s[i].enc /\ s'[i].rt = s[i].rt /\ s'[i].size = s[i].size
               /\ s'[i].rate = s[i].rate /\ s'[i].core = s[i].core /\ s'[i].adjust = s[i].adjust
               /\ pc'[i] = (IF s[i].rt THEN "critical_mbps" ELSE "critical_mbpf")
               /\ SameSure(i)
<1>1. /\ s \in [Inst -> Sessions] /\ s[i] \in Sessions
      /\ pc \in [Inst -> {"idle"} \cup LoadChecks \cup RateChecks \cup Past]
      /\ sure \in [size : SUBSET Inst, load : SUBSET Inst, core : SUBSET Inst]
  BY DEF Typed
<1>2. pc[i] = "idle"
  BY DEF Client, AddSession, RemoveSession, SetPriority, Lowers, StreamOn, StreamOff, SetSize,
     SetRate, Idle
<1>3. CASE AddSession(i)
  BY <1>2, <1>3 DEF AddSession, SameSure
<1>4. CASE RemoveSession(i) \/ StreamOff(i) \/ \E z \in Size : SetSize(i, z)
  <2>1. pc' = pc /\ sure' = Unsure(i)
    BY <1>4 DEF RemoveSession, StreamOff, SetSize
  <2>2. QED
    BY <1>1, <1>2, <2>1 DEF Unsure
<1>5. CASE SetPriority(i) \/ Lowers(i) \/ \E r \in Rate : SetRate(i, r)
  <2>1. sure' = LoadUnsure(i) /\ pc'[i] \in {"idle", "rate_critical"}
    BY <1>1, <1>2, <1>5 DEF SetPriority, Lowers, SetRate
  <2>2. i \notin sure.load' /\ (i \in sure.size' => i \in sure.size) /\ (i \in sure.core' => i \in sure.core)
    BY <1>1, <2>1 DEF LoadUnsure
  <2>3. s'[i].size = s[i].size /\ s'[i].core = s[i].core
    <3>1. SetPriority(i) => s'[i] = [s[i] EXCEPT !.rt = ~@]
      BY <1>1 DEF SetPriority
    <3>2. Lowers(i) => s'[i] = [s[i] EXCEPT !.adjust = FALSE, !.rt = FALSE]
      BY <1>1 DEF Lowers, Sessions
    <3>3. \A r \in Rate : SetRate(i, r) => s'[i] = [s[i] EXCEPT !.rate = r, !.old = s[i].rate]
      BY <1>1 DEF SetRate, Sessions
    <3>4. QED
      BY <1>1, <1>5, <3>1, <3>2, <3>3 DEF Sessions
  <2>4. QED
    BY <1>2, <2>1, <2>2, <2>3
<1>6. CASE StreamOn(i)
  <2>1. s'[i] = [s[i] EXCEPT !.old = s[i].rate] /\ sure' = sure
    BY <1>1, <1>6 DEF StreamOn
  <2>2. pc'[i] = (IF s[i].rt THEN "critical_mbps" ELSE "critical_mbpf")
    BY <1>1, <1>6 DEF StreamOn
  <2>3. QED
    BY <1>1, <1>2, <2>1, <2>2 DEF Sessions, SameSure
<1>7. QED
  BY <1>3, <1>4, <1>5, <1>6 DEF Client

\* So does a scan that only compares.
LEMMA CompareSelf ==
  ASSUME Typed, Steady, NEW i \in Inst, CriticalMbps(i) \/ CriticalMbpf(i)
  PROVE  /\ s'[i].enc = s[i].enc /\ s'[i].rt = s[i].rt /\ s'[i].size = s[i].size
         /\ s'[i].core = s[i].core /\ s'[i].adjust = s[i].adjust /\ sure' = sure
         /\ pc[i] \notin RateChecks => s'[i].rate = s[i].rate
         /\ pc[i] \in LoadChecks \cup RateChecks => pc'[i] \in {"idle", "mbps", "rate_mbps"}
         /\ pc[i] \in Past => pc'[i] \in {"idle", "mbpf"}
<1>1. /\ pc \in [Inst -> {"idle"} \cup LoadChecks \cup RateChecks \cup Past]
      /\ pc[i] \in {"critical_mbps", "rate_critical", "critical_mbpf"} /\ sure' = sure
      /\ pc[i] \in LoadChecks \cup Past => s[i].old = s[i].rate
  BY DEF Typed, Steady, CriticalMbps, CriticalMbpf
<1>2. CASE Fails(i)
  BY <1>1, <1>2, FailsSelf DEF LoadChecks, RateChecks, Past
<1>3. CASE ~Fails(i)
  BY <1>1, <1>3 DEF CriticalMbps, CriticalMbpf, LoadChecks, RateChecks, Past
<1>4. QED
  BY <1>2, <1>3

LEMMA SizedSelf ==
  ASSUME Typed, Steady, NEW i \in Inst, Client(i) \/ Check(i), ~ScanMbpf(i), i \in Sized'
  PROVE  i \in Sized /\ s'[i].size = s[i].size
<1>1. i \in sure.size' \/ pc'[i] \in {"rt_mbpf", "sessions"}
  BY DEF Sized
<1>2. (i \in sure.size \/ pc[i] \in {"rt_mbpf", "sessions"}) => i \in Sized
  BY DEF Sized
<1>3. CASE Client(i)
  BY <1>1, <1>2, <1>3, ClientSelf DEF SameSure
<1>4. CASE CriticalMbps(i) \/ CriticalMbpf(i)
  <2>1. pc[i] \in LoadChecks \cup RateChecks \cup Past
    BY <1>4 DEF CriticalMbps, CriticalMbpf, LoadChecks, RateChecks, Past
  <2>2. QED
    BY <1>1, <1>2, <1>4, <2>1, CompareSelf
<1>5. CASE ScanMbps(i)
  BY <1>1, <1>2, <1>5 DEF ScanMbps, Typed
<1>6. CASE Decide(i)
  BY <1>1, <1>2, <1>6, DecideSelf
<1>7. CASE ScanRtMbpf(i)
  <2>1. pc[i] = "rt_mbpf"
    BY <1>7 DEF ScanRtMbpf
  <2>2. QED
    BY <1>2, <1>7, <2>1, FailsSelf, ScanRtMbpfSelf
<1>8. CASE CheckMaxSessions(i)
  BY <1>2, <1>8, CheckMaxSessionsSelf
<1>9. QED
  BY <1>3, <1>4, <1>5, <1>6, <1>7, <1>8 DEF Check

LEMMA PlacedSelf ==
  ASSUME Typed, Steady, cores = 2, NEW i \in Inst, Client(i) \/ Check(i), ~ScanMbpf(i),
         NEW c \in 1..2, i \in Placed(c)'
  PROVE  i \in Placed(c) /\ s'[i].size = s[i].size
<1>1. s'[i].core = c /\ OnCore(i)'
  BY DEF Placed
<1>2. s[i].core = c /\ OnCore(i) => i \in Placed(c)
  BY DEF Placed
<1>3. /\ i \in sure.core' \/ (s'[i].rt /\ pc'[i] = "sessions")
         \/ (s'[i].rt /\ pc'[i] = "rt_mbpf" /\ plan'[i].ok)
  BY <1>1 DEF OnCore
<1>4. i \in sure.core \/ (pc[i] \in Past /\ s[i].rt) => s[i].core # 0
  BY DEF Steady
<1>5. plan[i] \in Plans /\ {1, 2} \in SUBSET (1..2) /\ Seats \in SUBSET (1..2)
  BY DEF Typed, Seats
<1>6. CASE Client(i)
  BY <1>1, <1>2, <1>3, <1>6, ClientSelf DEF SameSure, OnCore
<1>7. CASE CriticalMbps(i) \/ CriticalMbpf(i)
  <2>1. pc[i] \in LoadChecks \cup RateChecks \cup Past
    BY <1>7 DEF CriticalMbps, CriticalMbpf, LoadChecks, RateChecks, Past
  <2>2. QED
    BY <1>1, <1>2, <1>3, <1>7, <2>1, CompareSelf DEF OnCore
<1>8. CASE ScanMbps(i)
  BY <1>1, <1>2, <1>3, <1>8 DEF ScanMbps, Typed, OnCore
<1>9. CASE Decide(i)
  <2>1. i \in sure.core
    BY <1>3, <1>9, DecideSelf
  <2>2. Pick(i, plan[i], {1, 2}) = s[i].core
    BY <1>4, <1>5, <2>1, PickTyped
  <2>3. QED
    BY <1>1, <1>2, <1>9, <2>1, <2>2, DecideSelf DEF OnCore
<1>10. CASE ScanRtMbpf(i)
  <2>1. pc[i] = "rt_mbpf" /\ sure' = sure
    BY <1>10 DEF ScanRtMbpf
  <2>2. CASE Fails(i)
    BY <1>1, <1>2, <1>3, <2>1, <2>2, FailsSelf DEF OnCore
  <2>3. CASE ~Fails(i)
    <3>1. /\ pc'[i] = IF LetIn(i, plan[i], Seats) THEN "sessions" ELSE "idle"
          /\ s'[i].rt = s[i].rt /\ s'[i].size = s[i].size
          /\ s'[i].core = Pick(i, plan[i], Seats)
      BY <1>10, <2>3, ScanRtMbpfSelf
    <3>2. OnCore(i) /\ s[i].core # 0
      BY <1>3, <1>4, <2>1, <3>1 DEF OnCore, LetIn, Past
    <3>3. Pick(i, plan[i], Seats) = s[i].core
      BY <1>5, <3>2, PickTyped
    <3>4. QED
      BY <1>1, <1>2, <3>1, <3>2, <3>3
  <2>4. QED
    BY <2>2, <2>3
<1>11. CASE CheckMaxSessions(i)
  BY <1>1, <1>2, <1>3, <1>11, CheckMaxSessionsSelf DEF OnCore
<1>12. QED
  BY <1>6, <1>7, <1>8, <1>9, <1>10, <1>11 DEF Check

\* A session that counts after the step counted before it, with the same load,
\* unless the scan of the load counts it.
LEMMA HardSelf ==
  ASSUME Typed, Steady, NEW i \in Inst, Client(i) \/ Check(i), ~ScanMbps(i), i \in Hard'
  PROVE  i \in Hard /\ s'[i].size = s[i].size /\ s'[i].rate = s[i].rate
<1>1. /\ s'[i].enc /\ s'[i].rt
      /\ \/ i \in sure.load' \/ pc'[i] \in Past
         \/ pc'[i] \in Deciding /\ plan'[i].ok
  BY DEF Hard, Counted
<1>2. /\ s[i].enc /\ s[i].rt
      /\ \/ i \in sure.load \/ pc[i] \in Past
         \/ pc[i] \in Deciding /\ plan[i].ok
      => i \in Hard
  BY DEF Hard, Counted
<1>3. /\ i \in sure.load => pc[i] \notin RateChecks
      /\ pc[i] \in LoadChecks \cup Past => s[i].old = s[i].rate
      /\ pc \in [Inst -> {"idle"} \cup LoadChecks \cup RateChecks \cup Past]
  BY DEF Steady, Typed
<1> USE DEF LoadChecks, RateChecks, Past, Deciding
<1>4. CASE Client(i)
  <2>1. pc[i] = "idle"
    BY <1>4, ClientSelf
  <2>2. QED
    BY <1>1, <1>2, <1>4, <2>1, ClientSelf DEF SameSure
<1>5. CASE CriticalMbps(i) \/ CriticalMbpf(i)
  <2>1. pc[i] \in LoadChecks \cup RateChecks \cup Past
    BY <1>5 DEF CriticalMbps, CriticalMbpf
  <2>2. QED
    BY <1>1, <1>2, <1>3, <1>5, <2>1, CompareSelf
<1>6. CASE Decide(i)
  <2>1. pc[i] \in {"decide", "rate_decide"}
    BY <1>6 DEF Decide
  <2>2. LetIn(i, plan[i], {1, 2}) => plan[i].ok
    BY DEF LetIn
  <2>3. QED
    BY <1>1, <1>2, <1>3, <1>6, <2>1, <2>2, DecideSelf
<1>7. CASE ScanMbpf(i)
  <2>1. pc[i] = "mbpf" /\ sure' = sure
    BY <1>7 DEF ScanMbpf
  <2>2. CASE Fails(i)
    BY <1>1, <1>2, <1>3, <2>1, <2>2, FailsSelf
  <2>3. CASE ~Fails(i)
    BY <1>1, <1>2, <1>7, <2>1, <2>3 DEF ScanMbpf
  <2>4. QED
    BY <2>2, <2>3
<1>8. CASE ScanRtMbpf(i)
  <2>1. pc[i] = "rt_mbpf" /\ sure' = sure
    BY <1>8 DEF ScanRtMbpf
  <2>2. QED
    BY <1>1, <1>2, <1>3, <1>8, <2>1, FailsSelf, ScanRtMbpfSelf
<1>9. CASE CheckMaxSessions(i)
  BY <1>1, <1>2, <1>9, CheckMaxSessionsSelf
<1>10. QED
  BY <1>4, <1>5, <1>6, <1>7, <1>8, <1>9 DEF Check

LEMMA FreeSelf ==
  ASSUME Typed, Steady, NEW i \in Inst, Client(i) \/ Check(i), ~ScanMbps(i), ~Decide(i),
         i \in Free'
  PROVE  i \in Free /\ s'[i].size = s[i].size /\ s'[i].rate = s[i].rate
<1>1. /\ s'[i].enc \/ ~s'[i].adjust
      /\ s'[i].rt
      /\ \/ i \in sure.load' \/ pc'[i] \in Past
         \/ pc'[i] \in Deciding /\ plan'[i].ok /\ plan'[i].lower = "none"
  BY DEF Free, Counted, Unasked
<1>2. /\ s[i].enc \/ ~s[i].adjust
      /\ s[i].rt
      /\ \/ i \in sure.load \/ pc[i] \in Past
         \/ pc[i] \in Deciding /\ plan[i].ok /\ plan[i].lower = "none"
      => i \in Free
  BY DEF Free, Counted, Unasked
<1>3. /\ i \in sure.load => pc[i] \notin RateChecks
      /\ pc[i] \in LoadChecks \cup Past => s[i].old = s[i].rate
      /\ pc \in [Inst -> {"idle"} \cup LoadChecks \cup RateChecks \cup Past]
  BY DEF Steady, Typed
<1> USE DEF LoadChecks, RateChecks, Past, Deciding
<1>4. CASE Client(i)
  <2>1. pc[i] = "idle"
    BY <1>4, ClientSelf
  <2>2. QED
    BY <1>1, <1>2, <1>4, <2>1, ClientSelf DEF SameSure
<1>5. CASE CriticalMbps(i) \/ CriticalMbpf(i)
  <2>1. pc[i] \in LoadChecks \cup RateChecks \cup Past
    BY <1>5 DEF CriticalMbps, CriticalMbpf
  <2>2. QED
    BY <1>1, <1>2, <1>3, <1>5, <2>1, CompareSelf
<1>6. CASE ScanMbpf(i)
  <2>1. pc[i] = "mbpf" /\ sure' = sure
    BY <1>6 DEF ScanMbpf
  <2>2. CASE Fails(i)
    BY <1>1, <1>2, <1>3, <2>1, <2>2, FailsSelf
  <2>3. CASE ~Fails(i)
    BY <1>1, <1>2, <1>6, <2>1, <2>3 DEF ScanMbpf
  <2>4. QED
    BY <2>2, <2>3
<1>7. CASE ScanRtMbpf(i)
  <2>1. pc[i] = "rt_mbpf" /\ sure' = sure
    BY <1>7 DEF ScanRtMbpf
  <2>2. QED
    BY <1>1, <1>2, <1>3, <1>7, <2>1, FailsSelf, ScanRtMbpfSelf
<1>8. CASE CheckMaxSessions(i)
  BY <1>1, <1>2, <1>8, CheckMaxSessionsSelf
<1>9. QED
  BY <1>4, <1>5, <1>6, <1>7, <1>8 DEF Check

\* Another session that counts after the step counted before it.
LEMMA OthersCounted ==
  ASSUME Typed, NEW i \in Inst, Client(i) \/ Check(i), NEW j \in Inst, j # i
  PROVE  /\ j \in Sized' => j \in Sized
         /\ j \in Hard' => j \in Hard
         /\ j \in Free' => j \in Free
         /\ \A c \in 1..2 : j \in Placed(c)' => j \in Placed(c)
         /\ j \in sure.size' => j \in sure.size
         /\ s'[j].size = s[j].size /\ s'[j].rate = s[j].rate
<1>1. Same(j)
  BY OthersKeepFields
<1>2. /\ pc'[j] = pc[j] /\ plan'[j] = plan[j] /\ SameSure(j)
  BY OthersKeepRest
<1>3. j \in Sized' => j \in Sized
  BY <1>2 DEF Sized, SameSure
<1>4. j \in Hard' => j \in Hard
  BY <1>1, <1>2 DEF Hard, Counted, SameSure, Same, Past, Deciding
<1>5. j \in Free' => j \in Free
  BY <1>1, <1>2 DEF Free, Counted, Unasked, SameSure, Same, Past, Deciding
<1>6. ASSUME NEW c \in 1..2, j \in Placed(c)' PROVE j \in Placed(c)
  BY <1>1, <1>2, <1>6 DEF Placed, OnCore, SameSure, Same
<1>7. QED
  BY <1>1, <1>2, <1>3, <1>4, <1>5, <1>6 DEF SameSure, Same

-----------------------------------------------------------------------------
(* The limits are kept by every step.                                      *)

\* With one core all listed sessions are on it; with any number, a sum that is
\* not over its limit on some core.
LEMMA OnOne ==
  ASSUME Typed, cores = 1
  PROVE  /\ On(1) = listed
         /\ Realtime(1) = {j \in listed : s[j].rt}
         /\ Encoders(1) = {j \in listed : s[j].rt /\ s[j].enc}
BY DEF On, Realtime, Encoders

LEMMA OverloadedOne ==
  ASSUME cores = 1, NEW sum, NEW max
  PROVE  Overloaded(sum, max) <=> sum[1] > max
<1>1. 1..cores = {1}
  OBVIOUS
<1>2. QED
  BY <1>1 DEF Overloaded

LEMMA SizedStep ==
  ASSUME IInv, Typed', cores = 1, NEW i \in Inst, Client(i) \/ Check(i)
  PROVE  Mbpf(Sized)' <= MaxMbpf
<1>1. /\ Typed /\ Steady /\ Mbpf(Sized) <= MaxMbpf
      /\ Sized \in SUBSET listed
  BY CountedAreListed DEF IInv, Fits
<1>2. CASE ~ScanMbpf(i) \/ Fails(i)
  <2>1. i \in Sized' => i \in Sized /\ s'[i].size = s[i].size
    <3>1. CASE ~ScanMbpf(i)
      BY <1>1, <3>1, SizedSelf
    <3>2. CASE ScanMbpf(i) /\ Fails(i)
      <4>1. sure' = sure /\ pc'[i] = "idle" /\ s'[i].size = s[i].size
        BY <1>1, <3>2, FailsSelf DEF ScanMbpf
      <4>2. QED
        BY <4>1 DEF Sized
    <3>3. QED
      BY <1>2, <3>1, <3>2
  <2>2. \A j \in Inst : j \in Sized' => j \in Sized /\ s'[j].size = s[j].size
    BY <1>1, <2>1, OthersCounted
  <2>3. QED
    BY <1>1, <2>2, SizedKeeps
<1>3. CASE ScanMbpf(i) /\ ~Fails(i)
  <2>1. pc[i] = "mbpf" /\ s' = s /\ ~Overloaded([c \in 1..2 |-> Mbpf(On(c))], MaxMbpf)
    BY <1>3 DEF ScanMbpf
  <2>2. ~(Mbpf(listed) > MaxMbpf) /\ Mbpf(listed) \in Nat
    BY <1>1, <2>1, OverloadedOne, OnOne, SumsAreNumbers
  <2>3. Mbpf(listed) <= MaxMbpf
    BY <2>2, LimitsAreNumbers
  <2>4. i \in listed
    BY <1>1, <2>1 DEF Steady
  <2>5. \A j \in Inst : j \in Sized' => j \in listed /\ s'[j].size = s[j].size
    BY <1>1, <2>1, <2>4, OthersCounted
  <2>6. QED
    BY <1>1, <2>3, <2>5, SizedKeeps
<1>4. QED
  BY <1>2, <1>3

LEMMA PlacedStep ==
  ASSUME IInv, Typed', cores = 2, NEW i \in Inst, Client(i) \/ Check(i), NEW c \in 1..2
  PROVE  Mbpf(Placed(c))' <= MaxMbpf
<1>1. /\ Typed /\ Steady /\ Mbpf(Placed(c)) <= MaxMbpf
      /\ Placed(c) \in SUBSET listed
  BY CountedAreListed DEF IInv, Fits
<1>2. CASE i \in Placed(c)' => i \in Placed(c) /\ s'[i].size = s[i].size
  <2>1. \A j \in Inst : j \in Placed(c)' => j \in Placed(c) /\ s'[j].size = s[j].size
    BY <1>1, <1>2, OthersCounted
  <2>2. QED
    BY <1>1, <2>1, PlacedKeeps
<1>3. CASE i \in Placed(c)' /\ ~(i \in Placed(c) /\ s'[i].size = s[i].size)
  <2>1. ScanMbpf(i)
    BY <1>1, <1>3, PlacedSelf
  <2>2. s'[i].core = c /\ OnCore(i)'
    BY <1>3 DEF Placed
  <2>3. s[i].core = c /\ OnCore(i) => i \in Placed(c)
    BY DEF Placed
  <2>4. ~Fails(i)
    <3>1. ASSUME Fails(i) PROVE FALSE
      <4>1. /\ sure' = sure /\ pc'[i] = "idle" /\ s'[i].size = s[i].size
            /\ s'[i].core = s[i].core
        BY <1>1, <2>1, <3>1, FailsSelf DEF ScanMbpf
      <4>2. QED
        BY <1>3, <2>2, <2>3, <4>1 DEF OnCore
    <3>2. QED
      BY <3>1
  <2>5. /\ pc[i] = "mbpf" /\ s' = s /\ sure' = sure /\ pc'[i] = "rt_mbpf"
        /\ plan'[i] = Weigh(i, [d \in 1..2 |-> Mbpf(On(d))], s[i].size, MaxMbpf, {1, 2})
    BY <1>1, <2>1, <2>4 DEF ScanMbpf, Typed
  <2>6. plan'[i].ok
    BY <1>3, <2>2, <2>3, <2>5 DEF OnCore
  <2>7. Mbpf(On(c)) <= MaxMbpf
    <3>1. s[i].core = c /\ s[i].core # 0
      BY <2>2, <2>5
    <3>2. plan'[i].ok => [d \in 1..2 |-> Mbpf(On(d))][s[i].core] <= MaxMbpf
      <4>1. PICK sum : sum = [d \in 1..2 |-> Mbpf(On(d))]
        OBVIOUS
      <4>2. plan'[i] = Weigh(i, sum, s[i].size, MaxMbpf, {1, 2})
        BY <2>5, <4>1
      <4>3. PICK ok \in BOOLEAN : ok = (s[i].core # 0 => sum[s[i].core] <= MaxMbpf)
        OBVIOUS
      <4>4. Weigh(i, sum, s[i].size, MaxMbpf, {1, 2}).ok = ok
        BY <4>3 DEF Weigh
      <4>5. QED
        BY <3>1, <4>1, <4>2, <4>3, <4>4
    <3>3. [d \in 1..2 |-> Mbpf(On(d))][c] = Mbpf(On(c))
      OBVIOUS
    <3>4. QED
      BY <2>6, <3>1, <3>2, <3>3
  <2>8. On(c) \in SUBSET listed
    BY DEF On
  <2>9. \A j \in Inst : j \in Placed(c)' => j \in On(c) /\ s'[j].size = s[j].size
    <3>1. i \in listed
      BY <1>1, <2>5 DEF Steady
    <3>2. \A j \in Inst : j \in Placed(c)' => j \in listed
      BY <1>1, <3>1, OthersCounted
    <3>3. \A j \in Inst : j \in Placed(c)' => s[j].core = c
      BY <2>5 DEF Placed
    <3>4. QED
      BY <2>5, <3>2, <3>3 DEF On
  <2>10. QED
    BY <1>1, <2>7, <2>8, <2>9, PlacedKeeps
<1>4. QED
  BY <1>2, <1>3

LEMMA HardStep ==
  ASSUME IInv, Typed', cores = 1, NEW i \in Inst, Client(i) \/ Check(i)
  PROVE  Mbps(Hard)' <= MaxMbps
<1>1. /\ Typed /\ Steady /\ Mbps(Hard) <= MaxMbps
      /\ Hard \in SUBSET listed
  BY CountedAreListed DEF IInv, Fits
<1>2. CASE i \in Hard' => i \in Hard /\ s'[i].size = s[i].size /\ s'[i].rate = s[i].rate
  <2>1. \A j \in Inst : j \in Hard' => j \in Hard /\ s'[j].size = s[j].size /\ s'[j].rate = s[j].rate
    BY <1>1, <1>2, OthersCounted
  <2>2. QED
    BY <1>1, <2>1, HardKeeps
<1>3. CASE i \in Hard' /\ ~(i \in Hard /\ s'[i].size = s[i].size /\ s'[i].rate = s[i].rate)
  <2>1. ScanMbps(i)
    BY <1>1, <1>3, HardSelf
  <2>2. /\ s' = s /\ sure' = sure /\ pc[i] \in {"mbps", "rate_mbps"}
        /\ pc'[i] = (IF pc[i] = "mbps" THEN "decide" ELSE "rate_decide")
        /\ plan'[i] = MbpsPlan(i)
    BY <1>1, <2>1 DEF ScanMbps, Typed
  <2>3. s[i].enc /\ plan'[i].ok /\ s[i].rt
    BY <1>3, <2>2 DEF Hard, Counted, Past, Deciding
  <2>4. ~Overloaded([c \in 1..2 |-> Mbps(Encoders(c))], MaxMbps)
    <3>1. ~[NoPlan EXCEPT !.ok = FALSE].ok
      BY DEF NoPlan
    <3>2. QED
      BY <2>2, <2>3, <3>1 DEF MbpsPlan
  <2>5. Encoders(1) \in SUBSET listed
    BY <1>1, OnOne
  <2>6. Mbps(Encoders(1)) <= MaxMbps
    <3>1. ~(Mbps(Encoders(1)) > MaxMbps)
      BY <2>4, OverloadedOne
    <3>2. Mbps(Encoders(1)) \in Nat
      BY <1>1, <2>5, SumsAreNumbers
    <3>3. QED
      BY <3>1, <3>2, LimitsAreNumbers
  <2>7. \A j \in Inst : j \in Hard' => j \in Encoders(1) /\ s'[j].size = s[j].size /\ s'[j].rate = s[j].rate
    <3>1. i \in listed
      BY <1>1, <2>2 DEF Steady
    <3>2. \A j \in Inst : j \in Hard' => j \in listed
      BY <1>1, <3>1, OthersCounted
    <3>3. \A j \in Inst : j \in Hard' => s[j].enc /\ s[j].rt
      BY <2>2 DEF Hard, Counted
    <3>4. QED
      BY <1>1, <2>2, <3>2, <3>3, OnOne
  <2>8. QED
    BY <1>1, <2>5, <2>6, <2>7, HardKeeps
<1>4. QED
  BY <1>2, <1>3

\* A scan of the loads that asks nobody has found them within the limit.
LEMMA MbpsPlanLowers ==
  ASSUME Typed, cores = 1, NEW i \in Inst, MbpsPlan(i).ok, MbpsPlan(i).lower = "none"
  PROVE  ~(Mbps(Realtime(1)) > MaxMbps)
<1>1. SUFFICES ASSUME Mbps(Realtime(1)) > MaxMbps PROVE FALSE
  OBVIOUS
<1>2. PICK total : total = [c \in 1..2 |-> Mbps(Realtime(c))]
  OBVIOUS
<1>3. Overloaded(total, MaxMbps) /\ \E c \in 1..cores : total[c] > MaxMbps
  BY <1>1, <1>2, OverloadedOne
<1>4. PICK w \in Plans : w = Weigh(i, total, s[i].size * s[i].rate, MaxMbps, Seats)
  <2>1. Seats \in SUBSET (1..2)
    BY DEF Seats
  <2>2. QED
    BY <2>1, WeighTyped
<1>5. PICK lower : lower = IF s[i].enc THEN "all" ELSE "self"
  OBVIOUS
<1>6. ~[NoPlan EXCEPT !.ok = FALSE].ok
  BY DEF NoPlan
<1>7. MbpsPlan(i) = [w EXCEPT !.lower = lower]
  BY <1>2, <1>3, <1>4, <1>5, <1>6 DEF MbpsPlan
<1>8. MbpsPlan(i).lower = lower
  BY <1>4, <1>7 DEF Plans
<1>9. QED
  BY <1>5, <1>8

\* A check that lets i in asks as many decoders to give way as it takes.
LEMMA FreeDecides ==
  ASSUME Typed, Steady, NEW i \in Inst, Decide(i), plan[i].lower # "all", NEW j \in Inst, j \in Free'
  PROVE  j \in Free /\ s'[j].size = s[j].size /\ s'[j].rate = s[j].rate
<1>1. CASE j # i
  BY <1>1, OthersCounted DEF Check
<1>2. CASE j = i
  <2>1. /\ s'[i].enc \/ ~s'[i].adjust
        /\ s'[i].rt
        /\ \/ i \in sure.load' \/ pc'[i] \in Past
           \/ pc'[i] \in Deciding /\ plan'[i].ok /\ plan'[i].lower = "none"
    BY <1>2 DEF Free, Counted, Unasked
  <2>2. /\ s[i].enc \/ ~s[i].adjust
        /\ s[i].rt
        /\ \/ i \in sure.load \/ pc[i] \in Past
           \/ pc[i] \in Deciding /\ plan[i].ok /\ plan[i].lower = "none"
        => i \in Free
    BY DEF Free, Counted, Unasked
  <2>3. /\ i \in sure.load => pc[i] \notin RateChecks
        /\ pc[i] \in LoadChecks \cup Past => s[i].old = s[i].rate
        /\ pc[i] \in {"decide", "rate_decide"} /\ i \in listed
        /\ pc[i] \in Deciding /\ plan[i].lower = "self" => ~s[i].enc
        /\ plan[i].lower \in {"none", "self"}
    BY DEF Steady, Typed, Decide, Plans
  <2>4. LetIn(i, plan[i], {1, 2}) => plan[i].ok
    BY DEF LetIn
  <2>5. CASE plan[i].lower = "none"
    BY <1>2, <2>1, <2>2, <2>3, <2>4, <2>5, DecideSelf DEF Past, Deciding, LoadChecks, RateChecks
  <2>6. CASE plan[i].lower = "self"
    <3>1. i \in Asked(i) /\ ~s[i].enc
      BY <2>3, <2>6 DEF Asked, Deciding
    <3>2. FALSE
      BY <2>1, <3>1, DecideSelf
    <3>3. QED
      BY <3>2
  <2>7. QED
    BY <2>3, <2>5, <2>6
<1>3. QED
  BY <1>1, <1>2

LEMMA FreeAreEncoders ==
  ASSUME Typed, Steady, NEW i \in Inst, Decide(i), plan[i].lower = "all", NEW j \in Inst, j \in Free'
  PROVE  j \in Hard /\ s'[j].size = s[j].size /\ s'[j].rate = s[j].rate
<1>1. /\ s'[j].enc \/ ~s'[j].adjust
      /\ s'[j].rt
      /\ \/ j \in sure.load' \/ pc'[j] \in Past
         \/ pc'[j] \in Deciding /\ plan'[j].ok
  BY DEF Free, Counted, Unasked
<1>2. j \in listed
  <2>1. CASE j = i
    BY <2>1 DEF Steady, Decide
  <2>2. CASE j # i
    <3>1. pc'[j] = pc[j] /\ SameSure(j)
      BY <2>2, OthersKeepRest DEF Check
    <3>2. QED
      BY <1>1, <3>1 DEF Steady, SameSure, Past, Deciding
  <2>3. QED
    BY <2>1, <2>2
<1>3. /\ s'[j].enc = s[j].enc /\ s'[j].rt = s[j].rt
      /\ s'[j].adjust = (s[j].adjust \/ j \in Asked(i))
  <2>1. s[j] \in Sessions
    BY DEF Typed
  <2>2. \E x, y : s'[j] = [s[j] EXCEPT !.adjust = @ \/ j \in Asked(i), !.core = x, !.rate = y]
    BY DEF Decide
  <2>3. QED
    BY <2>1, <2>2 DEF Sessions
<1>4. s[j].enc
  <2>1. SUFFICES ASSUME ~s[j].enc PROVE FALSE
    OBVIOUS
  <2>2. j \in Asked(i)
    BY <1>1, <1>2, <1>3, <2>1 DEF Asked
  <2>3. QED
    BY <1>1, <1>3, <2>1, <2>2
<1>5. j \in Hard'
  BY <1>1, <1>3, <1>4 DEF Hard, Counted
<1>6. ~ScanMbps(i)
  BY DEF Decide, ScanMbps
<1>7. CASE j = i
  BY <1>5, <1>6, <1>7, HardSelf DEF Check
<1>8. CASE j # i
  BY <1>5, <1>8, OthersCounted DEF Check
<1>9. QED
  BY <1>7, <1>8

LEMMA FreeStep ==
  ASSUME IInv, Typed', cores = 1, NEW i \in Inst, Client(i) \/ Check(i)
  PROVE  Mbps(Free)' <= MaxMbps
<1>1. /\ Typed /\ Steady /\ Mbps(Hard) <= MaxMbps /\ Mbps(Free) <= MaxMbps
      /\ Hard \in SUBSET listed /\ Free \in SUBSET listed
  BY CountedAreListed DEF IInv, Fits
<1>2. CASE Decide(i)
  <2>1. CASE plan[i].lower = "all"
    <3>1. \A j \in Inst : j \in Free' => j \in Hard /\ s'[j].size = s[j].size /\ s'[j].rate = s[j].rate
      BY <1>1, <1>2, <2>1, FreeAreEncoders
    <3>2. QED
      BY <1>1, <3>1, FreeKeeps
  <2>2. CASE plan[i].lower # "all"
    <3>1. \A j \in Inst : j \in Free' => j \in Free /\ s'[j].size = s[j].size /\ s'[j].rate = s[j].rate
      BY <1>1, <1>2, <2>2, FreeDecides
    <3>2. QED
      BY <1>1, <3>1, FreeKeeps
  <2>3. QED
    BY <2>1, <2>2
<1>3. CASE ~Decide(i) /\ (i \in Free' => i \in Free /\ s'[i].size = s[i].size /\ s'[i].rate = s[i].rate)
  <2>1. \A j \in Inst : j \in Free' => j \in Free /\ s'[j].size = s[j].size /\ s'[j].rate = s[j].rate
    BY <1>1, <1>3, OthersCounted
  <2>2. QED
    BY <1>1, <2>1, FreeKeeps
<1>4. CASE /\ ~Decide(i) /\ i \in Free'
           /\ ~(i \in Free /\ s'[i].size = s[i].size /\ s'[i].rate = s[i].rate)
  <2>1. ScanMbps(i)
    BY <1>1, <1>4, FreeSelf
  <2>2. /\ s' = s /\ sure' = sure /\ pc[i] \in {"mbps", "rate_mbps"}
        /\ pc'[i] = (IF pc[i] = "mbps" THEN "decide" ELSE "rate_decide")
        /\ plan'[i] = MbpsPlan(i)
    BY <1>1, <2>1 DEF ScanMbps, Typed
  <2>3. s[i].rt /\ plan'[i].ok /\ plan'[i].lower = "none"
    BY <1>4, <2>2 DEF Free, Counted, Unasked, Past, Deciding
  <2>4. Realtime(1) \in SUBSET listed /\ Mbps(Realtime(1)) \in Nat
    <3>1. Realtime(1) \in SUBSET listed
      BY <1>1, OnOne
    <3>2. QED
      BY <1>1, <3>1, SumsAreNumbers
  <2>5. ~(Mbps(Realtime(1)) > MaxMbps)
    BY <1>1, <2>2, <2>3, MbpsPlanLowers
  <2>6. Mbps(Realtime(1)) <= MaxMbps
    BY <2>4, <2>5, LimitsAreNumbers
  <2>7. \A j \in Inst : j \in Free' => j \in Realtime(1) /\ s'[j].size = s[j].size /\ s'[j].rate = s[j].rate
    <3>1. i \in listed
      BY <1>1, <2>2 DEF Steady
    <3>2. \A j \in Inst : j \in Free' => j \in listed
      BY <1>1, <3>1, OthersCounted
    <3>3. \A j \in Inst : j \in Free' => s[j].rt
      BY <2>2 DEF Free, Counted
    <3>4. QED
      BY <1>1, <2>2, <3>2, <3>3, OnOne
  <2>8. QED
    BY <1>1, <2>4, <2>6, <2>7, FreeKeeps
<1>5. QED
  BY <1>2, <1>3, <1>4

LEMMA LargeStep ==
  ASSUME IInv, NEW i \in Inst, Client(i) \/ Check(i)
  PROVE  Cardinality({j \in sure.size : s[j].size >= LargeSize})' <= MaxLarge
<1>1. /\ Typed /\ Steady
      /\ Cardinality({j \in sure.size : s[j].size >= LargeSize}) <= MaxLarge
      /\ sure.size \in SUBSET listed
  BY CountedAreListed DEF IInv, Fits
<1>2. PICK Before : Before = {j \in sure.size : s[j].size >= LargeSize}
  OBVIOUS
<1>3. PICK After : After = {j \in sure'.size : s'[j].size >= LargeSize}
  OBVIOUS
<1>4. sure' \in [size : SUBSET Inst, load : SUBSET Inst, core : SUBSET Inst]
  BY <1>1, SureStep
<1>5. IsFiniteSet(listed)
  BY <1>1 DEF Typed
<1>6. ASSUME NEW T \in SUBSET listed, After \subseteq T, Cardinality(T) <= MaxLarge
      PROVE  Cardinality(After) <= MaxLarge
  <2>1. IsFiniteSet(T) /\ IsFiniteSet(After)
    BY <1>5, <1>6, FS_Subset
  <2>2. Cardinality(After) \in Nat /\ Cardinality(T) \in Nat /\ Cardinality(After) <= Cardinality(T)
    BY <1>6, <2>1, FS_Subset, FS_CardinalityType
  <2>3. QED
    BY <1>6, <2>2, LimitsAreNumbers
<1>7. CASE i \in sure'.size => i \in sure.size /\ s'[i].size = s[i].size
  <2>1. \A j \in sure'.size : j \in sure.size /\ s'[j].size = s[j].size
    BY <1>1, <1>4, <1>7, OthersCounted
  <2>2. After \subseteq Before /\ Before \in SUBSET listed
    BY <1>1, <1>2, <1>3, <2>1
  <2>3. Cardinality(After) <= MaxLarge
    BY <1>1, <1>2, <1>6, <2>2
  <2>4. QED
    BY <1>3, <2>3
<1>8. CASE i \in sure'.size /\ ~(i \in sure.size /\ s'[i].size = s[i].size)
  <2>1. CheckMaxSessions(i)
    <3>1. CASE Client(i)
      BY <1>1, <1>8, <3>1, ClientSelf DEF SameSure
    <3>2. CASE CriticalMbps(i) \/ CriticalMbpf(i)
      BY <1>1, <1>8, <3>2, CompareSelf
    <3>3. CASE ScanMbps(i)
      BY <1>8, <3>3 DEF ScanMbps
    <3>4. CASE Decide(i)
      BY <1>1, <1>8, <3>4, DecideSelf
    <3>5. CASE ScanMbpf(i)
      BY <1>1, <1>8, <3>5, FailsSelf DEF ScanMbpf
    <3>6. CASE ScanRtMbpf(i)
      <4>1. sure' = sure
        BY <3>6 DEF ScanRtMbpf
      <4>2. QED
        BY <1>1, <1>8, <3>6, <4>1, FailsSelf, ScanRtMbpfSelf
    <3>7. QED
      BY <3>1, <3>2, <3>3, <3>4, <3>5, <3>6 DEF Check
  <2>2. /\ s'[i].size = s[i].size /\ pc[i] = "sessions"
        /\ Cardinality(Large) > MaxLarge => sure' = sure
    BY <1>1, <2>1, CheckMaxSessionsSelf
  <2>3. ~(Cardinality(Large) > MaxLarge) /\ Large \in SUBSET listed
    BY <1>8, <2>2 DEF Large
  <2>4. Cardinality(Large) <= MaxLarge
    <3>1. Cardinality(Large) \in Nat
      BY <1>5, <2>3, FS_Subset, FS_CardinalityType
    <3>2. QED
      BY <2>3, <3>1, LimitsAreNumbers
  <2>5. \A j \in sure'.size : j \in listed /\ s'[j].size = s[j].size
    <3>1. i \in listed
      BY <1>1, <2>2 DEF Steady
    <3>2. \A j \in Inst : j # i /\ j \in sure'.size => j \in listed /\ s'[j].size = s[j].size
      BY <1>1, OthersCounted
    <3>3. QED
      BY <1>4, <2>2, <3>1, <3>2
  <2>6. After \subseteq Large
    BY <1>3, <2>5 DEF Large
  <2>7. Cardinality(After) <= MaxLarge
    BY <1>6, <2>3, <2>4, <2>6
  <2>8. QED
    BY <1>3, <2>7
<1>9. QED
  BY <1>7, <1>8

\* Every step keeps the invariant.
LEMMA InvariantStep == IInv /\ [Next]_vars => IInv'
<1> SUFFICES ASSUME IInv, [Next]_vars PROVE IInv'
  OBVIOUS
<1>1. ASSUME NEW i \in Inst, Client(i) \/ Check(i) PROVE IInv'
  <2>1. Typed /\ Steady
    BY DEF IInv
  <2>2. Typed' /\ Steady' /\ cores' = cores
    BY <1>1, <2>1, TypedStep, SteadyStep, ListedStep
  <2>3. cores = 1 => Mbpf(Sized)' <= MaxMbpf
    BY <1>1, <2>2, SizedStep
  <2>4. cores = 1 => Mbps(Hard)' <= MaxMbps
    BY <1>1, <2>2, HardStep
  <2>5. cores = 1 => Mbps(Free)' <= MaxMbps
    BY <1>1, <2>2, FreeStep
  <2>6. cores = 2 => \A c \in 1..2 : Mbpf(Placed(c))' <= MaxMbpf
    BY <1>1, <2>2, PlacedStep
  <2>7. Cardinality({j \in sure.size : s[j].size >= LargeSize})' <= MaxLarge
    BY <1>1, LargeStep
  <2>8. Fits'
    BY <2>2, <2>3, <2>4, <2>5, <2>6, <2>7 DEF Fits
  <2>9. QED
    BY <2>2, <2>8 DEF IInv
<1>2. CASE UNCHANGED vars
  <2>1. Typed'
    BY <1>2 DEF IInv, Typed, vars
  <2>2. Steady'
    BY <1>2 DEF IInv, Steady, vars
  <2>3. /\ Sized' = Sized /\ Hard' = Hard /\ Free' = Free
        /\ \A c \in 1..2 : Placed(c)' = Placed(c)
    BY <1>2 DEF Sized, Hard, Free, Placed, OnCore, Counted, Unasked, vars
  <2>4. Fits'
    BY <1>2, <2>3 DEF IInv, Fits, Mbpf, Mbps, vars
  <2>5. QED
    BY <2>1, <2>2, <2>4 DEF IInv
<1>3. QED
  BY <1>1, <1>2 DEF Next

THEOREM Invariant == Spec => []IInv
<1>1. Init => IInv
  BY InitInvariant
<1>2. IInv /\ [Next]_vars => IInv'
  BY InvariantStep
<1>3. QED
  BY <1>1, <1>2, PTL DEF Spec

-----------------------------------------------------------------------------
(* What the invariant says of the sessions that stream.                    *)

LEMMA PartsFit ==
  ASSUME Typed, NEW Q \in SUBSET listed, NEW P \in SUBSET Q
  PROVE  /\ Mbpf(P) \in Nat /\ Mbpf(Q) \in Nat /\ Mbpf(P) <= Mbpf(Q)
         /\ Mbps(P) \in Nat /\ Mbps(Q) \in Nat /\ Mbps(P) <= Mbps(Q)
<1>1. IsFiniteSet(Q) /\ Q \subseteq Inst
  BY FS_Subset DEF Typed
<1>2. \A j \in Q : Area[j] \in Nat /\ Load[j] \in Nat /\ Area[j] <= Area[j] /\ Load[j] <= Load[j]
  BY <1>1, AreaAndLoad
<1>3. SumFunctionOnSet(Area, P) <= SumFunctionOnSet(Area, Q)
  BY <1>1, <1>2, SumMonotone
<1>4. SumFunctionOnSet(Load, P) <= SumFunctionOnSet(Load, Q)
  BY <1>1, <1>2, SumMonotone
<1>5. P \in SUBSET listed
  OBVIOUS
<1>6. QED
  BY <1>3, <1>4, <1>5, SumsAreNumbers

\* For any number of sessions with any sizes and rates, however their checks
\* overlap: those that stream with the size and the load they were checked with
\* are within the limits of a single core, and on two cores within those of
\* theirs (msm_vidc_driver.c:5868, :6003, :6219, :6504).
THEOREM AdmittedAlwaysFit == Spec => []AdmittedFit
<1>1. IInv => AdmittedFit
  <2> SUFFICES ASSUME IInv PROVE AdmittedFit
    OBVIOUS
  <2>1. /\ Typed /\ Steady /\ Fits
        /\ sure \in [size : SUBSET Inst, load : SUBSET Inst, core : SUBSET Inst]
    BY DEF IInv, Typed
  <2>2. /\ Sized \in SUBSET listed /\ Hard \in SUBSET listed
        /\ \A c \in 1..2 : Placed(c) \in SUBSET listed
    BY <2>1, CountedAreListed
  <2>3. CASE cores = 1
    <3>1. Mbpf(sure.size) <= MaxMbpf
      <4>1. sure.size \in SUBSET Sized
        BY <2>1 DEF Sized
      <4>2. Mbpf(Sized) <= MaxMbpf
        BY <2>1, <2>3 DEF Fits
      <4>3. QED
        BY <2>1, <2>2, <4>1, <4>2, PartsFit, LimitsAreNumbers
    <3>2. Mbps({i \in sure.load : s[i].enc}) <= MaxMbps
      <4>1. PICK P : P = {i \in sure.load : s[i].enc}
        OBVIOUS
      <4>2. P \in SUBSET Hard
        BY <2>1, <4>1 DEF Hard, Counted, Steady
      <4>3. Mbps(Hard) <= MaxMbps
        BY <2>1, <2>3 DEF Fits
      <4>4. Mbps(P) <= MaxMbps
        BY <2>1, <2>2, <4>2, <4>3, PartsFit, LimitsAreNumbers
      <4>5. QED
        BY <4>1, <4>4
    <3>3. QED
      BY <2>1, <2>3, <3>1, <3>2 DEF AdmittedFit, Fits
  <2>4. CASE cores = 2
    <3>1. ASSUME NEW c \in 1..2 PROVE Mbpf({i \in sure.core : s[i].core = c}) <= MaxMbpf
      <4>1. PICK P : P = {i \in sure.core : s[i].core = c}
        OBVIOUS
      <4>2. P \in SUBSET Placed(c)
        BY <2>1, <4>1 DEF Placed, OnCore
      <4>3. Mbpf(Placed(c)) <= MaxMbpf
        BY <2>1, <2>4 DEF Fits
      <4>4. Mbpf(P) <= MaxMbpf
        BY <2>1, <2>2, <4>2, <4>3, PartsFit, LimitsAreNumbers
      <4>5. QED
        BY <4>1, <4>4
    <3>2. QED
      BY <2>1, <2>4, <3>1 DEF AdmittedFit, Fits
  <2>5. QED
    BY <2>1, <2>3, <2>4 DEF Typed
<1>2. QED
  BY <1>1, Invariant, PTL

\* And whenever the real-time sessions that stream exceed a single core, one of
\* the decoders among them has been asked to give way, and has not yet
\* (msm_vidc_driver.c:6186, :6202).
THEOREM OverloadIsAlwaysRelieved == Spec => []OverloadIsRelieved
<1>1. IInv => OverloadIsRelieved
  <2> SUFFICES ASSUME IInv, cores = 1, Mbps(sure.load) > MaxMbps,
                      \A i \in sure.load : s[i].enc \/ ~s[i].adjust
               PROVE  FALSE
    BY DEF OverloadIsRelieved
  <2>1. /\ Typed /\ Steady /\ Mbps(Free) <= MaxMbps
        /\ sure \in [size : SUBSET Inst, load : SUBSET Inst, core : SUBSET Inst]
    BY DEF IInv, Typed, Fits
  <2>2. sure.load \in SUBSET Free
    BY <2>1 DEF Free, Counted, Unasked, Steady
  <2>3. Free \in SUBSET listed
    BY <2>1, CountedAreListed
  <2>4. Mbps(sure.load) <= MaxMbps
    BY <2>1, <2>2, <2>3, PartsFit, LimitsAreNumbers
  <2>5. Mbps(sure.load) \in Nat
    BY <2>1, <2>2, <2>3, PartsFit
  <2>6. QED
    BY <2>4, <2>5, LimitsAreNumbers
<1>2. QED
  BY <1>1, Invariant, PTL
=============================================================================
