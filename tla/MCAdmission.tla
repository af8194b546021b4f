----------------------------- MODULE MCAdmission -----------------------------
(* Two sessions, of three kinds, that do not fit together at their largest. *)
EXTENDS Admission, TLC
CONSTANTS a, b

TwoInst == {a, b}
Sym     == Permutations(Inst)
Kinds   == {[enc |-> TRUE, rt |-> TRUE, critical |-> FALSE],
            [enc |-> FALSE, rt |-> TRUE, critical |-> FALSE],
            [enc |-> FALSE, rt |-> TRUE, critical |-> TRUE]}
=============================================================================
