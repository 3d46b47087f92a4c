---------------------------- MODULE MCQuarantine ----------------------------
(***************************************************************************)
(* Instances of Quarantine for TLC. Two files at p1 and p2 that have the   *)
(* same file name, two contents, and three names in the directory: one per *)
(* hash, and the file name both paths share.                               *)
(***************************************************************************)
EXTENDS Quarantine, TLC

CONSTANTS p1, p2, c1, c2, n1, n2, setup

MCPath == {p1, p2}
MCContent == {c1, c2}
MCName == {n1, n2, setup}
MCHashName == c1 :> n1 @@ c2 :> n2
\* Threads are interchangeable: no property names one.
MCThreads == Permutations(Scanner) \cup Permutations(Operator)
MCFileName == [p \in MCPath |-> setup]
=============================================================================
