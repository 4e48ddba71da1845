-------------------------- MODULE MCReconciliation --------------------------
(* Small instances of Reconciliation for TLC.                               *)
EXTENDS Reconciliation, TLC

CONSTANTS main, card, t1, t2, x1, s1, s2, s3, c1, c2

MCOpening == [a \in Accounts |-> IF a = main THEN 1 ELSE 0]
FewBalances == 0..1
Symmetry == Permutations(Statements)
=============================================================================
