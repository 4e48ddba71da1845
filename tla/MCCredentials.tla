--------------------------- MODULE MCCredentials ---------------------------
(* Small instances of Credentials.                                         *)
EXTENDS Credentials, TLC

CONSTANTS owner, ann, w1, w2, s1, s2, p1, p2, q1, q2, k1, k2, k3, d1, d2

MCConfigured == [c \in Configs |-> IF c = s1 THEN w1 ELSE w2]
Symmetry == Permutations(Tokens) \cup Permutations(Codes) \cup Permutations(Requests)
============================================================================
