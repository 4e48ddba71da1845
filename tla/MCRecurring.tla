---------------------------- MODULE MCRecurring ----------------------------
(* Small instances of Recurring.                                           *)
EXTENDS Recurring, TLC

CONSTANTS u1, u2, main1, main2, card, w1, w2

(* card is the second account of u1; u2 has only a main account.           *)
MCOwner == (main1 :> u1) @@ (card :> u1) @@ (main2 :> u2)
OneUserOwner == (main1 :> u1) @@ (card :> u1)
MCStep == [daily |-> 1, weekly |-> 2]
Symmetry == Permutations(Workers)
============================================================================
