--------------------------- MODULE UpgradePromise ---------------------------
(***************************************************************************)
(* What an upgrade promises: the schema goes from version to version, each *)
(* with all that belongs to it, and is never seen in between.              *)
(***************************************************************************)
EXTENDS Integers

CONSTANTS Latest, PartsOf(_)

VARIABLES versions, parts

Upgrade(n) ==
  /\ n \in 1..Latest /\ versions \subseteq 1..n /\ n \notin versions
  /\ versions' = 1..n
  /\ parts' = parts \cup UNION {PartsOf(v) : v \in versions' \ versions}

Init == \E n \in 0..Latest : versions = 1..n /\ parts = UNION {PartsOf(v) : v \in versions}
Next == \E n \in 1..Latest : Upgrade(n)
Spec == Init /\ [][Next]_<<versions, parts>>
=============================================================================
