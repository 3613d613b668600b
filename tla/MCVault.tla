------------------------------ MODULE MCVault ------------------------------
(* Vault for TLC: the nodes, the entries, the passwords and the slots of   *)
(* the requests in flight are interchangeable, and the properties checked  *)
(* under this symmetry are invariants.                                     *)
EXTENDS Vault, TLC

Symmetry == Permutations(Node) \cup Permutations(Entry)
                \cup Permutations(Password) \cup Permutations(Op)

\* trouble never shrinks, and after an overlap that spoils no property says anything.
SaysSomething == "overlapped" \notin trouble
=============================================================================
