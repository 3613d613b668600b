----------------------------- MODULE MCFailover -----------------------------
(* Failover with one HA container, on nodes that are alike.                *)
EXTENDS Failover, TLC

CONSTANT n3

AnyNode == [c \in Container |-> [ha |-> TRUE, group |-> None, allow |-> {}, cpu |-> 1, mem |-> 512]]
NotOnN3 == [c \in Container |-> [AnyNode[c] EXCEPT !.allow = Node \ {n3}]]
NoGroups == [g \in {} |-> [ha |-> FALSE, allow |-> {}]]
Alike == [n \in Node |-> [cpus |-> 4, mem |-> 4096]]

RunSymmetry == Permutations(Node \ {n3}) \cup Permutations(Tick)
=============================================================================
