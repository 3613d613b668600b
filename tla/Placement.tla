------------------------------ MODULE Placement ------------------------------
(***************************************************************************)
(* The decisions of runOrchestrationLoop (backend/services/orchestrator.js)*)
(* as pure operators: which containers are highly available, which nodes   *)
(* may take one over, and which of those it picks.                         *)
(***************************************************************************)
EXTENDS Integers, FiniteSets, FiniteSetsExt

CONSTANTS
    Node,
    Container,
    None,        \* JavaScript's null: no node, no Docker id, no group
    Conf,        \* Conf[c]: the config of container c
    Group,       \* Group[g]: the config of the group named g
    Capacity     \* Capacity[n]: CPUs and memory (MB) of node n's entry

ConfType == [ha : BOOLEAN, group : DOMAIN Group \cup {None},
             allow : SUBSET Node, cpu : Nat, mem : Nat]
GroupType == [ha : BOOLEAN, allow : SUBSET Node]

PlacementTypes ==
    /\ None \notin Node
    /\ Conf \in [Container -> ConfType]
    /\ \A g \in DOMAIN Group : Group[g] \in GroupType
    /\ Capacity \in [Node -> [cpus : Nat, mem : Nat]]

InHaGroup(c) == Conf[c].group # None /\ Group[Conf[c].group].ha

\* config.ha, or membership of a group with highAvailability.
IsHA(c) == Conf[c].ha \/ InHaGroup(c)

\* The container's own allowlist goes before its group's; an empty list allows
\* every node.
Allowed(c) ==
    IF Conf[c].allow # {} THEN Conf[c].allow
    ELSE IF InHaGroup(c) /\ Group[Conf[c].group].allow # {}
         THEN Group[Conf[c].group].allow
         ELSE Node

\* Mutant of Candidates: the allowlists are not looked at.
CandidatesAnywhere(c, alive) == alive

Candidates(c, alive) == alive \cap Allowed(c)

\* What is free on n when the containers are placed as "on" says.
FreeCpu(n, on) ==
    Capacity[n].cpus - MapThenSumSet(LAMBDA c : Conf[c].cpu, {c \in Container : on[c] = n})
FreeMem(n, on) ==
    Capacity[n].mem - MapThenSumSet(LAMBDA c : Conf[c].mem, {c \in Container : on[c] = n})

\* The comparison of the sort: CPU first, then memory.
Better(m, n, on) ==
    \/ FreeCpu(m, on) > FreeCpu(n, on)
    \/ FreeCpu(m, on) = FreeCpu(n, on) /\ FreeMem(m, on) > FreeMem(n, on)

\* candidates[0] after the sort (any of those that tie).
Best(c, alive, on) ==
    {n \in Candidates(c, alive) : \A m \in Candidates(c, alive) : ~Better(m, n, on)}
=============================================================================
