----------------------------- MODULE MCTeamGraph -----------------------------
(* Constants for model-checking TeamGraph. *)
EXTENDS TeamContract

\* The ids of the work items, and what each depends on: nothing, or all the
\* later ones.
DistinctIds        == [i \in Devs |-> <<"w1", "w2", "w3">>[i]]
NoDependencies     == [i \in Devs |-> {}]
ClosedDependencies == [i \in Devs |-> <<{"w2", "w3"}, {"w3"}, {}>>[i]]

PlanOf(n, early, deps) ==
  [items |-> n, early |-> early, ids |-> DistinctIds, deps |-> deps]

\* What the architect may return: a work item for every dev, with the tester
\* not started early; the same, each waiting for the later ones; any number of
\* work items, with the tester started early or not.
OnePlan    == {PlanOf(NDevs, FALSE, NoDependencies)}
ClosedPlan == {PlanOf(NDevs, FALSE, ClosedDependencies)}
AllPlans   == {PlanOf(n, early, NoDependencies) : n \in Devs, early \in BOOLEAN}
=============================================================================
