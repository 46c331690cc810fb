----------------------------- MODULE MCTaskRuns -----------------------------
(* Constants for model-checking TaskRuns. *)
EXTENDS TaskRuns

PlanOf(n, ids, early) ==
  [items |-> n, early |-> early, ids |-> [i \in Devs |-> ids[i]],
   deps  |-> [i \in Devs |-> {}]]

\* Two work items, or, with the tester started early, one, with the id the
\* other plan gives its second.  Either may be the plan of a later run: an old
\* result is then of an id planned again, at another place, or of one that is
\* not, and names a branch that is there, is another's now, or is missing.
SomePlans == {PlanOf(2, <<"w1", "w2">>, FALSE), PlanOf(1, <<"w2", "w1">>, TRUE)}
=============================================================================
