----------------------------- MODULE MCPlanning -----------------------------
(* Constants for model-checking Planning. *)
EXTENDS Planning

PositionIds == [k \in 1..MaxEntries |-> <<"w1", "w2", "w3">>[k]]

Good(id) == [object |-> TRUE, id |-> id, usable |-> TRUE, iterable |-> TRUE,
             valid |-> TRUE]

\* A good entry with an id of its own, one with an id a position stands for,
\* one without an id, one whose paths are a number, one with nothing to do,
\* and one that is not an object.
SomeEntries ==
  {Good("a"), Good("w2"),
   [Good(NoId) EXCEPT !.valid = FALSE],
   [Good("a") EXCEPT !.iterable = FALSE, !.valid = FALSE],
   [Good("a") EXCEPT !.usable = FALSE, !.valid = FALSE],
   [object |-> FALSE, id |-> NoId, usable |-> FALSE, iterable |-> TRUE,
    valid |-> FALSE]}
=============================================================================
