----------------------------- MODULE TeamContract -----------------------------
(***************************************************************************)
(* TeamGraph as an implementation of RunContract: where a run stands in    *)
(* the contract, what is on its branch, and what it owes.                  *)
(***************************************************************************)
EXTENDS TeamGraph

ContractPhase ==
  CASE stage = "deliver"           -> "verified"
    [] stage = "report"            -> "delivered"
    [] stage \in {"end", "raised"} -> "over"
    [] OTHER                       -> "working"

\* Results that claim success and commits the work branch does not have.
Owed == {w \in ToMerge : ~ (branch[latest[w].branch] \subseteq work)}

Contract == INSTANCE RunContract WITH
  DevWork   <- Index \X Nat,
  phase     <- ContractPhase,
  content   <- work,
  owed      <- Owed,
  green     <- TestedGreen,
  published <- delivery = "ok",
  outcome   <- IF stage \in {"end", "raised"} THEN status ELSE "none"

\* green is TestedGreen: after an earlier pass of the run, the clone of a green
\* one may have held uncommitted changes beside the content.

\* A run does what its result document says: at no interleaving, failure or
\* interruption does the branch lose content, change after it was tested, or
\* the status claim what did not happen (result.py, RunStatus; deliver.py,
\* report: "Nothing else writes it").
KeepsContract == Contract!Spec
=============================================================================
