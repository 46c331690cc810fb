----------------------------- MODULE RunContract -----------------------------
(***************************************************************************)
(* What one run promises whoever reads its result document, and nothing of *)
(* how it is done: RunStatus in models/result.py, and report, the node     *)
(* that decides it.  TeamContract shows that TeamGraph keeps it.           *)
(*                                                                         *)
(* While the run is working its branch only grows.  Once verified, what    *)
(* was verified is what is published and reported on; from then on the run *)
(* cannot be aborted any more, and its outcome says truly whether work     *)
(* landed.  succeeded means nothing fell short: tests green on this        *)
(* content, delivery completed, and nothing that was claimed missing.      *)
(***************************************************************************)
CONSTANT DevWork      \* the contents that are somebody's work on the task

VARIABLES
  phase,      \* "working", "verified", "delivered" or "over"
  content,    \* what is on the work branch
  owed,       \* results that claim work the branch does not have
  green,      \* the last test pass was green on this content
  published,  \* delivery completed
  outcome     \* the status reported, "none" until the run is over

contractVars == <<phase, content, owed, green, published, outcome>>

Init ==
  /\ phase = "working" /\ content = {} /\ owed = {}
  /\ green = FALSE /\ published = FALSE
  /\ outcome = "none"

\* Agents work, branches are merged, tests fail and are repaired.
Work ==
  /\ phase = "working"
  /\ content \subseteq content'
  /\ UNCHANGED <<phase, green, published, outcome>>

\* The last test pass: what it ran on is not touched again.
Verify ==
  /\ phase = "working" /\ phase' = "verified"
  /\ green' \in BOOLEAN
  /\ UNCHANGED <<content, owed, published, outcome>>

Publish ==
  /\ phase = "verified" /\ phase' = "delivered"
  /\ published' \in BOOLEAN
  /\ UNCHANGED <<content, owed, green, outcome>>

Landed    == content \cap DevWork # {}
FellShort == ~green \/ ~published \/ owed # {}

Finish ==
  /\ phase = "delivered" /\ phase' = "over"
  /\ outcome' \in {"failed", "partial", "succeeded"}
  /\ outcome' = "failed" <=> ~Landed
  /\ FellShort => outcome' # "succeeded"
  /\ UNCHANGED <<content, owed, green, published>>

\* No plan, or an exception: only while the run is still working.
Abort ==
  /\ phase = "working" /\ phase' = "over"
  /\ outcome' = "failed"
  /\ UNCHANGED <<content, owed, green, published>>

Next == Work \/ Verify \/ Publish \/ Finish \/ Abort

Spec == Init /\ [][Next]_contractVars
=============================================================================
