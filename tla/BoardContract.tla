---------------------------- MODULE BoardContract ----------------------------
(***************************************************************************)
(* What the board may rely on when a team works off its tasks, and nothing *)
(* of how the team does it: worker/backend.py's calls, and what loop.py    *)
(* promises with them.  WorkerLoop is shown to keep it.                    *)
(*                                                                         *)
(* A task is taken, started, worked on and settled, in that order.  Only a *)
(* started task is worked on, by however many runs.  It is completed when  *)
(* its last run succeeded, put back on the board when its last run was     *)
(* partial, and once it is completed or failed it is left alone.           *)
(***************************************************************************)
CONSTANT Tasks

VARIABLES
  board,     \* each task: open, claimed, in_progress, completed or failed
  verdict    \* each task: what its last run came to, "none" while it runs

contractVars == <<board, verdict>>

Moves(t, from, to) ==
  /\ board[t] \in from
  /\ board' = [board EXCEPT ![t] = to]
  /\ UNCHANGED verdict

Judged(t, as) ==
  /\ verdict' = [verdict EXCEPT ![t] = as]
  /\ UNCHANGED board

Init ==
  /\ board = [t \in Tasks |-> "open"]
  /\ verdict = [t \in Tasks |-> "none"]

Take(t)  == Moves(t, {"open"}, "claimed")
Start(t) == Moves(t, {"claimed"}, "in_progress")

\* A run begins, or ends in one way or the other.
Run(t) ==
  /\ board[t] = "in_progress"
  /\ \E as \in {"none", "succeeded", "partial", "failed"} : Judged(t, as)

\* A task that was taken and never started has no run to go on with.
GiveUp(t) == board[t] = "claimed" /\ Judged(t, "failed")

Complete(t) == verdict[t] = "succeeded" /\ Moves(t, {"in_progress"}, "completed")
Escalate(t) == verdict[t] = "partial" /\ Moves(t, {"claimed", "in_progress"}, "open")
Fail(t)     == Moves(t, {"claimed", "in_progress"}, "failed")

Works(t) ==
  \/ Start(t) \/ Run(t) \/ GiveUp(t)
  \/ Complete(t) \/ Escalate(t) \/ Fail(t)

Next == \E t \in Tasks : Take(t) \/ Works(t)

Spec == Init /\ [][Next]_contractVars

(* What a team promises as long as it is told what it asked: it takes no   *)
(* task while it holds one, and so works on one at a time.                 *)
HoldsNone == \A t \in Tasks : board[t] \notin {"claimed", "in_progress"}

NextAlone == \E t \in Tasks : (HoldsNone /\ Take(t)) \/ Works(t)

SpecAlone == Init /\ [][NextAlone]_contractVars
=============================================================================
