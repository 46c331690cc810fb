----------------------------- MODULE WorkerLoop ------------------------------
(***************************************************************************)
(* The long-lived team: worker/loop.py pulling tasks off the backend's     *)
(* board, one at a time, running each and reporting how it went.           *)
(*                                                                         *)
(* The loop is sequential; one action is one await of it and the code up   *)
(* to the next.  Beside it run the pause watcher, the signal handler that  *)
(* sets the stop event, the people who pause and resume the team, and      *)
(* whatever kills the process.  A run itself (api.run_team) is reduced to  *)
(* what outlives it: the clone in the workspace, the checkpoint of its     *)
(* thread, its result.                                                     *)
(*                                                                         *)
(* The board is the backend's and is modelled from how backend.py uses it. *)
(* Any call can fail without effect or take effect and lose its answer.    *)
(***************************************************************************)
EXTENDS Integers, FiniteSets

CONSTANTS
  Tasks,            \* the tasks of the board
  Checkpointing,    \* a checkpointer is configured
  LossyCalls,       \* the calls to the backend that may fail
  MaxIssues,        \* settings.max_issues: stop after so many, 0 for never
  MaxCrashes,       \* bound: how often the process is killed
  MaxPauses         \* bound: how often the team is paused

Calls == {"team_state", "held_task", "claim_next", "start", "report"}

ASSUME CheckpointingAssumption == Checkpointing \in BOOLEAN
ASSUME LossyCallsAssumption == LossyCalls \subseteq Calls
ASSUME WorkerBoundsAssumption ==
  MaxIssues \in Nat /\ MaxCrashes \in Nat /\ MaxPauses \in Nat

NoTask == "no task"
ASSUME NoTaskAssumption == NoTask \notin Tasks

Outcomes == {"succeeded", "partial", "failed"}

VARIABLES
  \* the backend
  board,       \* each task: open, claimed by the team, in_progress, settled
  paused,      \* the team's state is `paused`
  pauses,      \* pauses so far
  \* what outlives the process
  clone,       \* the task whose clone is in the workspace, if any
  checkpoint,  \* each task's thread: none, its input only, midway, finished
  outcome,     \* each task's last result, once its thread is finished
  \* the process
  at,          \* where the loop is
  task,        \* the task in hand
  resume,      \* ... and whether it is resumed
  resuming,    \* the task to resume before claiming any
  result,      \* what the run of the task in hand came to
  completed,   \* issues run by this process, while a limit is set
  stop,        \* the stop event
  pauseSet,    \* the pause event of the current run
  shown,       \* WorkerStatus: idle in one of three ways, or a task's id
  crashes      \* times the process was killed

boardVars   == <<board, paused, pauses>>
lastingVars == <<clone, checkpoint, outcome>>
handVars    == <<task, resume, resuming, result>>
processVars == <<completed, stop, pauseSet, shown>>
loopVars    == <<at, handVars, processVars>>
vars == <<boardVars, lastingVars, loopVars, crashes>>

Held == {t \in Tasks : board[t] \in {"claimed", "in_progress"}}
Open == {t \in Tasks : board[t] = "open"}

Places == {"boot",     \* before _held
           "loop",     \* at the top of the while loop
           "claim",    \* about to claim
           "begin",    \* in _run_one, before start
           "run",      \* in run_team, before the graph
           "cloning",  \* in the graph, before bootstrap has made its clone
           "running",  \* in the graph, past bootstrap
           "report",   \* the run is over, nothing is reported yet
           "stopped"}  \* work returned

Idle == {"starting", "waiting", "paused"}   \* what shows no task

InRun == at \in {"run", "cloning", "running"}

TypeOK ==
  /\ board \in [Tasks -> {"open", "claimed", "in_progress",
                          "completed", "failed"}]
  /\ paused \in BOOLEAN /\ pauses \in 0..MaxPauses
  /\ clone \in Tasks \cup {NoTask}
  /\ checkpoint \in [Tasks -> {"none", "input", "midway", "finished"}]
  /\ outcome \in [Tasks -> Outcomes \cup {"none"}]
  /\ at \in Places
  /\ task \in Tasks \cup {NoTask} /\ resuming \in Tasks \cup {NoTask}
  /\ resume \in BOOLEAN
  /\ result \in Outcomes \cup {"none", "raised"}
  /\ completed \in 0..MaxIssues
  /\ stop \in BOOLEAN /\ pauseSet \in BOOLEAN
  /\ shown \in Tasks \cup Idle
  /\ crashes \in 0..MaxCrashes

Init ==
  /\ board = [t \in Tasks |-> "open"]
  /\ paused = FALSE /\ pauses = 0
  /\ clone = NoTask
  /\ checkpoint = [t \in Tasks |-> "none"]
  /\ outcome = [t \in Tasks |-> "none"]
  /\ at = "boot" /\ task = NoTask /\ resume = FALSE /\ resuming = NoTask
  /\ result = "none" /\ completed = 0 /\ stop = FALSE /\ pauseSet = FALSE
  /\ shown = "starting" /\ crashes = 0

-----------------------------------------------------------------------------
(* A call to the backend: it answers, it fails before it reaches the       *)
(* board, or its answer is lost after it changed the board.                *)
Fails(call) == call \in LossyCalls

Goto(place) == at' = place

\* Nothing is in hand; next is the task to resume, if any.
PutDown(next) ==
  /\ task' = NoTask /\ resume' = FALSE /\ resuming' = next
  /\ result' = "none" /\ pauseSet' = FALSE
  /\ UNCHANGED stop

\* Back to the top of the loop, with no issue run.
Loop(next) == Goto("loop") /\ PutDown(next) /\ UNCHANGED completed

\* _run_one is over: the issue counts, and may be the last.
IssueOver ==
  /\ PutDown(NoTask)
  /\ completed' = IF MaxIssues = 0 THEN 0 ELSE completed + 1
  /\ Goto(IF MaxIssues > 0 /\ completed' = MaxIssues THEN "stopped"
                                                     ELSE "loop")

(* _held: a task the team already holds is resumed first; when the backend *)
(* cannot say, the team goes on as if it held none.                        *)

\* A bug for the checks: nobody asks.
HeldAnswered_NotAsked ==
  /\ at = "boot"
  /\ Goto("loop")
  /\ UNCHANGED <<boardVars, lastingVars, handVars, processVars, crashes>>

HeldAnswered ==
  /\ at = "boot"
  /\ IF Held = {} THEN resuming' = NoTask ELSE resuming' \in Held
  /\ Goto("loop")
  /\ UNCHANGED <<boardVars, lastingVars, task, resume, result, processVars,
                 crashes>>

HeldFails ==
  /\ at = "boot" /\ Fails("held_task")
  /\ Goto("loop")
  /\ UNCHANGED <<boardVars, lastingVars, handVars, processVars, crashes>>

(* The top of the loop. *)
ShowWorking(t) == shown' = t

\* A bug for the checks: the poll of a paused team does not look at stop.
Stops_UnlessPaused ==
  /\ at = "loop" /\ stop /\ ~paused
  /\ Goto("stopped")
  /\ UNCHANGED <<boardVars, lastingVars, handVars, processVars, crashes>>

Stops ==
  /\ at = "loop" /\ stop
  /\ Goto("stopped")
  /\ UNCHANGED <<boardVars, lastingVars, handVars, processVars, crashes>>

\* While the team is paused the loop sleeps and asks again.
WaitsPaused ==
  /\ at = "loop" /\ ~stop /\ paused
  /\ shown # "paused" /\ shown' = "paused"
  /\ UNCHANGED <<boardVars, lastingVars, at, handVars, completed, stop,
                 pauseSet, crashes>>

\* Bugs for the checks: a new task is claimed before the held one is resumed;
\* a task that is resumed is not shown.
GoesOn_ClaimsFirst ==
  /\ at = "loop" /\ ~stop
  /\ ~paused \/ Fails("team_state")
  /\ IF resuming = NoTask \/ Open # {}
     THEN Goto("claim") /\ UNCHANGED <<task, resume, shown>>
     ELSE Goto("begin") /\ task' = resuming /\ resume' = TRUE /\ ShowWorking(resuming)
  /\ resuming' = NoTask
  /\ UNCHANGED <<boardVars, lastingVars, result, completed, stop, pauseSet,
                 crashes>>

GoesOn_NotShown ==
  /\ at = "loop" /\ ~stop
  /\ ~paused \/ Fails("team_state")
  /\ IF resuming = NoTask
     THEN Goto("claim") /\ UNCHANGED <<task, resume>>
     ELSE Goto("begin") /\ task' = resuming /\ resume' = TRUE
  /\ resuming' = NoTask
  /\ UNCHANGED <<boardVars, lastingVars, result, processVars, crashes>>

\* team_state answers that the team is not paused, or does not answer.
GoesOn ==
  /\ at = "loop" /\ ~stop
  /\ ~paused \/ Fails("team_state")
  /\ IF resuming = NoTask
     THEN Goto("claim") /\ UNCHANGED <<task, resume, shown>>
     ELSE Goto("begin") /\ task' = resuming /\ resume' = TRUE /\ ShowWorking(resuming)
  /\ resuming' = NoTask
  /\ UNCHANGED <<boardVars, lastingVars, result, completed, stop, pauseSet,
                 crashes>>

(* claim_next: the claim, then the read of the work it points at.  When    *)
(* either answer is lost the task is the team's and the team does not know.*)
Claims(t) ==
  /\ at = "claim" /\ t \in Open
  /\ board' = [board EXCEPT ![t] = "claimed"]
  /\ task' = t /\ resume' = FALSE /\ ShowWorking(t)
  /\ Goto("begin")
  /\ UNCHANGED <<paused, pauses, lastingVars, resuming, result, completed,
                 stop, pauseSet, crashes>>

\* A bug for the checks: only a reported run clears the status.
BoardEmpty_NotShown ==
  /\ at = "claim" /\ Open = {}
  /\ Loop(NoTask)
  /\ UNCHANGED <<shown, boardVars, lastingVars, crashes>>

BoardEmpty ==
  /\ at = "claim" /\ Open = {}
  /\ Loop(NoTask)
  /\ shown' = "waiting"
  /\ UNCHANGED <<boardVars, lastingVars, crashes>>

ClaimFails ==
  /\ at = "claim" /\ Fails("claim_next")
  /\ \/ UNCHANGED board
     \/ \E t \in Open : board' = [board EXCEPT ![t] = "claimed"]
  /\ Loop(NoTask)
  /\ UNCHANGED <<paused, pauses, lastingVars, shown, crashes>>

-----------------------------------------------------------------------------
(* _run_one: start, unless the task is resumed and so in progress already. *)
Resumes ==
  /\ at = "begin" /\ resume
  /\ Goto("run")
  /\ UNCHANGED <<boardVars, lastingVars, handVars, processVars, crashes>>

MarkStarted == board' = [board EXCEPT ![task] = "in_progress"]

Starts ==
  /\ at = "begin" /\ ~resume
  /\ MarkStarted
  /\ Goto("run")
  /\ UNCHANGED <<paused, pauses, lastingVars, handVars, processVars, crashes>>

\* A bug for the checks: a failed call is logged, and the task worked on.
StartFails_GoesOn ==
  /\ at = "begin" /\ ~resume /\ Fails("start")
  /\ UNCHANGED board \/ MarkStarted
  /\ Goto("run")
  /\ UNCHANGED <<paused, pauses, lastingVars, handVars, processVars, crashes>>

\* The team does not work on a task it could not mark started, and leaves it.
StartFails ==
  /\ at = "begin" /\ ~resume /\ Fails("start")
  /\ UNCHANGED board \/ MarkStarted
  /\ IssueOver
  /\ UNCHANGED <<paused, pauses, lastingVars, shown, crashes>>

(* The watcher, while run_team runs. *)
WatcherSeesPause ==
  /\ InRun /\ paused /\ ~pauseSet
  /\ pauseSet' = TRUE
  /\ UNCHANGED <<boardVars, lastingVars, at, handVars, completed, stop, shown,
                 crashes>>

-----------------------------------------------------------------------------
(* run_team.                                                               *)

RunIsOver(res) ==
  /\ Goto("report")
  /\ result' = res
  /\ UNCHANGED <<task, resume, resuming, processVars>>

\* A TeamError before the graph: resuming without a checkpointer always, a
\* delivery that cannot be built sometimes.
RunRaises ==
  /\ at = "run"
  /\ RunIsOver("raised")
  /\ UNCHANGED <<boardVars, lastingVars, crashes>>

CanRun == resume => Checkpointing

Checkpoint(as) ==
  checkpoint' = [checkpoint EXCEPT ![task] =
                   IF Checkpointing THEN as ELSE "none"]

\* From the start, over whatever the thread held before.
RunStarts ==
  /\ at = "run" /\ ~resume
  /\ Checkpoint("input")
  /\ outcome' = [outcome EXCEPT ![task] = "none"]
  /\ Goto("cloning")
  /\ UNCHANGED <<boardVars, clone, handVars, processVars, crashes>>

\* bootstrap deletes whatever clone is in the workspace, then makes its own.
RunClears ==
  /\ at = "cloning" /\ clone # NoTask
  /\ clone' = NoTask
  /\ UNCHANGED <<boardVars, checkpoint, outcome, at, handVars, processVars,
                 crashes>>

RunBootstraps ==
  /\ at = "cloning" /\ clone = NoTask
  /\ clone' = task
  /\ Checkpoint("midway")
  /\ Goto("running")
  /\ UNCHANGED <<boardVars, outcome, handVars, processVars, crashes>>

\* From the checkpoint, over the clone that is there.
RunResumes ==
  /\ at = "run" /\ resume /\ CanRun
  /\ \/ checkpoint[task] = "input"  /\ Goto("cloning")
     \/ checkpoint[task] = "midway" /\ Goto("running")
  /\ UNCHANGED <<boardVars, lastingVars, handVars, processVars, crashes>>

\* The thread has ended already: its result stands.
RunFindsResult ==
  /\ at = "run" /\ resume /\ CanRun /\ checkpoint[task] = "finished"
  /\ RunIsOver(outcome[task])
  /\ UNCHANGED <<boardVars, lastingVars, crashes>>

\* An exception inside the graph -- in bootstrap before or after the old clone
\* is gone --, or a thread with no checkpoint to resume.
NothingToResume == at = "run" /\ resume /\ CanRun /\ checkpoint[task] = "none"

RunFails ==
  /\ at \in {"cloning", "running"} \/ NothingToResume
  /\ RunIsOver("failed")
  /\ outcome' = [outcome EXCEPT ![task] = "failed"]
  /\ UNCHANGED <<boardVars, clone, checkpoint, crashes>>

Finish(res) ==
  /\ Checkpoint("finished")
  /\ outcome' = [outcome EXCEPT ![task] = res]
  /\ UNCHANGED clone

RunEnds ==
  /\ at = "running"
  /\ \E res \in Outcomes : RunIsOver(res) /\ Finish(res)
  /\ UNCHANGED <<boardVars, crashes>>

\* A bug for the checks: the loop does not mean to resume the task.
RunPauses_Forgets ==
  /\ at = "running" /\ pauseSet /\ Checkpointing
  /\ UNCHANGED lastingVars \/ \E res \in Outcomes : Finish(res)
  /\ Loop(NoTask)
  /\ UNCHANGED <<boardVars, shown, crashes>>

\* A node has ended and the pause event is set: the run stops there, which may
\* be after its last node, and the loop means to resume the task.
RunPauses ==
  /\ at = "running" /\ pauseSet /\ Checkpointing
  /\ UNCHANGED lastingVars \/ \E res \in Outcomes : Finish(res)
  /\ Loop(task)
  /\ UNCHANGED <<boardVars, shown, crashes>>

-----------------------------------------------------------------------------
(* Reporting: complete, escalate -- which puts the task back on the board  *)
(* -- or fail.  _report swallows a call that fails.                        *)
\* Bugs for the checks: a partial run completes its task; the status of the
\* run is written on the board as it is.
Settlement_PartialCompletes ==
  IF result \in {"succeeded", "partial"} THEN "completed" ELSE "failed"

Settlement_RawStatus == result

Settlement ==
  CASE result = "succeeded" -> "completed"
    [] result = "partial"   -> "open"
    [] OTHER                -> "failed"

\* A bug for the checks: a run that raised is not reported.
Settle_NotRaised ==
  board' = [board EXCEPT ![task] = IF result = "raised" THEN @ ELSE Settlement]

Settle == board' = [board EXCEPT ![task] = Settlement]

\* status.finished, which a run that raised does not come to.
ShowFinished == shown' = IF result = "raised" THEN shown ELSE "waiting"

Reports ==
  /\ at = "report"
  /\ Settle
  /\ IssueOver /\ ShowFinished
  /\ UNCHANGED <<paused, pauses, lastingVars, crashes>>

ReportLost ==
  /\ at = "report" /\ Fails("report")
  /\ UNCHANGED board \/ Settle
  /\ IssueOver /\ ShowFinished
  /\ UNCHANGED <<paused, pauses, lastingVars, crashes>>

-----------------------------------------------------------------------------
(* Around the loop: SIGTERM, people, and the process's death.              *)
StopRequested ==
  /\ ~stop /\ stop' = TRUE
  /\ UNCHANGED <<boardVars, lastingVars, at, handVars, completed, pauseSet,
                 shown, crashes>>

TeamPaused ==
  /\ ~paused /\ pauses < MaxPauses
  /\ paused' = TRUE /\ pauses' = pauses + 1
  /\ UNCHANGED <<board, lastingVars, loopVars, crashes>>

TeamUnpaused ==
  /\ paused /\ paused' = FALSE
  /\ UNCHANGED <<board, pauses, lastingVars, loopVars, crashes>>

\* Killed, or started again after it stopped: only what lasts is left.
Restarts ==
  /\ crashes < MaxCrashes /\ crashes' = crashes + 1
  /\ at' = "boot" /\ task' = NoTask /\ resume' = FALSE /\ resuming' = NoTask
  /\ result' = "none" /\ completed' = 0 /\ stop' = FALSE /\ pauseSet' = FALSE
  /\ shown' = "starting"
  /\ UNCHANGED <<boardVars, lastingVars>>

Process ==
  \/ HeldAnswered \/ HeldFails \/ Stops \/ WaitsPaused \/ GoesOn
  \/ (\E t \in Tasks : Claims(t)) \/ BoardEmpty \/ ClaimFails
  \/ Resumes \/ Starts \/ StartFails
  \/ RunRaises \/ RunStarts \/ RunClears \/ RunBootstraps \/ RunResumes
  \/ RunFindsResult \/ RunFails \/ RunEnds \/ RunPauses
  \/ Reports \/ ReportLost

Stopped == at = "stopped" /\ UNCHANGED vars

Next ==
  \/ Process \/ WatcherSeesPause
  \/ StopRequested \/ TeamPaused \/ TeamUnpaused \/ Restarts \/ Stopped

Spec == Init /\ [][Next]_vars

\* The loop goes on as long as the process lives, and a run ends if it is not
\* paused.
LoopFairSpec == Spec /\ WF_vars(Process)

\* ... and a paused team is unpaused eventually.
FairSpec == Spec /\ WF_vars(Process) /\ WF_vars(TeamUnpaused)

-----------------------------------------------------------------------------
(* Properties.                                                             *)

\* Between issues the team holds no task but the one it is about to resume:
\* everything it took off the board it has reported on (loop.py: a task left
\* in progress "is invisible: no other team can take it and no human is told
\* it stalled").
HoldsOnlyWhatItResumes == at = "loop" => Held \subseteq {resuming}

\* A run resumed from the middle finds its own clone: nothing ran in the
\* workspace since it was left (worktrees.py: "a checkpointed run's clone is
\* never destroyed").
ResumeFindsItsClone == at = "running" /\ resume => clone = task

\* Whatever calls fail, a task the board calls completed is one whose last run
\* succeeded, and a task the board has settled is not being run.
BoardIsTrue ==
  /\ \A t \in Tasks : board[t] = "completed" => outcome[t] = "succeeded"
  /\ InRun => board[task] \notin {"completed", "failed"}

\* A run that stopped for a pause is neither dropped nor reported: the team
\* still holds the task, and nothing else is run before it is resumed.
PausedRunIsKept ==
  \A t \in Held : checkpoint[t] = "midway" /\ at \notin {"boot", "stopped"} =>
    t \in {resuming, task}

\* Whatever calls fail, a run that is not resumed is of a task the board knows
\* to be in progress (loop.py: without that "we must not work on it -- the
\* board's record would disagree with reality").
RunsOnlyWhatItStarted == InRun /\ ~resume => board[task] = "in_progress"

Board == INSTANCE BoardContract WITH verdict <- outcome

\* Whatever calls fail or lose their answers, and however often the process is
\* killed, the board sees every task taken, started, run and settled in that
\* order: no run of a task it does not have in progress, no completion of one
\* whose last run did not succeed, nothing settled touched again (loop.py:
\* otherwise "the board's record would disagree with reality").
KeepsBoard == Board!Spec

\* ... and while the calls that move a task answer, the team works on one task
\* at a time: it takes none while it holds one, across restarts and pauses
\* (backend.py: it "must pick that up again rather than claim a new one").
KeepsBoardAlone == Board!SpecAlone

\* The status endpoint never hides a run behind an idle state or another
\* task's id: while a task is run, started or resumed, it is the one shown.
RunIsShown == InRun => shown = task

\* A task still shown after its run is over -- its start failed, its run raised
\* or was paused -- does not stay there: the status catches up with the next
\* answer from the backend (status.py: "What the team is doing right now").
ShownCatchesUp ==
  \A t \in Tasks :
    shown = t /\ task # t ~> (shown # t \/ task = t \/ at = "stopped")

\* A task that was started is settled in the end, if the process is not told
\* to stop first, however often the run is paused or the process killed.
StartedIsSettled ==
  \A t \in Tasks :
    board[t] = "in_progress" ~> (t \notin Held \/ at = "stopped")

\* A stop request ends the loop, even while the team is paused.
StopIsHonoured == stop ~> (at = "stopped" \/ ~stop)
=============================================================================
