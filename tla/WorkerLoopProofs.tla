--------------------------- MODULE WorkerLoopProofs ---------------------------
(* What holds of WorkerLoop for any set of tasks and any bounds: first     *)
(* whatever calls to the backend fail, then when the calls that move a     *)
(* task on the board answer.                                               *)
EXTENDS WorkerLoop, TLAPS

InHand == at \in {"begin", "run", "cloning", "running", "report"}

(* What the loop holds, by where it is; and the issue limit, which the     *)
(* loop stops at.                                                          *)
HandInv ==
  /\ InHand => task \in Tasks /\ resuming = NoTask
  /\ ~InHand => task = NoTask
  /\ at = "claim" => resuming = NoTask
  /\ at # "report" => result = "none"
  /\ MaxIssues > 0 /\ at # "stopped" => completed < MaxIssues

LEMMA HandInit == Init => TypeOK /\ HandInv
<1>. SUFFICES ASSUME Init PROVE TypeOK /\ HandInv
  OBVIOUS
<1>1. /\ pauses \in 0..MaxPauses /\ crashes \in 0..MaxCrashes
      /\ completed \in 0..MaxIssues /\ (MaxIssues > 0 => completed < MaxIssues)
  BY WorkerBoundsAssumption DEF Init
<1>2. /\ board \in [Tasks -> {"open", "claimed", "in_progress",
                               "completed", "failed"}]
      /\ checkpoint \in [Tasks -> {"none", "input", "midway", "finished"}]
      /\ outcome \in [Tasks -> Outcomes \cup {"none"}]
  BY DEF Init
<1>. QED
  BY <1>1, <1>2 DEF Init, TypeOK, HandInv, InHand, Places, Idle

LEMMA PutDownTypes ==
  ASSUME TypeOK, HandInv, NEW next \in Tasks \cup {NoTask}, PutDown(next),
         \/ Goto("loop") /\ UNCHANGED completed
         \/ IssueOver,
         at # "stopped"
  PROVE  /\ at' \in {"loop", "stopped"} /\ task' = NoTask
         /\ resuming' \in Tasks \cup {NoTask} /\ resume' = FALSE
         /\ result' = "none" /\ completed' \in 0..MaxIssues
         /\ stop' = stop /\ pauseSet' = FALSE
         /\ HandInv'
BY WorkerBoundsAssumption
   DEF TypeOK, HandInv, InHand, PutDown, IssueOver, Goto

LEMMA LoopStep ==
  ASSUME TypeOK, HandInv,
         \/ HeldAnswered \/ HeldFails \/ Stops \/ WaitsPaused \/ GoesOn
         \/ Resumes \/ Starts \/ \E t \in Tasks : Claims(t)
  PROVE  TypeOK' /\ HandInv'
<1>. USE DEF TypeOK, HandInv, InHand, Places, Goto, boardVars, lastingVars,
             handVars, processVars
<1>1. CASE HeldAnswered
  BY <1>1 DEF HeldAnswered, Held
<1>2. CASE HeldFails \/ Stops \/ Resumes
  BY <1>2 DEF HeldFails, Stops, Resumes
<1>3. CASE WaitsPaused \/ GoesOn
  BY <1>3 DEF WaitsPaused, GoesOn, ShowWorking, Idle
<1>4. CASE Starts
  BY <1>4 DEF Starts, MarkStarted
<1>5. CASE \E t \in Tasks : Claims(t)
  BY <1>5 DEF Claims, ShowWorking, Open
<1>. QED BY <1>1, <1>2, <1>3, <1>4, <1>5

LEMMA PutDownStep ==
  ASSUME TypeOK, HandInv,
         BoardEmpty \/ ClaimFails \/ StartFails \/ Reports \/ ReportLost
  PROVE  TypeOK' /\ HandInv'
<1>. USE DEF TypeOK, Places, boardVars, lastingVars
<1>1. NoTask \in Tasks \cup {NoTask}
  OBVIOUS
<1>2. CASE BoardEmpty
  BY <1>1, <1>2, PutDownTypes DEF BoardEmpty, Loop, Idle
<1>3. CASE ClaimFails
  BY <1>1, <1>3, PutDownTypes DEF ClaimFails, Loop, Open
<1>4. CASE StartFails
  BY <1>1, <1>4, PutDownTypes DEF StartFails, IssueOver, MarkStarted
<1>5. CASE Reports \/ ReportLost
  <2>1. Settlement \in {"open", "completed", "failed"}
    BY DEF Settlement
  <2>2. board' \in [Tasks -> {"open", "claimed", "in_progress",
                              "completed", "failed"}]
    BY <1>5, <2>1 DEF Reports, ReportLost, Settle
  <2>3. shown' \in Tasks \cup Idle
    BY <1>5 DEF Reports, ReportLost, ShowFinished, Idle
  <2>. QED
    BY <1>1, <1>5, <2>2, <2>3, PutDownTypes DEF Reports, ReportLost, IssueOver
<1>. QED BY <1>2, <1>3, <1>4, <1>5

LEMMA RunStep ==
  ASSUME TypeOK, HandInv,
         \/ RunRaises \/ RunStarts \/ RunClears \/ RunBootstraps
         \/ RunResumes \/ RunFindsResult \/ RunFails \/ RunEnds \/ RunPauses
  PROVE  TypeOK' /\ HandInv'
<1>. USE DEF TypeOK, HandInv, InHand, Places, Goto, RunIsOver, Checkpoint,
             Finish, Outcomes, boardVars, lastingVars, handVars, processVars
<1>1. CASE RunRaises
  BY <1>1 DEF RunRaises
<1>2. CASE RunStarts \/ RunClears \/ RunBootstraps
  BY <1>2 DEF RunStarts, RunClears, RunBootstraps
<1>3. CASE RunResumes \/ RunFindsResult
  BY <1>3 DEF RunResumes, RunFindsResult
<1>4. CASE RunFails
  BY <1>4 DEF RunFails, NothingToResume
<1>5. CASE RunEnds
  BY <1>5 DEF RunEnds
<1>6. CASE RunPauses
  <2>1. task \in Tasks /\ at # "stopped"
    BY <1>6 DEF RunPauses
  <2>2. /\ checkpoint' \in [Tasks -> {"none", "input", "midway", "finished"}]
        /\ outcome' \in [Tasks -> Outcomes \cup {"none"}]
        /\ UNCHANGED <<clone, boardVars, shown, crashes>>
    BY <1>6 DEF RunPauses
  <2>. QED BY <1>6, <2>1, <2>2, PutDownTypes DEF RunPauses, Loop
<1>. QED BY <1>1, <1>2, <1>3, <1>4, <1>5, <1>6

LEMMA AroundStep ==
  ASSUME TypeOK, HandInv,
         \/ WatcherSeesPause \/ StopRequested \/ TeamPaused \/ TeamUnpaused
         \/ Restarts \/ UNCHANGED vars
  PROVE  TypeOK' /\ HandInv'
<1>. USE WorkerBoundsAssumption
     DEF TypeOK, HandInv, InHand, Places, boardVars, lastingVars, loopVars,
         handVars, processVars
<1>1. CASE WatcherSeesPause \/ StopRequested
  BY <1>1 DEF WatcherSeesPause, StopRequested, InRun
<1>2. CASE TeamPaused \/ TeamUnpaused
  <2>1. pauses' \in 0..MaxPauses
    BY <1>2 DEF TeamPaused, TeamUnpaused
  <2>2. paused' \in BOOLEAN
    BY <1>2 DEF TeamPaused, TeamUnpaused
  <2>. QED BY <1>2, <2>1, <2>2 DEF TeamPaused, TeamUnpaused
<1>3. CASE Restarts
  <2>1. /\ crashes' \in 0..MaxCrashes /\ completed' \in 0..MaxIssues
        /\ MaxIssues > 0 => completed' < MaxIssues
    BY <1>3 DEF Restarts
  <2>. QED BY <1>3, <2>1 DEF Restarts, Idle
<1>4. CASE UNCHANGED vars
  BY <1>4 DEF vars
<1>. QED BY <1>1, <1>2, <1>3, <1>4

LEMMA HandStep == TypeOK /\ HandInv /\ [Next]_vars => TypeOK' /\ HandInv'
BY LoopStep, PutDownStep, RunStep, AroundStep DEF Next, Process, Stopped

LEMMA HandInvariant == Spec => [](TypeOK /\ HandInv)
BY HandInit, HandStep, PTL DEF Spec

\* Every variable of the loop keeps its type; in particular the issue limit is
\* never passed.
THEOREM WorkerTypes == Spec => []TypeOK
BY HandInvariant, PTL

-----------------------------------------------------------------------------
(* Whatever calls fail.  A task in hand, or about to be resumed, is one    *)
(* the team holds on the board, so nothing settles it but its own report;  *)
(* and a report is made of the result the thread last ended with.          *)
BoardInv ==
  /\ InHand => task \in Held /\ shown = task
  /\ resuming # NoTask => resuming \in Held
  /\ at = "report" /\ result = "succeeded" => outcome[task] = "succeeded"
  /\ \A t \in Tasks : board[t] = "completed" => outcome[t] = "succeeded"
  /\ RunsOnlyWhatItStarted

LEMMA BoardInit == Init => BoardInv
BY NoTaskAssumption
   DEF Init, BoardInv, InHand, Held, RunsOnlyWhatItStarted, InRun

LEMMA BoardStep == TypeOK /\ HandInv /\ BoardInv /\ [Next]_vars => BoardInv'
<1>. SUFFICES ASSUME TypeOK, HandInv, BoardInv, [Next]_vars PROVE BoardInv'
  OBVIOUS
<1>. USE DEF BoardInv, InHand, Held, RunsOnlyWhatItStarted, InRun, Goto,
             boardVars, lastingVars, handVars, processVars
<1>0. /\ board \in [Tasks -> {"open", "claimed", "in_progress",
                               "completed", "failed"}]
      /\ outcome \in [Tasks -> Outcomes \cup {"none"}]
      /\ task \in Tasks \cup {NoTask}
      /\ InHand => task \in Tasks /\ resuming = NoTask
  BY DEF TypeOK, HandInv
<1>1. CASE \/ HeldAnswered \/ HeldFails \/ Stops \/ WaitsPaused \/ GoesOn
           \/ Resumes
  BY <1>0, <1>1, NoTaskAssumption
     DEF HeldAnswered, HeldFails, Stops, WaitsPaused, GoesOn, ShowWorking, Resumes
<1>2. CASE Starts \/ \E t \in Tasks : Claims(t)
  BY <1>0, <1>2 DEF Starts, MarkStarted, Claims, ShowWorking, HandInv
<1>3. CASE BoardEmpty \/ ClaimFails
  BY <1>0, <1>3 DEF BoardEmpty, ClaimFails, Loop, PutDown, Open
<1>4. CASE StartFails
  BY <1>0, <1>4 DEF StartFails, MarkStarted, IssueOver, PutDown
<1>5. CASE Reports \/ ReportLost
  <2>1. /\ board' = board \/ board' = [board EXCEPT ![task] = Settlement]
        /\ at = "report" /\ at' \in {"loop", "stopped"}
        /\ resuming' = NoTask /\ UNCHANGED outcome
    BY <1>5 DEF Reports, ReportLost, Settle, IssueOver, PutDown
  <2>2. Settlement = "completed" => result = "succeeded"
    BY DEF Settlement
  <2>. QED BY <1>0, <2>1, <2>2
<1>6. CASE RunRaises \/ RunStarts \/ RunClears \/ RunBootstraps \/ RunResumes
  BY <1>0, <1>6
     DEF RunRaises, RunStarts, RunClears, RunBootstraps, RunResumes, RunIsOver
<1>7. CASE RunFindsResult \/ RunFails
  BY <1>0, <1>7 DEF RunFindsResult, RunFails, NothingToResume, RunIsOver
<1>8. CASE RunEnds
  BY <1>0, <1>8 DEF RunEnds, Finish, RunIsOver
<1>9. CASE RunPauses
  <2>1. /\ at' = "loop" /\ resuming' = task /\ task \in Held
        /\ UNCHANGED board
        /\ \A t \in Tasks \ {task} : outcome'[t] = outcome[t]
    BY <1>0, <1>9 DEF RunPauses, Loop, PutDown, Finish
  <2>. QED BY <1>0, <2>1
<1>10. CASE \/ WatcherSeesPause \/ StopRequested \/ TeamPaused
            \/ TeamUnpaused \/ UNCHANGED vars
  BY <1>10 DEF WatcherSeesPause, StopRequested, TeamPaused, TeamUnpaused,
       loopVars, vars
<1>11. CASE Restarts
  BY <1>11 DEF Restarts
<1>. QED
  BY <1>1, <1>2, <1>3, <1>4, <1>5, <1>6, <1>7, <1>8, <1>9, <1>10, <1>11
     DEF Next, Process, Stopped

LEMMA BoardInvariant == Spec => [](TypeOK /\ HandInv /\ BoardInv)
BY HandInit, BoardInit, HandStep, BoardStep, PTL DEF Spec

\* Whatever calls fail or lose their answers, and however often the process is
\* killed, a task the board calls completed is one whose last run succeeded,
\* and a task it has settled is not being run.
THEOREM BoardStaysTrue == Spec => []BoardIsTrue
<1>1. BoardInv => BoardIsTrue
  BY DEF BoardInv, BoardIsTrue, InHand, InRun, Held
<1>. QED BY BoardInvariant, <1>1, PTL

\* Whatever calls fail, a run that is not resumed is of a task the board knows
\* to be in progress.
THEOREM RunsAreStarted == Spec => []RunsOnlyWhatItStarted
<1>1. BoardInv => RunsOnlyWhatItStarted
  BY DEF BoardInv
<1>. QED BY BoardInvariant, <1>1, PTL

\* Whatever calls fail, the status shows the task that is being run.
THEOREM RunsAreShown == Spec => []RunIsShown
<1>1. BoardInv => RunIsShown
  BY DEF BoardInv, RunIsShown, InHand, InRun
<1>. QED BY BoardInvariant, <1>1, PTL

-----------------------------------------------------------------------------
(* When no call but team_state fails.  The team holds nothing but the task *)
(* in hand or the one to resume, so it holds one task at most, and the     *)
(* clone in the workspace is that task's as soon as its run is past        *)
(* bootstrap: whatever else ran there ended before.  A task back on the    *)
(* board is never in the middle of a run.                                  *)
CallsAnswer == LossyCalls \subseteq {"team_state"}

HeldInv ==
  /\ at # "boot" => Held \subseteq {task, resuming}
  /\ \A t, u \in Held : t = u
  /\ \A t \in Held : checkpoint[t] = "midway" => clone = t
  /\ at = "running" => clone = task
  /\ at = "cloning" => checkpoint[task] # "midway"
  /\ \A t \in Open : checkpoint[t] # "midway"
  /\ at = "report" /\ result = "partial" => checkpoint[task] # "midway"
  /\ at \in {"cloning", "running"} => outcome[task] # "partial"
  /\ \A t \in Tasks :
       outcome[t] = "partial" => checkpoint[t] \notin {"input", "midway"}

LEMMA HeldInit == Init => HeldInv
BY DEF Init, HeldInv, Held, Open

LEMMA HeldStep ==
  ASSUME CallsAnswer
  PROVE  TypeOK /\ HandInv /\ BoardInv /\ HeldInv /\ [Next]_vars => HeldInv'
<1>. SUFFICES ASSUME TypeOK, HandInv, BoardInv, HeldInv, [Next]_vars
              PROVE  HeldInv'
  OBVIOUS
<1>. USE DEF HeldInv, InHand, Held, Open, Goto, boardVars, lastingVars,
             handVars, processVars
<1>0. /\ board \in [Tasks -> {"open", "claimed", "in_progress",
                               "completed", "failed"}]
      /\ checkpoint \in [Tasks -> {"none", "input", "midway", "finished"}]
      /\ outcome \in [Tasks -> Outcomes \cup {"none"}]
      /\ task \in Tasks \cup {NoTask} /\ resuming \in Tasks \cup {NoTask}
      /\ InHand => task \in Held /\ resuming = NoTask
      /\ ~InHand => task = NoTask
      /\ at = "claim" => resuming = NoTask
      /\ at # "report" => result = "none"
  BY DEF TypeOK, HandInv, BoardInv
<1>1. CASE \/ HeldAnswered \/ Stops \/ WaitsPaused \/ GoesOn \/ Resumes
  BY <1>0, <1>1, NoTaskAssumption
     DEF HeldAnswered, Stops, WaitsPaused, GoesOn, ShowWorking, Resumes
<1>2. CASE HeldFails \/ ClaimFails \/ StartFails \/ ReportLost
  BY <1>2 DEF HeldFails, ClaimFails, StartFails, ReportLost, Fails, CallsAnswer
<1>3. CASE Starts
  BY <1>0, <1>3 DEF Starts, MarkStarted
<1>4. CASE \E t \in Tasks : Claims(t)
  BY <1>0, <1>4, NoTaskAssumption DEF Claims, ShowWorking
<1>5. CASE BoardEmpty
  BY <1>0, <1>5 DEF BoardEmpty, Loop, PutDown
<1>6. CASE Reports
  <2>1. /\ board' = [board EXCEPT ![task] = Settlement]
        /\ at = "report" /\ at' \in {"loop", "stopped"}
        /\ task' = NoTask /\ resuming' = NoTask
        /\ UNCHANGED <<clone, checkpoint, outcome>>
    BY <1>6 DEF Reports, Settle, IssueOver, PutDown
  <2>2. /\ Settlement \in {"open", "completed", "failed"}
        /\ Settlement = "open" => result = "partial"
    BY DEF Settlement
  <2>3. Held' = {}
    BY <1>0, <2>1, <2>2, NoTaskAssumption
  <2>4. Open' \subseteq Open \cup {task}
    BY <1>0, <2>1, <2>2
  <2>. QED BY <1>0, <2>1, <2>2, <2>3, <2>4
<1>7. CASE RunRaises \/ RunStarts \/ RunResumes
  BY <1>0, <1>7 DEF RunRaises, RunStarts, RunResumes, RunIsOver, Checkpoint
<1>8. CASE RunClears \/ RunBootstraps
  BY <1>0, <1>8 DEF RunClears, RunBootstraps, Checkpoint
<1>9. CASE RunFindsResult \/ RunFails
  BY <1>0, <1>9 DEF RunFindsResult, RunFails, NothingToResume, RunIsOver
<1>10. CASE RunEnds
  BY <1>0, <1>10 DEF RunEnds, Finish, RunIsOver, Checkpoint
<1>11. CASE RunPauses
  BY <1>0, <1>11 DEF RunPauses, Loop, PutDown, Finish, Checkpoint
<1>12. CASE \/ WatcherSeesPause \/ StopRequested \/ TeamPaused
            \/ TeamUnpaused \/ UNCHANGED vars
  BY <1>12 DEF WatcherSeesPause, StopRequested, TeamPaused, TeamUnpaused,
       loopVars, vars
<1>13. CASE Restarts
  BY <1>13 DEF Restarts
<1>. QED
  BY <1>1, <1>2, <1>3, <1>4, <1>5, <1>6, <1>7, <1>8, <1>9, <1>10, <1>11,
     <1>12, <1>13 DEF Next, Process, Stopped

LEMMA HeldInvariant ==
  ASSUME CallsAnswer
  PROVE  Spec => [](TypeOK /\ HandInv /\ BoardInv /\ HeldInv)
<1>1. TypeOK /\ HandInv /\ BoardInv /\ HeldInv /\ [Next]_vars => HeldInv'
  BY HeldStep
<1>. QED BY <1>1, HandInit, BoardInit, HeldInit, HandStep, BoardStep, PTL DEF Spec

\* When no call but team_state fails, a resumed run that is past bootstrap
\* finds its own clone in the workspace, however often runs are paused and
\* the process killed.
THEOREM ClonesAreFound == CallsAnswer => (Spec => []ResumeFindsItsClone)
<1>. SUFFICES ASSUME CallsAnswer PROVE Spec => []ResumeFindsItsClone
  OBVIOUS
<1>1. HeldInv => ResumeFindsItsClone
  BY DEF HeldInv, ResumeFindsItsClone
<1>. QED BY HeldInvariant, <1>1, PTL

\* ... between issues the team holds no task but the one it will resume,
THEOREM NothingElseIsHeld == CallsAnswer => (Spec => []HoldsOnlyWhatItResumes)
<1>. SUFFICES ASSUME CallsAnswer PROVE Spec => []HoldsOnlyWhatItResumes
  OBVIOUS
<1>1. HandInv /\ HeldInv => HoldsOnlyWhatItResumes
  BY NoTaskAssumption
     DEF HandInv, HeldInv, HoldsOnlyWhatItResumes, InHand, Held
<1>. QED BY HeldInvariant, <1>1, PTL

\* ... and a run stopped for a pause is kept until it is resumed.
THEOREM PausedRunsStay == CallsAnswer => (Spec => []PausedRunIsKept)
<1>. SUFFICES ASSUME CallsAnswer PROVE Spec => []PausedRunIsKept
  OBVIOUS
<1>1. HeldInv => PausedRunIsKept
  BY DEF HeldInv, PausedRunIsKept
<1>. QED BY HeldInvariant, <1>1, PTL

-----------------------------------------------------------------------------
(* The contract with the board, whatever calls fail.  A task the board has *)
(* not seen started has no run to go on with, from this process or an      *)
(* earlier one, so what is resumed past its checkpoint is in progress; and *)
(* only a thread that has ended leaves a partial result.                   *)
MidRun(t) == checkpoint[t] \in {"input", "midway"}

ThreadInv ==
  /\ at = "begin" /\ ~resume => board[task] = "claimed"
  /\ at \in {"cloning", "running"} =>
       board[task] = "in_progress" /\ outcome[task] # "partial"
  /\ at = "report" /\ result = "partial" => outcome[task] = "partial"
  /\ \A t \in Tasks :
       /\ board[t] \in {"open", "claimed"} =>
            ~MidRun(t) /\ outcome[t] # "succeeded"
       /\ outcome[t] = "partial" => ~MidRun(t)

LEMMA ThreadInit == Init => ThreadInv
BY DEF Init, ThreadInv, MidRun

LEMMA ThreadStep ==
  TypeOK /\ HandInv /\ BoardInv /\ ThreadInv /\ [Next]_vars => ThreadInv'
<1>. SUFFICES ASSUME TypeOK, HandInv, BoardInv, ThreadInv, [Next]_vars
              PROVE  ThreadInv'
  OBVIOUS
<1>. USE DEF ThreadInv, MidRun, Goto, boardVars, lastingVars, handVars,
             processVars
<1>0. /\ board \in [Tasks -> {"open", "claimed", "in_progress",
                               "completed", "failed"}]
      /\ checkpoint \in [Tasks -> {"none", "input", "midway", "finished"}]
      /\ outcome \in [Tasks -> Outcomes \cup {"none"}]
      /\ InHand => task \in Tasks /\ board[task] \in {"claimed", "in_progress"}
      /\ InRun /\ ~resume => board[task] = "in_progress"
  BY DEF TypeOK, HandInv, BoardInv, RunsOnlyWhatItStarted, Held
<1>1. CASE \/ HeldAnswered \/ HeldFails \/ Stops \/ WaitsPaused \/ GoesOn
           \/ Resumes
  BY <1>1 DEF HeldAnswered, HeldFails, Stops, WaitsPaused, GoesOn, Resumes
<1>2. CASE Starts \/ \E t \in Tasks : Claims(t)
  BY <1>0, <1>2 DEF Starts, MarkStarted, Claims, Open, InHand
<1>3. CASE BoardEmpty \/ ClaimFails
  BY <1>0, <1>3 DEF BoardEmpty, ClaimFails, Loop, Open
<1>4. CASE StartFails
  BY <1>0, <1>4 DEF StartFails, MarkStarted, IssueOver, InHand
<1>5. CASE Reports \/ ReportLost
  <2>1. /\ board' = board \/ board' = [board EXCEPT ![task] = Settlement]
        /\ at = "report" /\ at' \in {"loop", "stopped"}
        /\ UNCHANGED <<checkpoint, outcome>>
    BY <1>5 DEF Reports, ReportLost, Settle, IssueOver
  <2>2. /\ Settlement \in {"open", "completed", "failed"}
        /\ Settlement = "open" => result = "partial"
    BY DEF Settlement
  <2>. QED BY <1>0, <2>1, <2>2 DEF InHand
<1>6. CASE RunRaises \/ RunStarts \/ RunClears \/ RunBootstraps
  BY <1>0, <1>6
     DEF RunRaises, RunStarts, RunClears, RunBootstraps, RunIsOver, Checkpoint,
         InHand, InRun
<1>7. CASE RunResumes \/ RunFindsResult
  BY <1>0, <1>7 DEF RunResumes, RunFindsResult, RunIsOver, InHand
<1>8. CASE RunFails
  BY <1>0, <1>8 DEF RunFails, RunIsOver, InHand
<1>9. CASE RunEnds \/ RunPauses
  <2>1. /\ at = "running" /\ board[task] = "in_progress" /\ task \in Tasks
        /\ at' \in {"report", "loop"} /\ UNCHANGED board
    BY <1>0, <1>9 DEF RunEnds, RunPauses, RunIsOver, Loop, InHand
  <2>2. \/ UNCHANGED <<checkpoint, outcome>> /\ at' = "loop"
        \/ \E res \in Outcomes :
             /\ outcome' = [outcome EXCEPT ![task] = res]
             /\ checkpoint' = [checkpoint EXCEPT ![task] =
                                 IF Checkpointing THEN "finished" ELSE "none"]
             /\ at' = "report" => result' = res
    BY <1>9 DEF RunEnds, RunPauses, RunIsOver, Loop, Finish, Checkpoint
  <2>3. CASE UNCHANGED <<checkpoint, outcome>> /\ at' = "loop"
    BY <2>1, <2>3
  <2>4. ASSUME NEW res \in Outcomes,
               outcome' = [outcome EXCEPT ![task] = res],
               checkpoint' = [checkpoint EXCEPT ![task] =
                                IF Checkpointing THEN "finished" ELSE "none"],
               at' = "report" => result' = res
        PROVE  ThreadInv'
    <3>1. /\ outcome'[task] = res
          /\ checkpoint'[task] \notin {"input", "midway"}
          /\ \A t \in Tasks \ {task} : /\ outcome'[t] = outcome[t]
                                      /\ checkpoint'[t] = checkpoint[t]
      BY <1>0, <2>1, <2>4
    <3>2. \A t \in Tasks : /\ board'[t] = board[t]
                           /\ board[t] \in {"open", "claimed"} => t # task
      BY <2>1
    <3>3. task' = task \/ at' # "report"
      BY <1>9 DEF RunEnds, RunPauses, RunIsOver, Loop
    <3>. QED BY <2>1, <2>4, <3>1, <3>2, <3>3
  <2>. QED BY <2>2, <2>3, <2>4
<1>10. CASE \/ WatcherSeesPause \/ StopRequested \/ TeamPaused
            \/ TeamUnpaused \/ UNCHANGED vars
  BY <1>10 DEF WatcherSeesPause, StopRequested, TeamPaused, TeamUnpaused,
       loopVars, vars
<1>11. CASE Restarts
  BY <1>11 DEF Restarts
<1>. QED
  BY <1>1, <1>2, <1>3, <1>4, <1>5, <1>6, <1>7, <1>8, <1>9, <1>10, <1>11
     DEF Next, Process, Stopped

LEMMA ThreadInvariant == Spec => [](TypeOK /\ HandInv /\ BoardInv /\ ThreadInv)
BY HandInit, BoardInit, ThreadInit, HandStep, BoardStep, ThreadStep, PTL DEF Spec

LEMMA BoardStarts == Init => Board!Init
BY DEF Init, Board!Init

(* Every step is one of the contract's: the task in hand goes on, or, where *)
(* the loop claims, one is taken.                                           *)
LEMMA ContractStep ==
  ASSUME TypeOK, HandInv, BoardInv, ThreadInv, [Next]_vars
  PROVE  \/ UNCHANGED <<board, outcome>>
         \/ \E t \in Tasks : Board!Works(t)
         \/ at = "claim" /\ \E t \in Tasks : Board!Take(t)
<1>. USE DEF boardVars, lastingVars, Board!Moves, Board!Judged
<1>0. InHand => /\ task \in Tasks
                /\ board[task] \in {"claimed", "in_progress"}
  BY DEF HandInv, BoardInv, Held
<1>1. CASE \/ HeldAnswered \/ HeldFails \/ Stops \/ WaitsPaused \/ GoesOn
           \/ Resumes \/ BoardEmpty \/ RunRaises \/ RunClears
           \/ RunBootstraps \/ RunResumes \/ RunFindsResult
  BY <1>1 DEF HeldAnswered, HeldFails, Stops, WaitsPaused, GoesOn, Resumes,
       BoardEmpty, RunRaises, RunClears, RunBootstraps, RunResumes,
       RunFindsResult
<1>2. CASE ClaimFails \/ \E t \in Tasks : Claims(t)
  BY <1>2 DEF ClaimFails, Claims, Open, Board!Take
<1>3. CASE Starts \/ StartFails
  <2>1. task \in Tasks /\ board[task] = "claimed"
    BY <1>0, <1>3 DEF Starts, StartFails, InHand, ThreadInv
  <2>2. UNCHANGED <<board, outcome>> \/ Board!Start(task)
    BY <1>3, <2>1 DEF Starts, StartFails, MarkStarted, Board!Start
  <2>. QED BY <2>1, <2>2 DEF Board!Works
<1>4. CASE RunStarts
  <2>1. task \in Tasks /\ board[task] = "in_progress"
    BY <1>0, <1>4 DEF RunStarts, InHand, InRun, BoardInv, RunsOnlyWhatItStarted
  <2>2. Board!Run(task)
    BY <1>4, <2>1 DEF RunStarts, Board!Run
  <2>. QED BY <2>1, <2>2 DEF Board!Works
<1>5. CASE RunFails
  <2>1. task \in Tasks /\ board[task] \in {"claimed", "in_progress"}
    BY <1>0, <1>5 DEF RunFails, NothingToResume, InHand
  <2>2. Board!Run(task) \/ Board!GiveUp(task)
    BY <1>5, <2>1 DEF RunFails, Board!Run, Board!GiveUp
  <2>. QED BY <2>1, <2>2 DEF Board!Works
<1>6. CASE RunEnds \/ RunPauses
  <2>1. task \in Tasks /\ board[task] = "in_progress"
    BY <1>0, <1>6 DEF RunEnds, RunPauses, InHand, ThreadInv
  <2>2. UNCHANGED <<board, outcome>> \/ Board!Run(task)
    BY <1>6, <2>1 DEF RunEnds, RunPauses, Finish, Outcomes, Board!Run
  <2>. QED BY <2>1, <2>2 DEF Board!Works
<1>7. CASE Reports \/ ReportLost
  <2>1. /\ task \in Tasks /\ board[task] \in {"claimed", "in_progress"}
        /\ result = "succeeded" => outcome[task] = "succeeded"
        /\ result = "partial" => outcome[task] = "partial"
        /\ outcome[task] = "succeeded" => board[task] = "in_progress"
    BY <1>0, <1>7 DEF Reports, ReportLost, InHand, BoardInv, ThreadInv
  <2>2. \/ UNCHANGED <<board, outcome>>
        \/ Board!Complete(task) \/ Board!Escalate(task) \/ Board!Fail(task)
    BY <1>7, <2>1 DEF Reports, ReportLost, Settle, Settlement,
         Board!Complete, Board!Escalate, Board!Fail
  <2>. QED BY <2>1, <2>2 DEF Board!Works
<1>8. CASE \/ WatcherSeesPause \/ StopRequested \/ TeamPaused \/ TeamUnpaused
           \/ Restarts \/ UNCHANGED vars
  BY <1>8 DEF WatcherSeesPause, StopRequested, TeamPaused, TeamUnpaused,
       Restarts, vars
<1>. QED
  BY <1>1, <1>2, <1>3, <1>4, <1>5, <1>6, <1>7, <1>8 DEF Next, Process, Stopped

\* Whatever calls fail or lose their answers, and however often the process is
\* killed, the team keeps the board's contract: tasks are taken, started, run
\* and settled in that order, and settled by what their last run came to.
THEOREM BoardContractKept == Spec => KeepsBoard
<1>1. TypeOK /\ HandInv /\ BoardInv /\ ThreadInv /\ [Next]_vars =>
        [Board!Next]_(Board!contractVars)
  BY ContractStep DEF Board!Next, Board!contractVars
<1>. QED
  BY <1>1, BoardStarts, ThreadInvariant, PTL DEF Spec, KeepsBoard, Board!Spec

\* ... and when no call but team_state fails it works on one task at a time: a
\* task is taken only while none is held, pauses and restarts included.
THEOREM WorksAlone == CallsAnswer => (Spec => KeepsBoardAlone)
<1>. SUFFICES ASSUME CallsAnswer PROVE Spec => KeepsBoardAlone
  OBVIOUS
<1>1. ASSUME TypeOK, HandInv, HeldInv, at = "claim" PROVE Board!HoldsNone
  BY <1>1, NoTaskAssumption DEF HandInv, HeldInv, InHand, Held, Board!HoldsNone
<1>2. /\ TypeOK /\ HandInv /\ BoardInv /\ ThreadInv /\ HeldInv
      /\ [Next]_vars
      => [Board!NextAlone]_(Board!contractVars)
  BY <1>1, ContractStep DEF Board!NextAlone, Board!contractVars
<1>. QED
  BY <1>2, BoardStarts, ThreadInvariant, HeldInvariant, PTL
     DEF Spec, KeepsBoardAlone, Board!SpecAlone
=============================================================================
