------------------------------ MODULE TaskRuns ------------------------------
(***************************************************************************)
(* The runs of one task, one after another, and what they publish.         *)
(*                                                                         *)
(* A run that ends partial is escalated, which "puts it back on the board" *)
(* (loop.py); claimed again, the task is run again on the checkpoint       *)
(* thread its id names.  LangGraph maps the new input onto the state that  *)
(* thread already holds, and bootstrap resets only the status and the two  *)
(* counters: plan, results, record of merges, conflicts and test reports   *)
(* of the run before are all still there, while clone starts from nothing. *)
(* The new plan may name its work items as the old one did, or otherwise:  *)
(* a dev branch is named by index, so an old result may name a branch this *)
(* clone does not have, or one that now is another work item's.            *)
(*                                                                         *)
(* deliver is modelled down to its strategies: what the remote accepts,    *)
(* what the forge answers, and what a crash between the two leaves.        *)
(***************************************************************************)
EXTENDS TeamGraph

CONSTANTS
  Strategies,   \* payload.delivery: some of "local", "push" and "pr"
  MaxRuns       \* bound: how often the task is run

ASSUME StrategiesAssumption == Strategies \subseteq {"local", "push", "pr"}
ASSUME MaxRunsAssumption    == MaxRuns \in Nat \ {0}

VARIABLES
  run,        \* which run of the task this is
  planned,    \* the plan the thread's last checkpoint holds
  strategy,   \* payload.delivery
  remote,     \* the work branch on the remote: whose history, and what
  requests,   \* pull requests open on the forge
  opening     \* deliver: pushed, the pull request not yet answered for

runVars  == <<run, planned, strategy, remote, requests, opening>>
taskVars == <<vars, runVars>>

NotPushed == [run |-> 0, contents |-> {}]

\* One type invariant for the task: the run's own, and what is around it.
TaskTypeOK ==
  /\ TypeOK
  /\ run \in 1..MaxRuns
  /\ planned \in PlanType \cup {NoPlan}
  /\ strategy \in Strategies
  /\ remote \in [run : 0..run, contents : SUBSET Content]
  /\ requests \in Nat
  /\ opening \in BOOLEAN

TaskInit ==
  /\ Init
  /\ run = 1 /\ planned = NoPlan
  /\ strategy \in Strategies
  /\ remote = NotPushed /\ requests = 0 /\ opening = FALSE

-----------------------------------------------------------------------------
(* deliver.  The push is not forced: the remote takes the branch if it     *)
(* does not have it, or has an ancestor of it -- the base branch, or this  *)
(* run's own earlier push.  The history of another run is no ancestor.     *)
Pushed == [run |-> run, contents |-> work]

FastForward ==
  \/ remote = NotPushed
  \/ remote.contents = {}
  \/ remote.run = run /\ remote.contents \subseteq work

Delivered(how) ==
  /\ delivery' = how
  /\ stage' = "report"
  /\ opening' = FALSE
  /\ Superstep

DeliverFrame ==
  UNCHANGED <<gitVars, plan, latest, earlier, merged, conflicts, conflictRound,
              repairRound, test, status, localVars, interrupts,
              run, planned, strategy>>

DeliverLocally ==
  /\ stage = "deliver" /\ strategy = "local"
  /\ Delivered("ok")
  /\ UNCHANGED <<remote, requests>> /\ DeliverFrame

ToPush == stage = "deliver" /\ strategy \in {"push", "pr"} /\ ~opening

PushSucceeds ==
  /\ ToPush /\ FastForward
  /\ remote' = Pushed
  /\ \/ strategy = "push" /\ Delivered("ok")
     \/ strategy = "pr" /\ opening' = TRUE /\ UNCHANGED <<delivery, stage, steps>>
  /\ UNCHANGED requests /\ DeliverFrame

\* Bugs for the checks: a failed push is tried again until it succeeds; the
\* pull request is opened all the same.
PushFails_Retried ==
  /\ ToPush
  /\ \/ UNCHANGED remote
     \/ FastForward /\ remote' = Pushed
  /\ UNCHANGED <<delivery, stage, opening, steps>>
  /\ UNCHANGED requests /\ DeliverFrame

PushFails_GoesOn ==
  /\ ToPush
  /\ UNCHANGED remote
  /\ \/ strategy = "push" /\ Delivered("error")
     \/ strategy = "pr" /\ opening' = TRUE /\ UNCHANGED <<delivery, stage, steps>>
  /\ UNCHANGED requests /\ DeliverFrame

\* A bug for the checks: the error is not caught.
PushFails_Raises ==
  /\ ToPush
  /\ UNCHANGED gitVars /\ Raise
  /\ UNCHANGED runVars

\* Rejected, or the remote out of reach -- before or after it took the push.
PushFails ==
  /\ ToPush
  /\ \/ UNCHANGED remote
     \/ FastForward /\ remote' = Pushed
  /\ Delivered("error")
  /\ UNCHANGED requests /\ DeliverFrame

\* The forge opens the pull request; its answer may be lost.
RequestOpened ==
  /\ stage = "deliver" /\ opening
  /\ requests' = requests + 1
  /\ \E how \in {"ok", "error"} : Delivered(how)
  /\ UNCHANGED remote /\ DeliverFrame

RequestFails ==
  /\ stage = "deliver" /\ opening
  /\ Delivered("error")
  /\ UNCHANGED <<remote, requests>> /\ DeliverFrame

DeliverByStrategy ==
  DeliverLocally \/ PushSucceeds \/ PushFails \/ RequestOpened \/ RequestFails

-----------------------------------------------------------------------------
(* Nodes that act on what an earlier run left in the state.                *)

\* The architect failed, but the state still has the earlier run's plan:
\* fan_out sends its devs, none of whom has a worktree.
ArchitectFailsOnOldPlan ==
  /\ stage = "architect" /\ plan # NoPlan
  /\ Send(PlanIndex)
  /\ Superstep
  /\ UNCHANGED <<gitVars, plan, latest, earlier, merged, conflicts,
                 conflictRound, repairRound, test, delivery, status, created,
                 integrateVars, interrupts, runVars>>

\* A bug for the checks: a branch that is not there counts as merged.
IntegrateMissing_AsMerged(w) ==
  /\ stage = "integrate" /\ ~merging
  /\ IsNext(w) /\ latest[w].branch \notin branches
  /\ handled' = handled \cup {w}
  /\ UNCHANGED <<stopped, aborting, gitVars, runVars>> /\ IntegrateFrame

\* A result of the earlier run whose branch this clone does not have: git
\* finds nothing to merge, and the failure counts as a conflict.
IntegrateMissing(w) ==
  /\ stage = "integrate" /\ ~merging
  /\ IsNext(w) /\ latest[w].branch \notin branches
  /\ handled' = handled \cup {w}
  /\ stopped' = stopped \cup {w}
  /\ UNCHANGED <<aborting, gitVars, runVars>> /\ IntegrateFrame

\* The checkpoint that ends the architect's superstep holds its plan.
FanOutSaved == FanOut /\ planned' = plan /\ UNCHANGED <<run, strategy, remote,
                                                        requests, opening>>

AsBefore ==
  \/ Bootstrap \/ BootstrapFails
  \/ plan = NoPlan /\ ArchitectFails
  \/ ArchitectPlans
  \/ \E i \in Index : ArchitectCreates(i) \/ ArchitectRaises(i) \/ Dev(i)
  \/ Join
  \/ \E w \in AllItems : /\ latest[w].branch \in branches
                         /\ IntegrateMerges(w) \/ IntegrateConflicts(w)
  \/ IntegrateAborts \/ IntegrateRaises \/ IntegrateReports
  \/ TesterCommits \/ TesterReports
  \/ Report

RunNode ==
  \/ AsBefore /\ UNCHANGED runVars
  \/ ArchitectFailsOnOldPlan \/ FanOutSaved
  \/ \E w \in AllItems : IntegrateMissing(w)
  \/ DeliverByStrategy

-----------------------------------------------------------------------------
RunInterrupted ==
  /\ InterruptAndResumeWith(planned)
  /\ opening' = FALSE
  /\ UNCHANGED <<run, planned, strategy, remote, requests>>

RunLateWrites == LateWrites /\ UNCHANGED runVars

\* The escalated task is claimed again: run_team with an input, a fresh
\* manager that adopts nothing, the thread's state as it was.
RunAgain ==
  /\ stage = "end" /\ status = "partial" /\ run < MaxRuns
  /\ run' = run + 1
  /\ stage' = "bootstrap" /\ steps' = 0 /\ adopted' = {}
  /\ UNCHANGED <<cloneVars, branches, trees, devVars, plan, latest, earlier,
                 merged, conflicts, conflictRound, repairRound, test,
                 delivery, status, localVars, interrupts, planned, strategy,
                 remote, requests, opening>>

TaskEnded == stage \in {"end", "raised"} /\ UNCHANGED taskVars

TaskNext == RunNode \/ RunInterrupted \/ RunLateWrites \/ RunAgain \/ TaskEnded

TaskSpec     == TaskInit /\ [][TaskNext]_taskVars
FairTaskSpec == TaskSpec /\ WF_taskVars(RunNode)

-----------------------------------------------------------------------------
(* Properties.                                                             *)

\* A status of succeeded -- the CLI's exit code 0, the worker's complete --
\* is never about an earlier run: it is this run's branch that its last test
\* pass was green on, that the remote has and that a pull request is open for.
SucceededIsPublished ==
  stage = "end" /\ status = "succeeded" =>
    /\ TestedGreen
    /\ strategy # "local" => remote = Pushed
    /\ strategy = "pr" => requests > 0

\* An earlier run's results are merged again by the names of their branches.
\* One whose branch this run's clone does not have is never taken for merged:
\* its work item is among the conflicts, which make the run partial.  (One
\* whose name a branch of this run bears is merged as that branch, whatever is
\* on it now, and all of that is on the work branch or among the conflicts.)
MissingBranchesAreReported ==
  stage \in {"tester_final", "testing", "deliver", "report", "end"} =>
    \A w \in ToMerge :
      w \notin conflicts =>
        /\ latest[w].branch \in branches
        /\ branch[latest[w].branch] \subseteq work

\* Every pull request is for a branch that was pushed, and a task has at most
\* one per run and one per interruption of deliver, however often a push or an
\* answer was lost.
RequestsAreBacked ==
  /\ requests > 0 => remote # NotPushed
  /\ requests <= run + interrupts

\* docs/PROTOCOL.md, failed: "No usable branch was produced."  A run that came
\* to its end and is failed has nothing of a dev or of the scaffolding pass on
\* its branch: not in the first run of the task, not in a later one that found
\* results and a record of merges of the one before, and not after a crash
\* between a merge and its report.  (One that raised is failed in any case.)
FailedMeansNothingLanded ==
  stage = "end" /\ status = "failed" => OnWorkBranch = {}

\* Up to the end of the first run, all this is TeamGraph: the strategies are
\* one way to deliver, and no node meets anything an earlier run left.
FirstRunIsTeamGraph == Init /\ [][run' = 1 => Next]_vars

\* Every run of the task ends, the later ones too.
EachRunEnds == []<>(stage \in {"end", "raised"})

\* docs/PROTOCOL.md, succeeded: "Work landed on the branch, the final test
\* pass was green, and delivery completed."
SucceededMeansLanded ==
  stage = "end" /\ status = "succeeded" => OnWorkBranch # {}
=============================================================================
