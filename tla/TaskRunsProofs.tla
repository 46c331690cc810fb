--------------------------- MODULE TaskRunsProofs ---------------------------
(* What holds of the runs of a task for every number of devs, plans,       *)
(* budgets, interruptions and runs, whatever the remote and the forge do.  *)
EXTENDS TaskRuns, TeamGraphProofs

USE DEF ItemId, DependsOn

-----------------------------------------------------------------------------
(* Type correctness.                                                       *)

LEMMA DeliveryTypes ==
  ASSUME TaskTypeOK, DeliverByStrategy
  PROVE  TaskTypeOK'
<1>1. GitTypeOK'
  BY GitUnchangedTypes
     DEF TaskTypeOK, TypeOK, DeliverByStrategy, DeliverFrame, DeliverLocally,
         PushSucceeds, PushFails, RequestOpened, RequestFails
<1>2. /\ stage' \in Stages /\ steps' \in Nat
      /\ delivery' \in {"none", "ok", "error"}
      /\ requests' \in Nat
  <2>0. /\ stage \in Stages /\ steps \in Nat /\ requests \in Nat
        /\ delivery \in {"none", "ok", "error"}
    BY DEF TaskTypeOK, TypeOK
  <2>1. /\ stage' \in {stage, "report"} /\ steps' \in {steps, steps + 1}
        /\ delivery' \in {delivery, "ok", "error"}
        /\ requests' \in {requests, requests + 1}
    BY DEF DeliverByStrategy, Delivered, Superstep, DeliverLocally,
           PushSucceeds, PushFails, RequestOpened, RequestFails
  <2>. QED BY <2>0, <2>1 DEF Stages
<1>7. opening' \in BOOLEAN
  BY DEF DeliverByStrategy, Delivered, DeliverLocally, PushSucceeds, PushFails,
         RequestOpened, RequestFails
<1>3. UNCHANGED <<plan, latest, earlier, merged, conflicts, conflictRound,
                  repairRound, test, status, created, phase, returned, handled,
                  stopped, aborting, interrupts, run, planned, strategy>>
  BY DEF DeliverByStrategy, DeliverFrame, DeliverLocally, PushSucceeds,
         PushFails, RequestOpened, RequestFails, localVars, devNodeVars,
         integrateVars
<1>4. remote' \in {remote, Pushed}
  BY DEF DeliverByStrategy, DeliverLocally, PushSucceeds, PushFails,
         RequestOpened, RequestFails
<1>5. Pushed \in [run : 0..run, contents : SUBSET Content]
  BY MaxRunsAssumption DEF Pushed, TaskTypeOK, TypeOK, GitTypeOK
<1>6. remote' \in [run : 0..run', contents : SUBSET Content]
  BY <1>3, <1>4, <1>5 DEF TaskTypeOK
<1>. QED
  BY <1>1, <1>2, <1>3, <1>6, <1>7 DEF TaskTypeOK, TypeOK

LEMMA AsBeforeTypes == TypeOK /\ AsBefore => TypeOK'
BY StartTypes, ArchitectTypes, DevTypes, JoinTypes, IntegrateTypes,
   IntegrateEndTypes, TesterTypes, DeliverTypes DEF AsBefore

LEMMA OldPlanTypes == TypeOK /\ ArchitectFailsOnOldPlan => TypeOK'
<1>. SUFFICES ASSUME TypeOK, ArchitectFailsOnOldPlan PROVE TypeOK'
  OBVIOUS
<1>1. GitTypeOK'
  BY GitUnchangedTypes DEF ArchitectFailsOnOldPlan, TypeOK
<1>2. /\ stage' \in Stages /\ steps' \in Nat
      /\ phase' \in [Index -> Phases] /\ returned' \in [Index -> DevResult]
  BY DevResultTypes
     DEF ArchitectFailsOnOldPlan, Send, Superstep, NothingReturned, Phases,
         Stages, TypeOK
<1>. QED
  BY <1>1, <1>2 DEF ArchitectFailsOnOldPlan, integrateVars, TypeOK

LEMMA MissingTypes ==
  ASSUME TypeOK, NEW w \in AllItems, IntegrateMissing(w)
  PROVE  TypeOK'
<1>1. GitTypeOK'
  BY GitUnchangedTypes DEF IntegrateMissing, TypeOK
<1>. QED
  BY <1>1
     DEF IntegrateMissing, IntegrateFrame, checkpointVars, devNodeVars, TypeOK

LEMMA RunAgainTypes == TypeOK /\ RunAgain => TypeOK'
<1>. SUFFICES ASSUME TypeOK, RunAgain PROVE TypeOK'
  OBVIOUS
<1>1. GitTypeOK'
  BY DEF RunAgain, TypeOK, GitTypeOK, cloneVars, devVars, rebaseVars
<1>. QED
  BY <1>1
     DEF RunAgain, TypeOK, Stages, localVars, devNodeVars, integrateVars

LEMMA TaskStepTypes == TaskTypeOK /\ [TaskNext]_taskVars => TaskTypeOK'
<1>. SUFFICES ASSUME TaskTypeOK, [TaskNext]_taskVars PROVE TaskTypeOK'
  OBVIOUS
<1>0. TypeOK /\ planned \in PlanType \cup {NoPlan}
  BY DEF TaskTypeOK
<1>1. CASE AsBefore /\ UNCHANGED runVars
  BY <1>0, <1>1, AsBeforeTypes DEF TaskTypeOK, runVars
<1>2. CASE ArchitectFailsOnOldPlan
  BY <1>0, <1>2, OldPlanTypes DEF TaskTypeOK, runVars, ArchitectFailsOnOldPlan
<1>3. CASE FanOutSaved
  <2>1. TypeOK'
    BY <1>0, <1>3, StartTypes DEF FanOutSaved
  <2>. QED
    BY <1>0, <1>3, <2>1 DEF FanOutSaved, TaskTypeOK, TypeOK
<1>4. ASSUME NEW w \in AllItems, IntegrateMissing(w) PROVE TaskTypeOK'
  BY <1>0, <1>4, MissingTypes DEF TaskTypeOK, runVars, IntegrateMissing
<1>5. CASE DeliverByStrategy
  BY <1>5, DeliveryTypes
<1>6. CASE RunInterrupted
  BY <1>0, <1>6, InterruptTypes DEF RunInterrupted, TaskTypeOK
<1>7. CASE RunLateWrites
  <2>1. TypeOK'
    BY <1>0, <1>7, StepTypes DEF RunLateWrites, Next
  <2>. QED BY <1>7, <2>1 DEF RunLateWrites, TaskTypeOK, runVars
<1>8. CASE RunAgain
  <2>1. TypeOK'
    BY <1>0, <1>8, RunAgainTypes
  <2>. QED BY <1>8, <2>1, MaxRunsAssumption DEF RunAgain, TaskTypeOK
<1>9. CASE UNCHANGED taskVars
  <2>1. TypeOK'
    BY <1>0, <1>9, StepTypes DEF taskVars
  <2>. QED BY <1>9, <2>1 DEF taskVars, runVars, TaskTypeOK
<1>. QED
  BY <1>1, <1>2, <1>3, <1>4, <1>5, <1>6, <1>7, <1>8, <1>9
     DEF TaskNext, RunNode, TaskEnded

LEMMA TaskInitTypes == TaskInit => TaskTypeOK
<1>. SUFFICES ASSUME TaskInit PROVE TaskTypeOK
  OBVIOUS
<1>1. TypeOK
  BY InitTypes DEF TaskInit
<1>2. NotPushed \in [run : 0..1, contents : SUBSET Content]
  BY DEF NotPushed
<1>3. run \in 1..MaxRuns /\ requests \in Nat
  BY MaxRunsAssumption DEF TaskInit
<1>4. opening \in BOOLEAN
  BY DEF TaskInit
<1>. QED
  BY <1>1, <1>2, <1>3, <1>4 DEF TaskInit, TaskTypeOK

\* Every variable of the task keeps its type, from run to run.
THEOREM TaskTypes == TaskSpec => []TaskTypeOK
BY TaskInitTypes, TaskStepTypes, PTL DEF TaskSpec

-----------------------------------------------------------------------------
(* A step that is as it was in TeamGraph is a step of TeamGraph; how it    *)
(* moves the last stages of a run.                                         *)

LEMMA AsBeforeIsNext == AsBefore => Next
BY DEF AsBefore, Next, Node

LEMMA AsBeforeStages ==
  ASSUME AsBefore
  PROVE  /\ interrupts' = interrupts
         /\ stage = "deliver" => stage' = "deliver" /\ work' = work
         /\ stage \in {"report", "end", "raised"} =>
              stage' \in {"report", "end", "raised"}
         /\ stage' = "report" =>
              stage = "report" /\ UNCHANGED <<work, delivery>>
         /\ stage' = "end" =>
              \/ stage = "report" /\ work' = work /\ status' = FinalStatus
              \/ stage = "architect" /\ status' = status
              \/ stage = "end" /\ UNCHANGED <<work, status>>
<1>. USE DEF gitVars, cloneVars, checkpointVars
<1>1. CASE \/ Bootstrap \/ BootstrapFails \/ ArchitectFails \/ ArchitectPlans
           \/ \E i \in Index : ArchitectCreates(i) \/ ArchitectRaises(i)
  BY <1>1 DEF Bootstrap, BootstrapFails, ArchitectFails, ArchitectPlans,
       ArchitectCreates, ArchitectRaises, Raise
<1>2. CASE \E i \in Index : Dev(i)
  <2>1. UNCHANGED <<stage, work, delivery, status, interrupts>>
    BY <1>2 DEF Dev, DevHasNoWorktree, DevStarts, DevRetries, AgentFails,
         AgentSucceeds, DevGivesUp, DevResolves, DevCommits, DevReturns,
         DevFrame, AgentEdits, CommitAll, ContinueGivesUp, RebaseAbort,
         ContinueSucceeds, BeginRebaseEmpty, BeginRebaseConflicts,
         RebaseReplays, RebaseRefused, RebaseStops, RebaseAlreadyOpen
  <2>. QED BY <2>1
<1>3. CASE \/ Join \/ IntegrateAborts \/ IntegrateRaises \/ IntegrateReports
           \/ \E w \in AllItems : IntegrateMerges(w) \/ IntegrateConflicts(w)
  BY <1>3 DEF Join, IntegrateAborts, IntegrateRaises, IntegrateReports,
       IntegrateMerges, IntegrateConflicts, IntegrateFrame, Raise, Send
<1>4. CASE TesterCommits \/ TesterReports
  BY <1>4 DEF TesterCommits, TesterReports, Send
<1>5. CASE Report
  BY <1>5 DEF Report, Cleanup
<1>. QED BY <1>1, <1>2, <1>3, <1>4, <1>5 DEF AsBefore

-----------------------------------------------------------------------------
(* Pull requests.  A run asks for one only after its push, and once per    *)
(* pass of deliver, which only an interruption repeats.                    *)
Settled == {"report", "end", "raised"}

RequestsInv ==
  /\ opening => stage = "deliver" /\ strategy = "pr" /\ remote = Pushed
  /\ requests > 0 => remote # NotPushed
  /\ requests <= (run - 1) + interrupts
                   + (IF stage \in Settled THEN 1 ELSE 0)

LEMMA PushedIsNot == run \in 1..MaxRuns => Pushed # NotPushed
BY MaxRunsAssumption DEF Pushed, NotPushed

LEMMA RequestsStep ==
  TaskTypeOK /\ RequestsInv /\ [TaskNext]_taskVars => RequestsInv'
<1>. SUFFICES ASSUME TaskTypeOK, RequestsInv, [TaskNext]_taskVars
              PROVE  RequestsInv'
  OBVIOUS
<1>0. /\ requests \in Nat /\ run \in Nat /\ interrupts \in Nat
      /\ Pushed # NotPushed
  BY PushedIsNot, MaxRunsAssumption, BudgetsAssumption DEF TaskTypeOK, TypeOK
<1>1. CASE AsBefore /\ UNCHANGED runVars
  <2>1. /\ interrupts' = interrupts
        /\ stage = "deliver" => stage' = "deliver" /\ work' = work
        /\ stage \in Settled => stage' \in Settled
    BY <1>1, AsBeforeStages DEF Settled
  <2>. QED BY <1>0, <1>1, <2>1 DEF RequestsInv, runVars, Pushed
<1>2. CASE \/ ArchitectFailsOnOldPlan \/ FanOutSaved
           \/ \E w \in AllItems : IntegrateMissing(w)
  <2>1. /\ stage \in {"architect", "worktrees", "integrate"}
        /\ UNCHANGED <<run, strategy, remote, requests, opening, interrupts>>
    BY <1>2 DEF ArchitectFailsOnOldPlan, FanOutSaved, FanOut,
         IntegrateMissing, IntegrateFrame, runVars
  <2>2. ~opening /\ stage \notin Settled
    BY <2>1 DEF RequestsInv, Settled
  <2>. QED BY <1>0, <2>1, <2>2 DEF RequestsInv
<1>3. CASE DeliverByStrategy
  <2>1. UNCHANGED <<run, strategy, work, interrupts>> /\ stage = "deliver"
    BY <1>3
       DEF DeliverByStrategy, DeliverFrame, DeliverLocally, PushSucceeds,
           PushFails, RequestOpened, RequestFails, ToPush, gitVars, cloneVars
  <2>2. Pushed' = Pushed /\ "deliver" \notin Settled /\ "report" \in Settled
    BY <2>1 DEF Pushed, Settled
  <2>3. CASE DeliverLocally \/ PushFails \/ RequestFails
    <3>1. /\ stage' = "report" /\ requests' = requests /\ opening' = FALSE
          /\ remote' \in {remote, Pushed}
      BY <2>3 DEF DeliverLocally, PushFails, RequestFails, Delivered
    <3>. QED BY <1>0, <2>1, <2>2, <3>1 DEF RequestsInv
  <2>4. CASE PushSucceeds
    <3>1. /\ remote' = Pushed /\ requests' = requests
          /\ \/ stage' = "report" /\ opening' = FALSE
             \/ stage' = "deliver" /\ strategy = "pr"
      BY <2>1, <2>4 DEF PushSucceeds, Delivered
    <3>. QED BY <1>0, <2>1, <2>2, <3>1 DEF RequestsInv
  <2>5. CASE RequestOpened
    <3>1. /\ opening /\ opening' = FALSE /\ stage' = "report"
          /\ remote' = remote
      BY <2>5 DEF RequestOpened, Delivered
    <3>2. requests' = requests + 1
      BY <2>5 DEF RequestOpened
    <3>. QED BY <1>0, <2>1, <2>2, <3>1, <3>2 DEF RequestsInv
  <2>. QED BY <1>3, <2>3, <2>4, <2>5 DEF DeliverByStrategy
<1>4. CASE RunInterrupted
  <2>1. /\ opening' = FALSE /\ UNCHANGED <<run, remote, requests>>
        /\ stage \in Settled => stage' \in Settled
    BY <1>4 DEF RunInterrupted, InterruptAndResumeWith, ResumesAt, Settled
  <2>2. interrupts' = interrupts + 1
    BY <1>4 DEF RunInterrupted, InterruptAndResumeWith
  <2>. QED BY <1>0, <2>1, <2>2 DEF RequestsInv
<1>5. CASE RunAgain
  <2>1. /\ stage = "end" /\ stage' = "bootstrap" /\ run' = run + 1
        /\ UNCHANGED <<interrupts, strategy, remote, requests, opening>>
    BY <1>5 DEF RunAgain
  <2>2. ~opening /\ "bootstrap" \notin Settled
    BY <2>1 DEF RequestsInv, Settled
  <2>. QED BY <1>0, <2>1, <2>2 DEF RequestsInv
<1>6. CASE RunLateWrites \/ UNCHANGED taskVars
  BY <1>6 DEF RunLateWrites, LateWrites, TestCommandLeaves, taskVars, vars,
       runVars, gitVars, cloneVars, checkpointVars, RequestsInv, Pushed
<1>. QED
  BY <1>1, <1>2, <1>3, <1>4, <1>5, <1>6 DEF TaskNext, RunNode, TaskEnded

\* Whatever is lost or interrupted, a pull request is only ever opened for a
\* pushed branch, at most once per run and per interruption.
THEOREM RequestsBacked == TaskSpec => []RequestsAreBacked
<1>1. TaskInit => RequestsInv
  BY DEF TaskInit, Init, RequestsInv
<1>2. TaskTypeOK /\ RequestsInv /\ [TaskNext]_taskVars => RequestsInv'
  BY RequestsStep
<1>3. TaskTypeOK /\ RequestsInv => RequestsAreBacked
  BY MaxRunsAssumption, BudgetsAssumption
     DEF RequestsInv, RequestsAreBacked, TaskTypeOK, TypeOK
<1>. QED BY <1>1, <1>2, <1>3, TaskTypes, PTL DEF TaskSpec

-----------------------------------------------------------------------------
(* Publication and status.  What deliver reported is about this run's work *)
(* branch, which nothing changes between the push and the report; and a    *)
(* run that starts over starts from a status other than succeeded.         *)
PublishedHere ==
  /\ strategy # "local" => remote = Pushed
  /\ strategy = "pr" => requests > 0

PublishedInv ==
  /\ stage = "report" => delivery \in {"ok", "error"}
  /\ stage = "report" /\ delivery = "ok" => PublishedHere
  /\ stage = "end" /\ status = "succeeded" => PublishedHere

LEMMA TaskTestedStep ==
  ASSUME TypeOK, TestedInv, [TaskNext]_taskVars
  PROVE  TestedInv'
<1>1. CASE [Next]_vars
  BY <1>1, TestedStep
<1>2. CASE ArchitectFailsOnOldPlan \/ RunAgain
  <2>1. /\ stage' \in {"devs", "bootstrap"} /\ status' = status
        /\ status # "succeeded"
    BY <1>2 DEF ArchitectFailsOnOldPlan, Send, RunAgain, TestedInv
  <2>. QED BY <2>1 DEF TestedInv, SucceededMeansTested
<1>3. CASE \E w \in AllItems : IntegrateMissing(w)
  BY <1>3 DEF IntegrateMissing, IntegrateFrame, gitVars, cloneVars,
       checkpointVars, TestedInv, SucceededMeansTested, TestedGreen
<1>4. CASE DeliverByStrategy
  <2>1. /\ UNCHANGED <<test, work, status, repairRound>>
        /\ stage = "deliver" /\ stage' \in {"deliver", "report"}
    BY <1>4
       DEF DeliverByStrategy, DeliverFrame, Delivered, DeliverLocally,
           PushSucceeds, PushFails, RequestOpened, RequestFails, ToPush,
           gitVars, cloneVars
  <2>. QED BY <2>1 DEF TestedInv, SucceededMeansTested, TestedGreen
<1>5. CASE RunInterrupted
  BY <1>5 DEF RunInterrupted, InterruptAndResumeWith, AdoptExisting, ResumesAt,
       gitVars, cloneVars, TestedInv, SucceededMeansTested, TestedGreen
<1>. QED
  BY <1>1, <1>2, <1>3, <1>4, <1>5, AsBeforeIsNext
     DEF TaskNext, RunNode, TaskEnded, FanOutSaved, RunLateWrites, Next, Node,
         taskVars

LEMMA PublishedStep ==
  ASSUME TaskTypeOK, TestedInv, RequestsInv, PublishedInv,
         [TaskNext]_taskVars
  PROVE  PublishedInv'
<1>. USE DEF PublishedInv, PublishedHere, Pushed
<1>1. CASE AsBefore /\ UNCHANGED runVars
  <2>1. /\ stage' = "report" =>
             stage = "report" /\ UNCHANGED <<work, delivery>>
        /\ stage' = "end" =>
             \/ stage = "report" /\ work' = work /\ status' = FinalStatus
             \/ stage = "architect" /\ status' = status
             \/ stage = "end" /\ UNCHANGED <<work, status>>
    BY <1>1, AsBeforeStages
  <2>2. FinalStatus = "succeeded" => delivery # "error"
    BY DEF FinalStatus, FellShort
  <2>3. stage = "architect" => status # "succeeded"
    BY DEF TestedInv
  <2>. QED BY <1>1, <2>1, <2>2, <2>3 DEF runVars
<1>2. CASE \/ ArchitectFailsOnOldPlan \/ FanOutSaved \/ RunAgain
           \/ \E w \in AllItems : IntegrateMissing(w)
  <2>1. stage' \notin {"report", "end"}
    BY <1>2 DEF ArchitectFailsOnOldPlan, FanOutSaved, FanOut, Send, RunAgain,
         IntegrateMissing, IntegrateFrame, checkpointVars
  <2>. QED BY <2>1
<1>3. CASE DeliverLocally \/ PushFails \/ RequestFails
  <2>1. /\ stage' = "report" /\ strategy' = strategy
        /\ \/ delivery' = "ok" /\ strategy = "local"
           \/ delivery' = "error"
    BY <1>3 DEF DeliverLocally, PushFails, RequestFails, Delivered,
         DeliverFrame
  <2>. QED BY <2>1
<1>4. CASE PushSucceeds
  <2>1. /\ UNCHANGED <<run, work, strategy>> /\ remote' = Pushed
        /\ \/ stage' = "deliver"
           \/ stage' = "report" /\ delivery' = "ok" /\ strategy = "push"
    BY <1>4 DEF PushSucceeds, ToPush, Delivered, DeliverFrame, gitVars,
         cloneVars
  <2>. QED BY <2>1
<1>5. CASE RequestOpened
  <2>1. /\ UNCHANGED <<run, work, strategy, remote>> /\ opening
        /\ stage' = "report" /\ delivery' \in {"ok", "error"}
    BY <1>5 DEF RequestOpened, Delivered, DeliverFrame, gitVars, cloneVars
  <2>2. requests' > 0
    BY <1>5 DEF RequestOpened, TaskTypeOK
  <2>. QED BY <2>1, <2>2 DEF RequestsInv
<1>6. CASE RunInterrupted
  <2>1. /\ stage' \in {"report", "end"} => stage' = stage
        /\ UNCHANGED <<work, delivery, status, run, strategy, remote,
                       requests>>
    BY <1>6 DEF RunInterrupted, InterruptAndResumeWith, AdoptExisting,
         ResumesAt, cloneVars
  <2>. QED BY <2>1
<1>7. CASE RunLateWrites \/ UNCHANGED taskVars
  BY <1>7 DEF RunLateWrites, LateWrites, TestCommandLeaves, taskVars, vars,
       runVars, gitVars, cloneVars, checkpointVars
<1>. QED
  BY <1>1, <1>2, <1>3, <1>4, <1>5, <1>6, <1>7
     DEF TaskNext, RunNode, TaskEnded, DeliverByStrategy

\* A run reported succeeded, the first or a later one, is this run's: its
\* work branch is what its last test pass was green on -- with nothing
\* uncommitted beside it unless it was a repeated pass --, what the remote has
\* and what a pull request is open for.
THEOREM SucceededPublished == TaskSpec => []SucceededIsPublished
<1>. DEFINE Inv == TaskTypeOK /\ TestedInv /\ RequestsInv /\ PublishedInv
<1>1. TaskInit => Inv
  BY TaskInitTypes
     DEF TaskInit, Init, TestedInv, SucceededMeansTested, RequestsInv,
         PublishedInv
<1>2. Inv /\ [TaskNext]_taskVars => Inv'
  BY TaskStepTypes, TaskTestedStep, RequestsStep, PublishedStep
     DEF TaskTypeOK
<1>3. Inv => SucceededIsPublished
  BY DEF PublishedInv, PublishedHere, TestedInv, SucceededMeansTested,
       SucceededIsPublished
<1>. QED BY <1>1, <1>2, <1>3, PTL DEF TaskSpec

-----------------------------------------------------------------------------
(* Results of an earlier run.  Until the thread has a plan it has no       *)
(* results either; and what integrate handled without stopping at it is a  *)
(* branch of this run's clone, merged.                                     *)
OnTheBranch(w) ==
  latest[w].branch \in branches /\ branch[latest[w].branch] \subseteq work

PlanInv ==
  /\ stage # "devs" => \A i \in Index : phase[i] = "idle"
  /\ stage \notin {"worktrees", "raised"} => plan = planned
  /\ stage = "worktrees" => plan # NoPlan
  /\ planned = NoPlan =>
       /\ stage \in {"bootstrap", "architect", "worktrees", "end", "raised"}
       /\ \A w \in AllItems : latest[w] = NoResult

HandledInv ==
  /\ stage = "integrate" => \A w \in handled \ stopped : OnTheBranch(w)
  /\ MissingBranchesAreReported

LEMMA RealPlans == \A p \in PlanType : p # NoPlan
BY NDevsAssumption DEF PlanType, NoPlan, Devs

LEMMA NothingToMerge == (\A w \in AllItems : latest[w] = NoResult) => ToMerge = {}
BY DEF ToMerge, NoResult

(* A step that leaves results, branches and conflicts alone and at most    *)
(* adds to the work branch, in the same stage or on from the same results. *)
LEMMA HandledKept ==
  ASSUME HandledInv, UNCHANGED <<latest, branches, branch, conflicts>>,
         work \subseteq work',
         \/ stage' = stage /\ UNCHANGED <<handled, stopped>>
         \/ stage' \notin {"integrate", "tester_final", "testing", "deliver",
                           "report", "end"}
         \/ stage' # "integrate"
            /\ stage \in {"tester_final", "testing", "deliver", "report"}
         \/ stage' # "integrate" /\ ToMerge = {}
  PROVE  HandledInv'
<1>1. ToMerge' = ToMerge /\ \A w : OnTheBranch(w) => OnTheBranch(w)'
  BY DEF ToMerge, OnTheBranch
<1>. QED
  BY <1>1 DEF HandledInv, OnTheBranch, MissingBranchesAreReported

LEMMA OldResultsStep ==
  ASSUME TaskTypeOK, PlanInv, HandledInv, [TaskNext]_taskVars
  PROVE  PlanInv' /\ HandledInv'
<1>. USE DEF gitVars, cloneVars, checkpointVars, devNodeVars, integrateVars,
             localVars, runVars, Send
<1>0. TypeOK /\ planned \in PlanType \cup {NoPlan}
  BY DEF TaskTypeOK
<1>1. CASE (Bootstrap \/ BootstrapFails) /\ UNCHANGED runVars
  <2>1. /\ stage = "bootstrap" /\ stage' \in {"architect", "raised"}
        /\ UNCHANGED <<phase, plan, planned, latest, conflicts>>
    BY <1>1 DEF Bootstrap, BootstrapFails, Raise
  <2>. QED
    BY <2>1 DEF PlanInv, HandledInv, MissingBranchesAreReported
<1>2. CASE plan = NoPlan /\ ArchitectFails /\ UNCHANGED runVars
  <2>1. /\ stage = "architect" /\ stage' = "end"
        /\ UNCHANGED <<phase, plan, planned, latest, branches, branch, work,
                       conflicts>>
    BY <1>2 DEF ArchitectFails, treeVars, devVars
  <2>2. \A w \in AllItems : latest[w] = NoResult
    BY <1>2, <2>1 DEF PlanInv
  <2>. QED
    BY <2>1, <2>2, NothingToMerge, HandledKept DEF PlanInv
<1>3. CASE (ArchitectPlans \/ \E i \in Index : ArchitectCreates(i)
                                            \/ ArchitectRaises(i))
           /\ UNCHANGED runVars
  <2>1. /\ stage' \in {"worktrees", "raised"} /\ stage \in {"architect", "worktrees"}
        /\ UNCHANGED <<phase, planned, latest>>
        /\ \/ plan' = plan /\ stage = "worktrees"
           \/ plan' \in PlanType
    BY <1>3, PlansAssumption
       DEF ArchitectPlans, ArchitectCreates, ArchitectRaises, Raise
  <2>. QED
    BY <2>1, RealPlans DEF PlanInv, HandledInv, MissingBranchesAreReported
<1>4. CASE FanOutSaved \/ ArchitectFailsOnOldPlan
  <2>1. /\ stage' = "devs" /\ planned' = plan /\ plan' = plan /\ plan # NoPlan
    BY <1>4
       DEF FanOutSaved, FanOut, ArchitectFailsOnOldPlan, PlanInv
  <2>. QED
    BY <2>1 DEF PlanInv, HandledInv, MissingBranchesAreReported
<1>5. CASE (\E i \in Index : Dev(i)) /\ UNCHANGED runVars
  <2>1. UNCHANGED <<stage, plan, latest>>
    BY <1>5 DEF Dev, DevHasNoWorktree, DevStarts, DevRetries, AgentFails,
         AgentSucceeds, DevGivesUp, DevResolves, DevCommits, DevReturns,
         DevFrame
  <2>2. \E i \in Index : phase[i] # "idle"
    BY <1>5 DEF Dev, DevHasNoWorktree, DevStarts, DevRetries, AgentFails,
         AgentSucceeds, InTurn, DevGivesUp, DevResolves, DevCommits, DevReturns
  <2>. QED
    BY <1>5, <2>1, <2>2 DEF PlanInv, HandledInv, MissingBranchesAreReported
<1>6. CASE Join /\ UNCHANGED runVars
  <2>1. /\ stage = "devs" /\ stage' = "integrate" /\ handled' = {}
        /\ UNCHANGED <<plan, planned>> /\ \A i \in Index : phase'[i] = "idle"
    BY <1>6 DEF Join
  <2>2. planned # NoPlan
    BY <2>1 DEF PlanInv
  <2>. QED
    BY <2>1, <2>2 DEF PlanInv, HandledInv, MissingBranchesAreReported
<1>7. ASSUME NEW w \in AllItems, latest[w].branch \in branches,
             IntegrateMerges(w) \/ IntegrateConflicts(w), UNCHANGED runVars
      PROVE  PlanInv' /\ HandledInv'
  <2>1. /\ stage = "integrate"
        /\ UNCHANGED <<stage, phase, plan, latest, branches, branch>>
        /\ handled' = handled \cup {w}
        /\ \/ stopped' = stopped /\ work' = work \cup branch[latest[w].branch]
           \/ stopped' = stopped \cup {w} /\ work' = work
    BY <1>7 DEF IntegrateMerges, IntegrateConflicts, IntegrateFrame,
         MergeClean, MergeStops, MergeRefused, treeVars, devVars
  <2>2. \A v \in handled' \ stopped' : OnTheBranch(v)'
    BY <1>7, <2>1 DEF HandledInv, OnTheBranch
  <2>. QED
    BY <1>7, <2>1, <2>2 DEF PlanInv, HandledInv, MissingBranchesAreReported
<1>8. ASSUME NEW w \in AllItems, IntegrateMissing(w)
      PROVE  PlanInv' /\ HandledInv'
  <2>1. /\ UNCHANGED <<stage, phase, plan, planned, latest, branches, branch,
                       work>>
        /\ stage = "integrate" /\ handled' \ stopped' \subseteq handled \ stopped
    BY <1>8 DEF IntegrateMissing, IntegrateFrame, treeVars, devVars
  <2>. QED
    BY <2>1 DEF PlanInv, HandledInv, OnTheBranch, MissingBranchesAreReported
<1>9. CASE (IntegrateAborts \/ IntegrateRaises) /\ UNCHANGED runVars
  <2>1. /\ stage' \in {"integrate", "raised"} /\ stage = "integrate"
        /\ UNCHANGED <<phase, plan, latest, branches, branch, work, handled,
                       stopped>>
    BY <1>9 DEF IntegrateAborts, IntegrateRaises, IntegrateFrame, MergeAborts,
         CheckoutFails, Raise, treeVars, devVars
  <2>. QED
    BY <1>9, <2>1 DEF PlanInv, HandledInv, OnTheBranch, MissingBranchesAreReported
<1>10. CASE IntegrateReports /\ UNCHANGED runVars
  <2>1. /\ stage = "integrate" /\ stage' \in {"devs", "tester_final"}
        /\ stage' = "tester_final" => phase' = phase
        /\ ToMerge \subseteq handled /\ conflicts' = stopped
        /\ UNCHANGED <<work, branches, branch, latest, plan>>
    BY <1>10 DEF IntegrateReports, Todo, treeVars, devVars
  <2>2. \A w \in ToMerge : OnTheBranch(w) \/ w \in conflicts'
    BY <2>1 DEF HandledInv
  <2>3. ToMerge' = ToMerge /\ \A w : OnTheBranch(w)' <=> OnTheBranch(w)
    BY <2>1 DEF ToMerge, OnTheBranch
  <2>4. HandledInv'
    BY <2>1, <2>2, <2>3 DEF HandledInv, MissingBranchesAreReported, OnTheBranch
  <2>. QED BY <1>10, <2>1, <2>4 DEF PlanInv
<1>11. CASE \/ (TesterCommits \/ TesterReports \/ Report) /\ UNCHANGED runVars
            \/ DeliverByStrategy
  <2>1. /\ stage \in {"tester_final", "testing", "deliver", "report"}
        /\ stage' \in {"testing", "devs", "deliver", "report", "end"}
        /\ stage' # "devs" => phase' = phase
        /\ UNCHANGED <<plan, planned, latest, branches, branch, conflicts>>
        /\ work \subseteq work'
    BY <1>11
       DEF TesterCommits, TesterReports, Report, Cleanup, CommitWorkBranch,
           TestCommandLeaves, DeliverByStrategy, DeliverFrame, Delivered,
           DeliverLocally, PushSucceeds, PushFails, RequestOpened,
           RequestFails, ToPush, treeVars, devVars
  <2>2. HandledInv'
    BY <2>1, HandledKept
  <2>. QED BY <2>1, <2>2 DEF PlanInv
<1>12. CASE RunInterrupted
  <2>1. /\ UNCHANGED <<planned, latest, branches, branch, conflicts, work>>
        /\ handled' = {}
        /\ plan' = IF stage = "worktrees" THEN planned ELSE plan
        /\ \A i \in Index : phase[i] = "idle" => phase'[i] = "idle"
    BY <1>12
       DEF RunInterrupted, InterruptAndResumeWith, AdoptExisting, devVars, TypeOK
  <2>2. \/ stage' = stage /\ stage' # "worktrees"
        \/ stage = "worktrees" /\ stage' = "architect"
        \/ stage = "testing" /\ stage' = "tester_final"
    BY <1>12 DEF RunInterrupted, InterruptAndResumeWith, ResumesAt
  <2>3. HandledInv'
    BY <2>1, <2>2
       DEF HandledInv, MissingBranchesAreReported, OnTheBranch, ToMerge
  <2>. QED BY <2>1, <2>2, <2>3 DEF PlanInv
<1>13. CASE RunAgain
  <2>1. /\ stage = "end" /\ stage' = "bootstrap"
        /\ UNCHANGED <<phase, plan, planned, latest>>
    BY <1>13 DEF RunAgain
  <2>. QED BY <2>1 DEF PlanInv, HandledInv, MissingBranchesAreReported
<1>14. CASE RunLateWrites \/ UNCHANGED taskVars
  <2>1. UNCHANGED <<stage, phase, plan, planned, latest, branches, branch,
                    conflicts, work, handled, stopped>>
    BY <1>14 DEF RunLateWrites, LateWrites, TestCommandLeaves, taskVars, vars,
         treeVars, devVars
  <2>. QED BY <2>1, HandledKept DEF PlanInv
<1>. QED
  BY <1>1, <1>2, <1>3, <1>4, <1>5, <1>6, <1>7, <1>8, <1>9, <1>10, <1>11,
     <1>12, <1>13, <1>14
     DEF TaskNext, RunNode, AsBefore, TaskEnded

\* A result whose branch this run's clone does not have is reported as a
\* conflict, never taken for merged; one that is not reported names a branch
\* of this clone, and whatever is on that branch is on the work branch.
THEOREM MissingBranchesReported == TaskSpec => []MissingBranchesAreReported
<1>. DEFINE Inv == TaskTypeOK /\ PlanInv /\ HandledInv
<1>1. TaskInit => Inv
  BY TaskInitTypes
     DEF TaskInit, Init, PlanInv, HandledInv, MissingBranchesAreReported
<1>2. Inv /\ [TaskNext]_taskVars => Inv'
  BY TaskStepTypes, OldResultsStep
<1>3. Inv => MissingBranchesAreReported
  BY DEF HandledInv
<1>. QED BY <1>1, <1>2, <1>3, PTL DEF TaskSpec

-----------------------------------------------------------------------------
(* The first run.  Its thread has no plan before its first fan-out, and    *)
(* every result that lists commits is on a branch its clone has.           *)
Existing(r) == r.succeeded /\ r.commits => r.branch \in branches

FirstRunInv ==
  run = 1 =>
    /\ stage \in {"bootstrap", "architect", "worktrees"} => planned = NoPlan
    /\ stage = "bootstrap" =>
         /\ trees = {} /\ adopted = {}
         /\ \A i \in Index : returned[i] = NoResult
    /\ trees \subseteq branches /\ adopted \subseteq branches
    /\ \A i \in Index : phase[i] \notin {"idle", "queued", "done"} => i \in adopted
    /\ \A i \in Index : Existing(returned[i])
    /\ \A w \in AllItems : Existing(latest[w])

LEMMA NothingExists ==
  Existing(NoResult) /\ \A i : Existing(Failure(i))
BY DEF Existing, NoResult, Failure

LEMMA DevFirst ==
  ASSUME TaskTypeOK, PlanInv, FirstRunInv, run = 1,
         NEW i \in Index, Dev(i), UNCHANGED runVars
  PROVE  FirstRunInv'
<1>. DEFINE Active == {"building", "resolving", "ended", "committed"}
<1>0. /\ phase \in [Index -> Phases] /\ returned \in [Index -> DevResult]
      /\ phase[i] \in Active => i \in adopted
  BY DEF TaskTypeOK, TypeOK, FirstRunInv
<1>1. UNCHANGED <<stage, trees, adopted, branches, latest, run, planned>>
  BY DEF runVars, gitVars, treeVars, checkpointVars, Dev,
         DevHasNoWorktree, DevStarts, DevRetries, AgentFails, AgentSucceeds,
         DevGivesUp, DevResolves, DevCommits, DevReturns, DevFrame,
         AgentEdits, CommitAll, ContinueGivesUp,
         RebaseAbort, ContinueSucceeds, BeginRebaseEmpty, BeginRebaseConflicts,
         RebaseReplays, RebaseRefused, RebaseStops, RebaseAlreadyOpen
<1>2. CASE DevHasNoWorktree(i) \/ AgentFails(i) \/ DevGivesUp(i)
  <2>1. PICK r \in {NoResult, Failure(i)} : Return(i, r)
    BY <1>2 DEF DevHasNoWorktree, AgentFails, DevGivesUp, ReturnFailure
  <2>2. /\ phase' = [phase EXCEPT ![i] = "done"]
        /\ returned' = [returned EXCEPT ![i] = r] /\ Existing(r)
    BY <2>1, NothingExists DEF Return, Advance
  <2>3. stage = "devs"
    BY <1>2 DEF PlanInv, DevHasNoWorktree, AgentFails, DevGivesUp, InTurn
  <2>. QED BY <1>0, <1>1, <2>2, <2>3 DEF FirstRunInv, Existing
<1>3. CASE \/ DevStarts(i) \/ DevRetries(i) \/ AgentSucceeds(i)
           \/ DevResolves(i)
  <2>1. PICK p \in Active : phase' = [phase EXCEPT ![i] = p]
    BY <1>3 DEF DevStarts, DevRetries, AgentSucceeds, DevResolves, Advance
  <2>2. returned' = returned
    BY <1>3 DEF DevStarts, DevRetries, AgentSucceeds, DevResolves
  <2>3. stage = "devs" /\ i \in adopted
    BY <1>0, <1>3
       DEF PlanInv, DevStarts, DevRetries, AgentSucceeds, DevResolves, InTurn
  <2>. QED BY <1>0, <1>1, <2>1, <2>2, <2>3 DEF FirstRunInv, Existing
<1>4. CASE DevCommits(i) \/ DevReturns(i)
  <2>1. stage = "devs" /\ i \in adopted
    BY <1>0, <1>4 DEF PlanInv, DevCommits, DevReturns
  <2>2. PICK p \in {"committed", "done"} : phase' = [phase EXCEPT ![i] = p]
    BY <1>4 DEF DevCommits, DevReturns, Return, Advance
  <2>3. \/ returned' = returned
        \/ \E commits \in BOOLEAN :
             returned' = [returned EXCEPT ![i] =
                            [branch |-> i, succeeded |-> TRUE,
                             commits |-> commits]]
    <3>1. CASE DevCommits(i)
      BY <3>1 DEF DevCommits
    <3>2. CASE DevReturns(i) /\ i = TesterIndex
      BY <1>0, <3>2 DEF DevReturns, Return
    <3>3. CASE DevReturns(i) /\ i # TesterIndex
      BY <3>3 DEF DevReturns, Return, HasCommits
    <3>. QED BY <1>4, <3>1, <3>2, <3>3
  <2>4. i \in branches
    BY <2>1 DEF FirstRunInv
  <2>. QED BY <1>0, <1>1, <2>1, <2>2, <2>3, <2>4 DEF FirstRunInv, Existing
<1>. QED BY <1>2, <1>3, <1>4 DEF Dev

LEMMA FirstRunStep ==
  ASSUME TaskTypeOK, PlanInv, FirstRunInv, [TaskNext]_taskVars
  PROVE  FirstRunInv'
<1>. USE DEF gitVars, cloneVars, treeVars, devVars, checkpointVars,
             devNodeVars, integrateVars, localVars, runVars, Send
<1>1. CASE run' # 1
  BY <1>1 DEF FirstRunInv
<1>2. CASE RunAgain
  <2>1. run' # 1
    BY <1>2, MaxRunsAssumption DEF RunAgain, TaskTypeOK
  <2>. QED BY <1>1, <2>1
<1>3. ASSUME run' = 1, run = 1, ~RunAgain
      PROVE  FirstRunInv'
  <2>0. TypeOK /\ TypeOK'
    BY TaskStepTypes DEF TaskTypeOK
  <2>1. CASE (Bootstrap \/ BootstrapFails) /\ UNCHANGED runVars
    <3>1. /\ stage = "bootstrap" /\ stage' \in {"architect", "raised"}
          /\ UNCHANGED <<phase, returned, latest, planned>>
          /\ trees' = {} /\ branches' = {} /\ adopted' = adopted
      BY <2>1 DEF Bootstrap, BootstrapFails, Raise, Clone
    <3>2. /\ \A i \in Index : returned[i] = NoResult /\ phase[i] = "idle"
          /\ \A w \in AllItems : latest[w] = NoResult
          /\ adopted = {} /\ planned = NoPlan
      BY <1>3, <3>1 DEF PlanInv, FirstRunInv
    <3>. QED BY <3>1, <3>2 DEF FirstRunInv, Existing, NoResult
  <2>2. CASE \/ /\ \/ ArchitectFails \/ ArchitectPlans
                   \/ \E i \in Index : ArchitectRaises(i)
                /\ UNCHANGED runVars
             \/ FanOutSaved \/ ArchitectFailsOnOldPlan
    <3>1. /\ UNCHANGED <<latest, trees, branches, adopted>>
          /\ stage \in {"architect", "worktrees"}
          /\ \/ stage' \in {"end", "worktrees", "raised"} /\ planned' = planned
                  /\ UNCHANGED <<phase, returned>>
             \/ /\ stage' = "devs" /\ returned' = NothingReturned
                /\ \A i \in Index : phase'[i] \in {"idle", "queued"}
      BY <2>2 DEF ArchitectFails, ArchitectPlans, ArchitectRaises, Raise,
           FanOutSaved, FanOut, ArchitectFailsOnOldPlan
    <3>. QED
      BY <1>3, <3>1, NothingExists DEF FirstRunInv, Existing, NothingReturned
  <2>3. CASE (\E i \in Index : ArchitectCreates(i)) /\ UNCHANGED runVars
    <3>1. PICK i \in Index :
            /\ stage = "worktrees" /\ UNCHANGED <<stage, phase, returned, latest>>
            /\ trees' = trees \cup {i} /\ branches' = branches \cup {i}
            /\ adopted' = adopted \cup {i}
      BY <2>3 DEF ArchitectCreates, CreateWorktree
    <3>. QED BY <1>3, <2>3, <3>1 DEF FirstRunInv, Existing
  <2>4. CASE (\E i \in Index : Dev(i)) /\ UNCHANGED runVars
    BY <1>3, <2>4, DevFirst
  <2>5. CASE Join /\ UNCHANGED runVars
    <3>1. /\ stage' = "integrate" /\ returned' = NothingReturned
          /\ \A i \in Index : phase'[i] = "idle"
          /\ UNCHANGED <<trees, branches, adopted>>
      BY <2>5 DEF Join
    <3>2. \A w \in AllItems :
            latest'[w] = latest[w] \/ \E i \in Index : latest'[w] = returned[i]
      <4>. SUFFICES ASSUME NEW w \in AllItems
           PROVE latest'[w] = latest[w] \/ \E i \in Index : latest'[w] = returned[i]
        OBVIOUS
      <4>1. latest'[w] = IF ReturnedFor(w) = {} THEN latest[w]
                         ELSE returned[Last(ReturnedFor(w))]
        BY <2>5 DEF Join, ApplyReturned
      <4>2. ReturnedFor(w) # {} => Last(ReturnedFor(w)) \in Index
        BY LastType DEF ReturnedFor
      <4>. QED BY <4>1, <4>2
    <3>. QED
      BY <1>3, <3>1, <3>2, NothingExists
         DEF FirstRunInv, Existing, NothingReturned
  <2>6. CASE \/ /\ \/ IntegrateAborts \/ IntegrateRaises
                   \/ \E w \in AllItems : IntegrateMerges(w) \/ IntegrateConflicts(w)
                   \/ TesterCommits \/ Report
                /\ UNCHANGED runVars
             \/ \E w \in AllItems : IntegrateMissing(w)
             \/ DeliverByStrategy
    <3>1. /\ UNCHANGED <<phase, returned, latest, branches, adopted>>
          /\ trees' \subseteq trees
          /\ stage' \notin {"bootstrap", "architect", "worktrees"}
      BY <2>6 DEF IntegrateAborts, IntegrateRaises, IntegrateMerges,
           IntegrateConflicts, IntegrateFrame, MergeClean, MergeStops,
           MergeRefused, MergeAborts, CheckoutFails, Raise, TesterCommits,
           CommitWorkBranch, Report, Cleanup, IntegrateMissing,
           DeliverByStrategy, DeliverFrame, Delivered, DeliverLocally,
           PushSucceeds, PushFails, RequestOpened, RequestFails, ToPush
    <3>. QED BY <1>3, <3>1 DEF FirstRunInv, Existing
  <2>7. CASE (IntegrateReports \/ TesterReports) /\ UNCHANGED runVars
    <3>1. /\ UNCHANGED <<latest, branches, adopted, trees>>
          /\ stage' \notin {"bootstrap", "architect", "worktrees"}
          /\ \/ UNCHANGED <<phase, returned>>
             \/ /\ returned' = NothingReturned
                /\ \A i \in Index : phase'[i] \in {"idle", "queued"}
      BY <2>7 DEF IntegrateReports, TesterReports, TestCommandLeaves
    <3>. QED
      BY <1>3, <3>1, NothingExists DEF FirstRunInv, Existing, NothingReturned
  <2>8. CASE RunInterrupted
    <3>1. /\ UNCHANGED <<latest, branches, trees, planned>>
          /\ adopted' \subseteq trees
          /\ \A i \in Index : /\ phase'[i] \in {"idle", "queued", "done"}
                              /\ returned'[i] \in {returned[i], NoResult}
      BY <2>0, <2>8
         DEF RunInterrupted, InterruptAndResumeWith, AdoptExisting, Adoptable,
             TypeOK, Phases
    <3>2. \/ stage' = stage
          \/ stage = "worktrees" /\ stage' = "architect"
          \/ stage = "testing" /\ stage' = "tester_final"
      BY <2>8 DEF RunInterrupted, InterruptAndResumeWith, ResumesAt
    <3>. QED
      BY <1>3, <3>1, <3>2, NothingExists DEF FirstRunInv, Existing
  <2>9. CASE RunLateWrites \/ UNCHANGED taskVars
    BY <2>9 DEF RunLateWrites, LateWrites, TestCommandLeaves, taskVars, vars,
         FirstRunInv, Existing
  <2>. QED
    BY <1>3, <2>1, <2>2, <2>3, <2>4, <2>5, <2>6, <2>7, <2>8, <2>9
       DEF TaskNext, RunNode, AsBefore, TaskEnded
<1>4. run' = 1 /\ ~RunAgain => run = 1
  BY DEF TaskNext, RunNode, ArchitectFailsOnOldPlan, FanOutSaved,
         IntegrateMissing, DeliverByStrategy, DeliverFrame, DeliverLocally,
         PushSucceeds, PushFails, RequestOpened, RequestFails, RunInterrupted,
         RunLateWrites, TaskEnded, taskVars
<1>. QED BY <1>1, <1>2, <1>3, <1>4

LEMMA FirstRunSteps ==
  ASSUME TaskTypeOK, PlanInv, FirstRunInv, [TaskNext]_taskVars, run' = 1
  PROVE  [Next]_vars
<1>1. CASE RunAgain
  <2>1. run' # 1
    BY <1>1, MaxRunsAssumption DEF RunAgain, TaskTypeOK
  <2>. QED BY <2>1
<1>2. CASE ArchitectFailsOnOldPlan
  <2>1. run = 1 /\ stage = "architect" /\ plan # NoPlan
    BY <1>2 DEF ArchitectFailsOnOldPlan, runVars
  <2>. QED BY <2>1 DEF PlanInv, FirstRunInv
<1>3. CASE \E w \in AllItems : IntegrateMissing(w)
  <2>1. PICK w \in AllItems : /\ run = 1 /\ w \in ToMerge
                              /\ latest[w].branch \notin branches
    BY <1>3 DEF IntegrateMissing, IsNext, Todo, runVars
  <2>. QED BY <2>1 DEF FirstRunInv, Existing, ToMerge
<1>4. CASE DeliverByStrategy
  <2>1. CASE stage' = "deliver"
    BY <1>4, <2>1
       DEF DeliverByStrategy, DeliverFrame, DeliverLocally, PushSucceeds,
           PushFails, RequestOpened, RequestFails, Delivered, vars,
           checkpointVars
  <2>2. CASE stage' # "deliver"
    <3>1. Deliver
      BY <1>4, <2>2
         DEF DeliverByStrategy, DeliverFrame, DeliverLocally, PushSucceeds,
             PushFails, RequestOpened, RequestFails, Delivered, ToPush, Deliver
    <3>. QED BY <3>1 DEF Next, Node
  <2>. QED BY <2>1, <2>2
<1>5. CASE RunInterrupted
  <2>1. run = 1 /\ stage = "worktrees" => planned = NoPlan
    BY DEF FirstRunInv
  <2>2. run = 1 /\ InterruptAndResumeWith(planned)
    BY <1>5 DEF RunInterrupted
  <2>3. InterruptAndResume
    BY <2>1, <2>2 DEF InterruptAndResume, InterruptAndResumeWith
  <2>. QED BY <2>3 DEF Next
<1>. QED
  BY <1>1, <1>2, <1>3, <1>4, <1>5, AsBeforeIsNext
     DEF TaskNext, RunNode, TaskEnded, FanOutSaved, RunLateWrites, Next, Node,
         taskVars

\* Until a task is run again, deliver's strategies and the thread's state add
\* nothing to TeamGraph: the first run of every task is one of its runs.
THEOREM FirstRunImplements == TaskSpec => FirstRunIsTeamGraph
<1>. DEFINE Inv == TaskTypeOK /\ PlanInv /\ HandledInv /\ FirstRunInv
<1>1. TaskInit => Init /\ Inv
  BY TaskInitTypes
     DEF TaskInit, Init, GitInit, NothingReturned, PlanInv, HandledInv,
         MissingBranchesAreReported, FirstRunInv, Existing, NoResult
<1>2. Inv /\ [TaskNext]_taskVars => Inv'
  BY TaskStepTypes, OldResultsStep, FirstRunStep
<1>3. Inv /\ [TaskNext]_taskVars => [run' = 1 => Next]_vars
  BY FirstRunSteps
<1>. QED BY <1>1, <1>2, <1>3, PTL DEF TaskSpec, FirstRunIsTeamGraph
=============================================================================
