--------------------------- MODULE TeamGraphProofs ---------------------------
(* What holds of TeamGraph for every number of devs, every set of plans,   *)
(* whatever ids and dependencies they give, and every budget.              *)
EXTENDS TeamGraph, WorktreesProofs

USE DEF ItemId, DependsOn

-----------------------------------------------------------------------------
(* Type correctness.                                                       *)

LEMMA LastType ==
  ASSUME NEW S \in SUBSET Index, S # {}
  PROVE  Last(S) \in S
BY LastIndex DEF Last

LEMMA DevResultTypes ==
  /\ NoResult \in DevResult
  /\ \A i \in Index : Failure(i) \in DevResult
BY NDevsAssumption DEF NoResult, Failure, DevResult, Index, TesterIndex

LEMMA NoPlanIdsType == NoPlan.ids \in [Devs -> Items]
BY ItemsAssumption DEF NoPlan

LEMMA ItemIdType ==
  ASSUME plan \in PlanType \cup {NoPlan}
  PROVE  ItemId \in [Devs -> Items]
BY NoPlanIdsType DEF PlanType

LEMMA PlanIndexType ==
  ASSUME plan \in PlanType \cup {NoPlan}
  PROVE  PlanDevs \subseteq Devs /\ PlanIndex \subseteq Index
BY NDevsAssumption
   DEF PlanType, NoPlan, PlanDevs, PlanIndex, Devs, Index, TesterIndex

LEMMA IndexOfType ==
  ASSUME plan \in PlanType \cup {NoPlan}, NEW w \in PlanIds
  PROVE  IndexOf(w) \in PlanDevs /\ ItemId[IndexOf(w)] = w
<1>. DEFINE S == {i \in PlanDevs : ItemId[i] = w}
<1>1. S \in SUBSET Index /\ S # {}
  BY PlanIndexType DEF PlanIds, Devs, Index
<1>2. Last(S) \in S
  BY <1>1, LastType
<1>. QED BY <1>2 DEF IndexOf

LEMMA ApplyReturnedType ==
  ASSUME returned \in [Index -> DevResult], latest \in [AllItems -> DevResult]
  PROVE  ApplyReturned \in [AllItems -> DevResult]
<1>. SUFFICES ASSUME NEW w \in AllItems PROVE ApplyReturned[w] \in DevResult
  BY DEF ApplyReturned
<1>0. ReturnedFor(w) \in SUBSET Index
  BY DEF ReturnedFor
<1>1. CASE ReturnedFor(w) = {}
  BY <1>1 DEF ApplyReturned
<1>2. CASE ReturnedFor(w) # {}
  <2>1. Last(ReturnedFor(w)) \in Index
    BY <1>0, <1>2, LastType
  <2>. QED BY <1>2, <2>1 DEF ApplyReturned
<1>. QED BY <1>1, <1>2

LEMMA ApplyOrderType ==
  ASSUME earlier \in [AllItems -> SUBSET AllItems]
  PROVE  ApplyOrder \in [AllItems -> SUBSET AllItems]
BY DEF ApplyOrder

LEMMA AfterIntegrateType ==
  ASSUME plan \in PlanType \cup {NoPlan}, NEW found, NEW round
  PROVE  AfterIntegrate(found, round) \subseteq Index
BY IndexOfType, PlanIndexType DEF AfterIntegrate, Devs, Index

LEMMA AfterTestsType ==
  ASSUME plan \in PlanType \cup {NoPlan}, NEW passed, NEW round
  PROVE  AfterTests(passed, round) \subseteq Index
BY PlanIndexType DEF AfterTests, Devs, Index

LEMMA ChangeType ==
  ASSUME conflictRound \in Nat, NEW i \in Index
  PROVE  Change(i) \in Content /\ Change(i) # EdgeMarkers
BY NDevsAssumption DEF Change, Content, EdgeMarkers, Index

LEMMA InitTypes == Init => TypeOK
<1>. SUFFICES ASSUME Init PROVE TypeOK
  OBVIOUS
<1>1. GitTypeOK
  BY GitInitTypes DEF Init
<1>2. /\ latest \in [AllItems -> DevResult]
      /\ returned \in [Index -> DevResult]
  BY DevResultTypes DEF Init, NothingReturned
<1>3. /\ test \in [verdict : {"none", "passed", "failed"},
                   ran : SUBSET Content, clean : BOOLEAN]
      /\ earlier \in [AllItems -> SUBSET AllItems]
  BY DEF Init
<1>4. phase \in [Index -> Phases]
  BY DEF Init, Phases
<1>5. /\ merged \in SUBSET Index /\ created \in SUBSET Index
      /\ conflicts \in SUBSET AllItems
      /\ handled \in SUBSET AllItems /\ stopped \in SUBSET AllItems
  BY DEF Init
<1>6. /\ stage \in Stages /\ plan \in PlanType \cup {NoPlan}
      /\ delivery \in {"none", "ok", "error"}
      /\ status \in {"none", "failed", "partial", "succeeded"}
      /\ aborting \in BOOLEAN
  BY DEF Init, Stages
<1>7. /\ conflictRound \in Nat /\ repairRound \in Nat /\ steps \in Nat
      /\ interrupts \in 0..MaxInterrupts
  BY BudgetsAssumption DEF Init
<1>. QED
  BY <1>1, <1>2, <1>3, <1>4, <1>5, <1>6, <1>7 DEF TypeOK

LEMMA DevTypes ==
  ASSUME TypeOK, NEW i \in Index, Dev(i)
  PROVE  TypeOK'
<1>. USE DEF TypeOK, DevFrame, checkpointVars, integrateVars
<1>1. Failure(i) \in DevResult /\ NoResult \in DevResult
  BY DevResultTypes
<1>2. Change(i) \in Content
  BY ChangeType
<1>3. CASE DevHasNoWorktree(i)
  BY <1>1, <1>3, GitUnchangedTypes
     DEF DevHasNoWorktree, ReturnFailure, Return, Advance, Phases
<1>4. CASE DevStarts(i)
  BY <1>4, GitUnchangedTypes DEF DevStarts, Advance, Phases
<1>5. CASE DevRetries(i)
  BY <1>5, BeginRebaseTypes DEF DevRetries, Advance, Phases
<1>6. CASE AgentFails(i)
  BY <1>1, <1>2, <1>6, AgentEditsTypes
     DEF AgentFails, ReturnFailure, Return, Advance, Phases
<1>7. CASE AgentSucceeds(i)
  BY <1>2, <1>7, AgentEditsTypes DEF AgentSucceeds, Advance, Phases
<1>8. CASE DevGivesUp(i)
  BY <1>1, <1>8, ContinueTypes
     DEF DevGivesUp, ReturnFailure, Return, Advance, Phases
<1>9. CASE DevResolves(i)
  BY <1>9, ContinueTypes DEF DevResolves, Advance, Phases
<1>10. CASE DevCommits(i)
  <2>1. [branch |-> i, succeeded |-> TRUE, commits |-> edits[i] # {}]
           \in DevResult
    BY DEF DevResult
  <2>. QED
    BY <1>10, <2>1, CommitAllTypes DEF DevCommits, Advance, Phases
<1>11. CASE DevReturns(i)
  <2>1. [branch |-> i, succeeded |-> TRUE, commits |-> HasCommits(i)]
           \in DevResult
    BY DEF DevResult, HasCommits
  <2>. QED
    BY <1>11, <2>1, GitUnchangedTypes DEF DevReturns, Return, Advance, Phases
<1>. QED
  BY <1>3, <1>4, <1>5, <1>6, <1>7, <1>8, <1>9, <1>10, <1>11 DEF Dev

(* A step of run_team that is not a dev's, by node.                        *)
LEMMA StartTypes ==
  ASSUME TypeOK,
         \/ Bootstrap \/ BootstrapFails
         \/ ArchitectFails \/ ArchitectPlans \/ FanOut
  PROVE  TypeOK'
<1>. USE DEF TypeOK, Stages
<1>1. CASE Bootstrap
  BY <1>1, CloneTypes
     DEF Bootstrap, Superstep, localVars, devNodeVars, integrateVars
<1>2. CASE ArchitectFails
  BY <1>2, GitUnchangedTypes
     DEF ArchitectFails, Superstep, localVars, devNodeVars, integrateVars
<1>3. CASE ArchitectPlans
  BY <1>3, GitUnchangedTypes, PlansAssumption
     DEF ArchitectPlans, devNodeVars, integrateVars
<1>4. CASE FanOut
  BY <1>4, GitUnchangedTypes, DevResultTypes
     DEF FanOut, Send, Superstep, integrateVars, NothingReturned, Phases
<1>5. CASE BootstrapFails
  BY <1>5, CloneTypes
     DEF BootstrapFails, Raise, localVars, devNodeVars, integrateVars
<1>. QED BY <1>1, <1>2, <1>3, <1>4, <1>5

LEMMA ArchitectTypes ==
  ASSUME TypeOK, NEW i \in Index, ArchitectCreates(i) \/ ArchitectRaises(i)
  PROVE  TypeOK'
<1>. USE DEF TypeOK, Stages, devNodeVars, integrateVars
<1>1. CASE ArchitectCreates(i)
  BY <1>1, CreateWorktreeTypes DEF ArchitectCreates, checkpointVars
<1>2. CASE ArchitectRaises(i)
  BY <1>2, GitUnchangedTypes DEF ArchitectRaises, Raise, localVars
<1>. QED BY <1>1, <1>2

LEMMA JoinTypes == TypeOK /\ Join => TypeOK'
<1>. SUFFICES ASSUME TypeOK, Join PROVE TypeOK'
  OBVIOUS
<1>1. ApplyReturned \in [AllItems -> DevResult]
  BY ApplyReturnedType DEF TypeOK
<1>2. NothingReturned \in [Index -> DevResult]
  BY DevResultTypes DEF NothingReturned
<1>3. GitTypeOK'
  BY GitUnchangedTypes DEF Join, TypeOK
<1>4. phase' \in [Index -> Phases]
  BY DEF Join, Phases
<1>5. handled' \in SUBSET AllItems /\ stopped' \in SUBSET AllItems
  BY DEF Join
<1>6. stage' \in Stages /\ steps' \in Nat
  BY DEF Join, TypeOK, Stages, Superstep
<1>7. aborting' \in BOOLEAN
  BY DEF Join
<1>8. /\ latest' \in [AllItems -> DevResult]
      /\ earlier' \in [AllItems -> SUBSET AllItems]
      /\ returned' \in [Index -> DevResult]
  BY <1>1, <1>2, ApplyOrderType DEF Join, TypeOK
<1>9. UNCHANGED <<plan, merged, conflicts, conflictRound, repairRound, test,
                  delivery, status, created, interrupts>>
  BY DEF Join
<1>. QED
  BY <1>3, <1>4, <1>5, <1>6, <1>7, <1>8, <1>9 DEF TypeOK

LEMMA IntegrateTypes ==
  ASSUME TypeOK, NEW w \in AllItems, IntegrateMerges(w) \/ IntegrateConflicts(w)
  PROVE  TypeOK'
<1>. USE DEF TypeOK, IntegrateFrame, checkpointVars, devNodeVars
<1>1. latest[w].branch \in Index
  BY DEF DevResult
<1>2. CASE IntegrateMerges(w)
  BY <1>1, <1>2, MergeTypes DEF IntegrateMerges
<1>3. CASE IntegrateConflicts(w)
  BY <1>1, <1>3, MergeTypes DEF IntegrateConflicts
<1>. QED BY <1>2, <1>3

LEMMA IntegrateEndTypes ==
  ASSUME TypeOK, IntegrateAborts \/ IntegrateRaises \/ IntegrateReports
  PROVE  TypeOK'
<1>0. TesterIndex \in Index
  BY NDevsAssumption DEF TesterIndex, Index
<1>1. CASE IntegrateAborts
  BY <1>0, <1>1, MergeTypes
     DEF TypeOK, IntegrateAborts, IntegrateFrame, checkpointVars, devNodeVars
<1>2. CASE IntegrateRaises
  BY <1>0, <1>2, MergeTypes
     DEF TypeOK, Stages, IntegrateRaises, Raise, localVars, devNodeVars,
         integrateVars
<1>3. CASE IntegrateReports
  <2>1. GitTypeOK'
    BY <1>3, GitUnchangedTypes DEF IntegrateReports, TypeOK
  <2>2. merged' \in SUBSET Index
    BY <1>3 DEF IntegrateReports, TypeOK, DevResult
  <2>3. /\ stage' \in Stages
        /\ phase' \in [Index -> Phases]
        /\ returned' \in [Index -> DevResult]
    BY <1>3, DevResultTypes
       DEF IntegrateReports, TypeOK, Send, Stages, Phases, NothingReturned,
           devNodeVars
  <2>. QED
    BY <1>3, <2>1, <2>2, <2>3 DEF IntegrateReports, TypeOK, Superstep
<1>. QED BY <1>1, <1>2, <1>3

LEMMA TesterTypes ==
  ASSUME TypeOK, TesterCommits \/ TesterReports
  PROVE  TypeOK'
<1>1. CASE TesterCommits
  <2>1. PICK wrote \in SUBSET {<<Verifier, repairRound + 1>>} :
          CommitWorkBranch(wrote)
    BY <1>1 DEF TesterCommits
  <2>2. wrote \in SUBSET Content
    BY NDevsAssumption DEF TypeOK, Verifier, Content
  <2>. QED
    BY <1>1, <2>1, <2>2, CommitWorkBranchTypes
       DEF TesterCommits, TypeOK, Stages, localVars, devNodeVars, integrateVars
<1>2. CASE TesterReports
  <2>1. GitTypeOK' /\ work \in SUBSET Content
    BY <1>2, TestCommandTypes DEF TesterReports, TypeOK, GitTypeOK
  <2>2. test' \in [verdict : {"none", "passed", "failed"},
                   ran : SUBSET Content, clean : BOOLEAN]
    BY <1>2, <2>1 DEF TesterReports, TypeOK, GitTypeOK
  <2>3. /\ stage' \in Stages
        /\ phase' \in [Index -> Phases]
        /\ returned' \in [Index -> DevResult]
    BY <1>2, DevResultTypes
       DEF TesterReports, TypeOK, Send, Stages, Phases, NothingReturned,
           devNodeVars
  <2>. QED
    BY <1>2, <2>1, <2>2, <2>3
       DEF TesterReports, TypeOK, Superstep, integrateVars
<1>. QED BY <1>1, <1>2

LEMMA DeliverTypes ==
  ASSUME TypeOK, Deliver \/ Report
  PROVE  TypeOK'
<1>. USE DEF TypeOK, Stages, Superstep, localVars, devNodeVars, integrateVars
<1>1. CASE Deliver
  BY <1>1, GitUnchangedTypes DEF Deliver
<1>2. CASE Report
  BY <1>2, CleanupTypes DEF Report, FinalStatus
<1>. QED BY <1>1, <1>2

LEMMA InterruptTypes ==
  ASSUME TypeOK, NEW p \in PlanType \cup {NoPlan}, InterruptAndResumeWith(p)
  PROVE  TypeOK'
<1>1. GitTypeOK'
  BY AdoptTypes DEF InterruptAndResumeWith, TypeOK, GitTypeOK
<1>2. stage' \in Stages /\ plan' \in PlanType \cup {NoPlan}
  BY DEF InterruptAndResumeWith, ResumesAt, TypeOK, Stages
<1>3. phase' \in [Index -> Phases] /\ returned' \in [Index -> DevResult]
  BY DevResultTypes DEF InterruptAndResumeWith, TypeOK, Phases
<1>4. interrupts' \in 0..MaxInterrupts
  BY BudgetsAssumption DEF InterruptAndResumeWith, TypeOK
<1>. QED BY <1>1, <1>2, <1>3, <1>4 DEF InterruptAndResumeWith, TypeOK

LEMMA StepTypes == TypeOK /\ [Next]_vars => TypeOK'
<1>. SUFFICES ASSUME TypeOK, [Next]_vars PROVE TypeOK'
  OBVIOUS
<1>1. CASE Node
  BY <1>1, StartTypes, ArchitectTypes, DevTypes, JoinTypes, IntegrateTypes,
     IntegrateEndTypes, TesterTypes, DeliverTypes DEF Node
<1>2. CASE InterruptAndResume
  BY <1>2, InterruptTypes DEF InterruptAndResume
<1>3. CASE UNCHANGED vars
  BY <1>3, GitUnchangedTypes
     DEF TypeOK, vars, checkpointVars, localVars, devNodeVars, integrateVars
<1>4. CASE LateWrites
  BY <1>4, TestCommandTypes
     DEF LateWrites, TypeOK, checkpointVars, localVars, devNodeVars,
         integrateVars
<1>. QED BY <1>1, <1>2, <1>3, <1>4 DEF Next, Ended

\* Every variable keeps its type in every run.
THEOREM TypeCorrect == Spec => []TypeOK
BY InitTypes, StepTypes, PTL DEF Spec

-----------------------------------------------------------------------------
(* Termination, as a bound on the supersteps.  While the graph runs, the   *)
(* supersteps done are a function of the two counters, and the integrates  *)
(* done never exceed the conflict budget by more than the verification     *)
(* passes: a conflict retry is sent only while conflictRound is within its *)
(* budget, and every other round of devs but the first follows one pass.   *)
StepsInv ==
  /\ stage = "bootstrap" => steps = 0
  /\ stage \in {"architect", "worktrees"} =>
       steps = 1 /\ conflictRound = 0 /\ repairRound = 0
  /\ stage \in {"devs", "integrate"} =>
       /\ steps = 2 + 2 * conflictRound + repairRound
                    + (IF stage = "integrate" THEN 1 ELSE 0)
       /\ conflictRound <= MaxConflictRounds + repairRound
       /\ repairRound <= MaxRepairRounds
  /\ stage \in {"tester_final", "testing"} =>
       /\ steps = 2 + 2 * conflictRound + repairRound
       /\ conflictRound <= MaxConflictRounds + 1 + repairRound
       /\ repairRound <= MaxRepairRounds
  /\ stage \in {"deliver", "report"} =>
       /\ steps = 2 + 2 * conflictRound + repairRound
                    + (IF stage = "report" THEN 1 ELSE 0)
       /\ conflictRound <= MaxConflictRounds + repairRound
       /\ repairRound <= MaxRepairRounds + 1
  /\ steps <= MaxSteps

LEMMA StepsInit == Init => StepsInv
BY BudgetsAssumption DEF Init, StepsInv, MaxSteps

LEMMA StepsStep == TypeOK /\ StepsInv /\ [Next]_vars => StepsInv'
<1>. SUFFICES ASSUME TypeOK, StepsInv, [Next]_vars PROVE StepsInv'
  OBVIOUS
<1>. USE BudgetsAssumption DEF StepsInv, MaxSteps, Superstep
<1>0. /\ conflictRound \in Nat /\ repairRound \in Nat /\ steps \in Nat
      /\ stage \in Stages
  BY DEF TypeOK
<1>1. CASE Bootstrap \/ ArchitectFails \/ ArchitectPlans \/ FanOut
  BY <1>0, <1>1 DEF Bootstrap, ArchitectFails, ArchitectPlans, FanOut, Send
<1>2. CASE \E i \in Index : ArchitectCreates(i) \/ ArchitectRaises(i)
  BY <1>0, <1>2 DEF ArchitectCreates, ArchitectRaises, Raise, checkpointVars
<1>3. CASE \E i \in Index : Dev(i)
  <2>1. UNCHANGED checkpointVars
    BY <1>3 DEF Dev, DevHasNoWorktree, DevStarts, DevRetries, AgentFails,
         AgentSucceeds, DevGivesUp, DevResolves, DevCommits, DevReturns,
         DevFrame
  <2>. QED BY <1>0, <2>1 DEF checkpointVars
<1>4. CASE Join
  BY <1>0, <1>4 DEF Join
<1>5. CASE \E w \in AllItems : IntegrateMerges(w) \/ IntegrateConflicts(w)
  BY <1>0, <1>5
     DEF IntegrateMerges, IntegrateConflicts, IntegrateFrame, checkpointVars
<1>6. CASE IntegrateAborts
  BY <1>0, <1>6 DEF IntegrateAborts, IntegrateFrame, checkpointVars
<1>7. CASE IntegrateRaises \/ BootstrapFails
  BY <1>0, <1>7 DEF IntegrateRaises, BootstrapFails, Raise
<1>8. CASE IntegrateReports
  <2>1. \/ stage' = "tester_final"
        \/ stage' = "devs" /\ conflictRound + 1 <= MaxConflictRounds
    BY <1>0, <1>8 DEF IntegrateReports, AfterIntegrate, Send
  <2>2. /\ stage = "integrate" /\ conflictRound' = conflictRound + 1
        /\ repairRound' = repairRound /\ steps' = steps + 1
    BY <1>8 DEF IntegrateReports
  <2>. QED BY <1>0, <2>1, <2>2
<1>9. CASE TesterCommits
  BY <1>0, <1>9 DEF TesterCommits
<1>10. CASE TesterReports
  <2>1. \/ stage' = "deliver"
        \/ stage' = "devs" /\ repairRound + 1 <= MaxRepairRounds
    BY <1>0, <1>10 DEF TesterReports, AfterTests, Send
  <2>2. /\ stage = "testing" /\ conflictRound' = conflictRound
        /\ repairRound' = repairRound + 1 /\ steps' = steps + 1
    BY <1>10 DEF TesterReports
  <2>. QED BY <1>0, <2>1, <2>2
<1>11. CASE Deliver \/ Report
  BY <1>0, <1>11 DEF Deliver, Report
<1>12. CASE InterruptAndResume
  BY <1>0, <1>12
     DEF InterruptAndResume, InterruptAndResumeWith, ResumesAt, Stages
<1>13. CASE LateWrites \/ UNCHANGED vars
  BY <1>0, <1>13 DEF LateWrites, vars, checkpointVars
<1>. QED
  BY <1>1, <1>2, <1>3, <1>4, <1>5, <1>6, <1>7, <1>8, <1>9, <1>10, <1>11,
     <1>12, <1>13 DEF Next, Node, Ended

LEMMA StepsInvariant == Spec => []StepsInv
<1>1. TypeOK /\ StepsInv /\ [Next]_vars => StepsInv'
  BY StepsStep
<1>. QED BY StepsInit, <1>1, TypeCorrect, PTL DEF Spec

\* A run takes at most MaxSteps supersteps, whatever the agents, the test
\* command and the merges do, and however often it is interrupted.
THEOREM RunsAreBounded == Spec => []StepsBounded
<1>1. StepsInv => StepsBounded
  BY DEF StepsInv, StepsBounded
<1>. QED BY StepsInvariant, <1>1, PTL

\* With the budgets config.load accepts, LangGraph's recursion limit never
\* ends a run.
THEOREM RecursionLimitNotReached == Spec => []WithinRecursionLimit
<1>1. TypeOK /\ StepsInv => WithinRecursionLimit
  BY BudgetsAssumption
     DEF TypeOK, StepsInv, WithinRecursionLimit, LoadAccepts, MaxSteps,
         RecursionLimit
<1>. QED BY StepsInvariant, TypeCorrect, <1>1, PTL

-----------------------------------------------------------------------------
(* The lines that open or close a conflict never reach a commit.           *)

LEMMA MarkersDev ==
  ASSUME TypeOK, MarkersContained, NEW i \in Index, Dev(i)
  PROVE  MarkersContained'
<1>. USE DEF TypeOK
<1>1. CASE DevHasNoWorktree(i) \/ DevStarts(i) \/ DevReturns(i)
  BY <1>1, MarkersUnchanged DEF DevHasNoWorktree, DevStarts, DevReturns
<1>2. CASE DevRetries(i)
  BY <1>2, MarkersBeginRebase DEF DevRetries
<1>3. CASE AgentFails(i) \/ AgentSucceeds(i)
  BY <1>3, MarkersAgent, ChangeType DEF AgentFails, AgentSucceeds
<1>4. CASE DevGivesUp(i) \/ DevResolves(i)
  BY <1>4, MarkersContinue DEF DevGivesUp, DevResolves
<1>5. CASE DevCommits(i)
  BY <1>5, MarkersCommitAll DEF DevCommits
<1>. QED BY <1>1, <1>2, <1>3, <1>4, <1>5 DEF Dev

LEMMA MarkersStep == TypeOK /\ MarkersContained /\ [Next]_vars => MarkersContained'
<1>. SUFFICES ASSUME TypeOK, MarkersContained, [Next]_vars
              PROVE  MarkersContained'
  OBVIOUS
<1>. USE DEF TypeOK
<1>1. CASE Bootstrap \/ BootstrapFails
  BY <1>1, MarkersClone DEF Bootstrap, BootstrapFails
<1>2. CASE ArchitectFails \/ ArchitectPlans \/ FanOut \/ Join
             \/ IntegrateReports \/ Deliver
  BY <1>2, MarkersUnchanged
     DEF ArchitectFails, ArchitectPlans, FanOut, Join, IntegrateReports, Deliver
<1>3. CASE \E i \in Index : ArchitectCreates(i) \/ ArchitectRaises(i)
  BY <1>3, MarkersCreate, MarkersUnchanged DEF ArchitectCreates, ArchitectRaises
<1>4. CASE \E i \in Index : Dev(i)
  BY <1>4, MarkersDev
<1>5. CASE \E w \in AllItems : IntegrateMerges(w) \/ IntegrateConflicts(w)
  BY <1>5, MarkersMerge DEF IntegrateMerges, IntegrateConflicts, DevResult
<1>6. CASE IntegrateAborts \/ IntegrateRaises
  <2>1. TesterIndex \in Index
    BY NDevsAssumption DEF TesterIndex, Index
  <2>. QED BY <1>6, <2>1, MarkersMerge DEF IntegrateAborts, IntegrateRaises
<1>7. CASE TesterCommits
  <2>1. <<Verifier, repairRound + 1>> # EdgeMarkers
    BY NDevsAssumption DEF Verifier, EdgeMarkers
  <2>. QED BY <1>7, <2>1, MarkersCommitWork DEF TesterCommits
<1>8. CASE TesterReports \/ LateWrites
  BY <1>8, MarkersTestCommand DEF TesterReports, LateWrites
<1>9. CASE Report
  BY <1>9, MarkersCleanup DEF Report
<1>10. CASE InterruptAndResume
  BY <1>10, MarkersAdopt DEF InterruptAndResume, InterruptAndResumeWith
<1>11. CASE UNCHANGED vars
  BY <1>11, MarkersUnchanged DEF vars
<1>. QED
  BY <1>1, <1>2, <1>3, <1>4, <1>5, <1>6, <1>7, <1>8, <1>9, <1>10, <1>11
     DEF Next, Node, Ended

\* No branch of the run ever holds a line that opens or closes a conflict: git
\* writes them into the worktree of an open rebase, which is continued only
\* once they are gone and is otherwise aborted; commit_all only runs when no
\* rebase is open.  (A divider between them is another matter: see Worktrees.)
THEOREM EdgeMarkersNeverCommitted == Spec => []NoEdgeMarkersCommitted
<1>1. Init => MarkersContained
  BY MarkersInit DEF Init
<1>2. TypeOK /\ MarkersContained /\ [Next]_vars => MarkersContained'
  BY MarkersStep
<1>3. MarkersContained => NoEdgeMarkersCommitted
  BY DEF MarkersContained, NoEdgeMarkersCommitted
<1>. QED BY <1>1, <1>2, <1>3, TypeCorrect, PTL DEF Spec

-----------------------------------------------------------------------------
(* What a run reported succeeded was tested on.  The first test pass runs  *)
(* in a clone that is clean, _commit_work_branch having committed all it   *)
(* held and no test command having run before; and between the final pass  *)
(* and the report nothing changes the work branch.                         *)
TestedInv ==
  /\ stage = "testing" /\ dirty => repairRound > 0
  /\ stage \in {"deliver", "report"} =>
       /\ test.ran = work /\ test.verdict \in {"passed", "failed"}
       /\ test.clean \/ repairRound > 1
  /\ stage # "end" => status # "succeeded"
  /\ SucceededMeansTested

LEMMA TestedStep == TypeOK /\ TestedInv /\ [Next]_vars => TestedInv'
<1>. SUFFICES ASSUME TypeOK, TestedInv, [Next]_vars PROVE TestedInv'
  OBVIOUS
<1>. USE DEF TestedInv, SucceededMeansTested, TestedGreen, gitVars, cloneVars,
             checkpointVars
<1>1. CASE \/ Bootstrap \/ BootstrapFails \/ ArchitectFails \/ ArchitectPlans
           \/ FanOut
           \/ \E i \in Index : ArchitectCreates(i) \/ ArchitectRaises(i)
  BY <1>1 DEF Bootstrap, BootstrapFails, ArchitectFails, ArchitectPlans,
       FanOut, ArchitectCreates, ArchitectRaises, CreateWorktree, Raise, Send
<1>2. CASE \E i \in Index : Dev(i)
  BY <1>2 DEF Dev, DevHasNoWorktree, DevStarts, DevRetries, AgentFails,
       AgentSucceeds, DevGivesUp, DevResolves, DevCommits, DevReturns,
       DevFrame, AgentEdits, CommitAll, ContinueGivesUp, RebaseAbort,
       ContinueSucceeds, BeginRebaseEmpty, BeginRebaseConflicts,
       RebaseReplays, RebaseRefused, RebaseStops, RebaseAlreadyOpen
<1>3. CASE \/ Join \/ IntegrateAborts \/ IntegrateRaises \/ IntegrateReports
           \/ \E w \in AllItems : IntegrateMerges(w) \/ IntegrateConflicts(w)
  BY <1>3 DEF Join, IntegrateAborts, IntegrateRaises, IntegrateReports,
       IntegrateMerges, IntegrateConflicts, IntegrateFrame, Raise, Send
<1>4. CASE TesterCommits
  BY <1>4 DEF TesterCommits, CommitWorkBranch
<1>5. CASE TesterReports
  <2>1. PICK passed, leavesDirt \in BOOLEAN :
          /\ TestCommandLeaves(leavesDirt)
          /\ test' = [verdict |-> IF passed THEN "passed" ELSE "failed",
                      ran     |-> work,
                      clean   |-> ~dirty]
    BY <1>5 DEF TesterReports
  <2>2. test'.ran = work' /\ test'.verdict \in {"passed", "failed"}
    BY <2>1 DEF TestCommandLeaves
  <2>3. /\ stage = "testing" /\ stage' \in {"devs", "deliver"}
        /\ status' = status /\ repairRound' = repairRound + 1
    BY <1>5 DEF TesterReports, Send
  <2>4. test'.clean \/ repairRound' > 1
    <3>1. CASE dirty
      BY <2>3, <3>1 DEF TypeOK
    <3>2. CASE ~dirty
      <4>1. test'.clean = ~dirty
        BY <2>1
      <4>. QED BY <3>2, <4>1, Zenon
    <3>. QED BY <3>1, <3>2
  <2>5. ~(stage' = "testing") /\ ~(stage' = "end") /\ ~(status' = "succeeded")
    BY <2>3
  <2>. QED BY <2>2, <2>4, <2>5
<1>6. CASE Deliver
  BY <1>6 DEF Deliver
<1>7. CASE Report
  <2>1. /\ stage = "report" /\ stage' = "end" /\ status' = FinalStatus
        /\ UNCHANGED <<work, test, repairRound>>
    BY <1>7 DEF Report, Cleanup
  <2>2. status' = "succeeded" => test.verdict # "failed"
    BY <2>1 DEF FinalStatus, FellShort
  <2>. QED BY <2>1, <2>2
<1>8. CASE InterruptAndResume
  BY <1>8
     DEF InterruptAndResume, InterruptAndResumeWith, AdoptExisting, ResumesAt
<1>9. CASE LateWrites \/ UNCHANGED vars
  BY <1>9 DEF LateWrites, TestCommandLeaves, vars
<1>. QED
  BY <1>1, <1>2, <1>3, <1>4, <1>5, <1>6, <1>7, <1>8, <1>9
     DEF Next, Node, Ended

\* What a run reported succeeded delivered is what its final test pass was
\* green on, and only after an earlier pass of the run may that pass have seen
\* uncommitted changes as well.
THEOREM SucceededIsTested == Spec => []SucceededMeansTested
<1>1. Init => TestedInv
  BY DEF Init, TestedInv, SucceededMeansTested
<1>2. TypeOK /\ TestedInv /\ [Next]_vars => TestedInv'
  BY TestedStep
<1>3. TestedInv => SucceededMeansTested
  BY DEF TestedInv
<1>. QED BY <1>1, <1>2, <1>3, TypeCorrect, PTL DEF Spec

-----------------------------------------------------------------------------
(* Git commands the run depends on.  As long as nothing was interrupted a  *)
(* merge is open only until its abort, and the branches that exist when    *)
(* worktrees are created are those just created.                           *)
UninterruptedInv ==
  /\ stage = "bootstrap" => steps = 0
  /\ interrupts = 0 =>
       /\ merging => aborting
       /\ aborting => stage \in {"integrate", "raised"}
       /\ stage = "architect" => branches = {}
       /\ stage = "worktrees" => branches = created
  /\ OnlyInterruptionsRaise

LEMMA UninterruptedStep ==
  TypeOK /\ UninterruptedInv /\ [Next]_vars => UninterruptedInv'
<1>. SUFFICES ASSUME TypeOK, UninterruptedInv, [Next]_vars
              PROVE  UninterruptedInv'
  OBVIOUS
<1>. USE DEF UninterruptedInv, OnlyInterruptionsRaise, gitVars, cloneVars,
             treeVars, checkpointVars, localVars, integrateVars
<1>0. interrupts \in Nat
  BY BudgetsAssumption DEF TypeOK
<1>1. CASE Bootstrap \/ BootstrapFails
  BY <1>1 DEF Bootstrap, BootstrapFails, Clone, Raise
<1>2. CASE ArchitectFails \/ ArchitectPlans \/ FanOut
  BY <1>2 DEF ArchitectFails, ArchitectPlans, FanOut, Send
<1>3. CASE \E i \in Index : ArchitectCreates(i)
  BY <1>3 DEF ArchitectCreates, CreateWorktree
<1>4. CASE \E i \in Index : ArchitectRaises(i)
  BY <1>0, <1>4 DEF ArchitectRaises, NextToCreate, CanCreate, Raise
<1>5. CASE \E i \in Index : Dev(i)
  <2>1. UNCHANGED <<checkpointVars, merging, branches, created, aborting,
                    interrupts>>
    BY <1>5 DEF Dev, DevHasNoWorktree, DevStarts, DevRetries, AgentFails,
         AgentSucceeds, DevGivesUp, DevResolves, DevCommits, DevReturns,
         DevFrame, AgentEdits, CommitAll, ContinueGivesUp, RebaseAbort,
         ContinueSucceeds, BeginRebaseEmpty, BeginRebaseConflicts,
         RebaseReplays, RebaseRefused, RebaseStops, RebaseAlreadyOpen
  <2>. QED BY <2>1
<1>6. CASE Join
  BY <1>6 DEF Join
<1>7. CASE \E w \in AllItems : IntegrateMerges(w) \/ IntegrateConflicts(w)
  BY <1>7 DEF IntegrateMerges, IntegrateConflicts, IntegrateFrame, MergeClean,
       MergeStops, MergeRefused
<1>8. CASE IntegrateAborts
  BY <1>8 DEF IntegrateAborts, IntegrateFrame, MergeAborts
<1>9. CASE IntegrateRaises
  BY <1>0, <1>9 DEF IntegrateRaises, CheckoutFails, Raise
<1>10. CASE IntegrateReports
  BY <1>10 DEF IntegrateReports, Send
<1>11. CASE TesterCommits \/ TesterReports
  BY <1>11 DEF TesterCommits, TesterReports, CommitWorkBranch,
       TestCommandLeaves, Send
<1>12. CASE Deliver \/ Report
  BY <1>12 DEF Deliver, Report, Cleanup
<1>13. CASE InterruptAndResume
  <2>1. interrupts' > 0
    BY <1>0, <1>13 DEF InterruptAndResume, InterruptAndResumeWith
  <2>2. stage' = "bootstrap" => stage = "bootstrap" /\ steps' = steps
    BY <1>13 DEF InterruptAndResume, InterruptAndResumeWith, ResumesAt
  <2>. QED BY <2>1, <2>2
<1>14. CASE LateWrites \/ UNCHANGED vars
  BY <1>14 DEF LateWrites, TestCommandLeaves, vars
<1>. QED
  BY <1>1, <1>2, <1>3, <1>4, <1>5, <1>6, <1>7, <1>8, <1>9, <1>10, <1>11,
     <1>12, <1>13, <1>14 DEF Next, Node, Ended

\* Once the remote is cloned, only an interruption can make a git command the
\* run depends on fail.
THEOREM RaisesOnlyInterrupted == Spec => []OnlyInterruptionsRaise
<1>1. Init => UninterruptedInv
  BY DEF Init, GitInit, UninterruptedInv, OnlyInterruptionsRaise
<1>2. TypeOK /\ UninterruptedInv /\ [Next]_vars => UninterruptedInv'
  BY UninterruptedStep
<1>3. UninterruptedInv => OnlyInterruptionsRaise
  BY DEF UninterruptedInv
<1>. QED BY <1>1, <1>2, <1>3, TypeCorrect, PTL DEF Spec
=============================================================================
