------------------------------ MODULE TeamGraph ------------------------------
(***************************************************************************)
(* One run of the team: graph/builder.py, the routing between its nodes    *)
(* and the nodes themselves, over the git state of Worktrees.              *)
(*                                                                         *)
(* LangGraph runs the graph in supersteps.  The nodes of a superstep (all  *)
(* the devs and the tester's scaffolding pass, or one other node) run      *)
(* concurrently; what they return is kept per node and applied, in the     *)
(* order they were sent, when the last one has finished; the state is then *)
(* checkpointed and the conditional edge picks the next superstep.  The    *)
(* process may be interrupted at any point (a crash, or a pause, which     *)
(* leaves the event stream and so cancels what is running): a new process  *)
(* resumes from the checkpoint over whatever git state was left behind.    *)
(***************************************************************************)
EXTENDS Worktrees

CONSTANTS
  Items,              \* the work item ids a plan may use
  Plans,              \* the plans the architect may return
  MaxConflictRounds,  \* config.max_conflict_rounds
  MaxRepairRounds,    \* config.max_repair_rounds
  MaxInterrupts       \* bound: how often the process is interrupted

\* A Plan: how many work items, whether the tester starts early, and of the
\* i-th work item the id and the ids it declares in depends_on.  Nothing makes
\* ids unique, or known to the plan; beyond the last item nothing is read.
PlanType == [items : Devs, early : BOOLEAN,
             ids : [Devs -> Items], deps : [Devs -> SUBSET Items]]
NoPlan   == [items |-> 0, early |-> FALSE,
             ids  |-> [i \in Devs |-> CHOOSE w \in Items : TRUE],
             deps |-> [i \in Devs |-> {}]]

ASSUME ItemsAssumption    == Items # {}
ASSUME PlansAssumption    == Plans \subseteq PlanType
ASSUME BudgetsAssumption  == /\ MaxConflictRounds \in Nat
                             /\ MaxRepairRounds \in Nat
                             /\ MaxInterrupts \in Nat

RecursionLimit == 100   \* api.RECURSION_LIMIT: supersteps per invocation

\* config.load: the retry budgets it does not refuse.
LoadAccepts == MaxConflictRounds <= 5 /\ MaxRepairRounds <= 10

Scaffold == "tester-scaffold"     \* the scaffolding pass reports as an item

ASSUME ScaffoldAssumption == Scaffold \notin Items

AllItems == Items \cup {Scaffold}

\* A DevResult: whose branch, did it succeed, does it list any commit.
DevResult == [branch : Index, succeeded : BOOLEAN, commits : BOOLEAN]
\* No result yet; no node returns a failure that lists commits.
NoResult  == [branch |-> TesterIndex, succeeded |-> FALSE, commits |-> TRUE]
Failure(i) == [branch |-> i, succeeded |-> FALSE, commits |-> FALSE]

Stages == {"bootstrap", "architect", "worktrees", "devs", "integrate",
           "tester_final", "testing", "deliver", "report", "end", "raised"}

VARIABLES
  \* the checkpointed TeamState, and where the graph stands
  stage,          \* the superstep running
  plan,           \* the Plan, or NoPlan
  latest,         \* latest_dev_results(dev_results), by work item id
  earlier,        \* by id, the ids whose first result stands before its own
  merged,         \* integration.merged_branches, by index
  conflicts,      \* the work items of integration.conflicts
  conflictRound, repairRound,
  test,           \* the last of test_reports: its verdict, what it ran on,
                  \*   and whether the clone was clean, nothing uncommitted
  delivery,       \* the delivery report: "none", "ok" or "error"
  status,         \* RunStatus
  steps,          \* supersteps completed
  \* what the running nodes hold, lost when the process is interrupted
  created,        \* architect: worktrees created so far
  phase,          \* dev and tester_scaffold, by index
  returned,       \* what they have returned, applied at the superstep's end
  handled,        \* integrate: work items dealt with so far
  stopped,        \* integrate: those of them that conflicted
  aborting,       \* integrate: between a conflicted merge and its abort
  interrupts      \* interruptions so far

checkpointVars == <<stage, plan, latest, earlier, merged, conflicts,
                    conflictRound, repairRound, test, delivery, status, steps>>
devNodeVars    == <<phase, returned>>
integrateVars  == <<handled, stopped, aborting>>
localVars      == <<created, devNodeVars, integrateVars>>
vars == <<gitVars, checkpointVars, localVars, interrupts>>

Phases == {"idle",       \* not sent in this superstep
           "queued",     \* sent, not started
           "building",   \* the agent's turn, with no conflict to resolve
           "resolving",  \* the agent's turn, told of conflict markers
           "ended",      \* the turn ended well, nothing is committed yet
           "committed",  \* committed, nothing is returned yet
           "done"}       \* returned

TypeOK ==
  /\ GitTypeOK
  /\ stage \in Stages
  /\ plan \in PlanType \cup {NoPlan}
  /\ latest \in [AllItems -> DevResult]
  /\ earlier \in [AllItems -> SUBSET AllItems]
  /\ merged \in SUBSET Index
  /\ conflicts \in SUBSET AllItems
  /\ conflictRound \in Nat /\ repairRound \in Nat
  /\ test \in [verdict : {"none", "passed", "failed"},
               ran : SUBSET Content, clean : BOOLEAN]
  /\ delivery \in {"none", "ok", "error"}
  /\ status \in {"none", "failed", "partial", "succeeded"}
  /\ steps \in Nat
  /\ created \in SUBSET Index
  /\ phase \in [Index -> Phases]
  /\ returned \in [Index -> DevResult]
  /\ handled \in SUBSET AllItems /\ stopped \in SUBSET AllItems
  /\ aborting \in BOOLEAN
  /\ interrupts \in 0..MaxInterrupts

NothingReturned == [i \in Index |-> NoResult]

Init ==
  /\ GitInit
  /\ stage = "bootstrap" /\ plan = NoPlan
  /\ latest = [w \in AllItems |-> NoResult]
  /\ earlier = [w \in AllItems |-> {}]
  /\ merged = {} /\ conflicts = {}
  /\ conflictRound = 0 /\ repairRound = 0
  /\ test = [verdict |-> "none", ran |-> {}, clean |-> TRUE]
  /\ delivery = "none" /\ status = "none" /\ steps = 0
  /\ created = {}
  /\ phase = [i \in Index |-> "idle"] /\ returned = NothingReturned
  /\ handled = {} /\ stopped = {} /\ aborting = FALSE
  /\ interrupts = 0

-----------------------------------------------------------------------------
(* What the nodes and the edges compute from the state.                    *)

ItemId    == plan.ids
DependsOn == plan.deps
PlanDevs  == 1..plan.items
PlanIndex == PlanDevs \cup (IF plan.early THEN {TesterIndex} ELSE {})
PlanIds   == {ItemId[i] : i \in PlanDevs}

WorkItemId(i) == IF i = TesterIndex THEN Scaffold ELSE ItemId[i]

Last(S) == CHOOSE i \in S : \A j \in S : j <= i

\* by_id and indexes in the routing, position in _merge_order: dictionaries
\* keyed by item id, in which the last work item with an id wins.
IndexOf(w) == Last({i \in PlanDevs : ItemId[i] = w})

\* The nodes of the superstep that return a result with this id.
ReturnedFor(w) == {i \in Index : WorkItemId(i) = w /\ returned[i] # NoResult}

\* latest_dev_results, after a superstep's results were appended: the last
\* result with an id replaces the one kept before it.
ApplyReturned ==
  [w \in AllItems |->
    IF ReturnedFor(w) = {} THEN latest[w] ELSE returned[Last(ReturnedFor(w))]]

\* The dict latest_dev_results fills keeps an id where its first result put
\* it, results being appended in the order their nodes were sent: the devs in
\* plan order, then the scaffolding pass.
SentBefore(i, j) == i # TesterIndex /\ (j = TesterIndex \/ i < j)

ReturnedBefore(v, w) ==
  \E i \in ReturnedFor(v) : \A j \in ReturnedFor(w) : SentBefore(i, j)

ApplyOrder ==
  [w \in AllItems |->
    IF latest[w] # NoResult \/ ReturnedFor(w) = {}
    THEN earlier[w]
    ELSE {v \in AllItems : latest[v] # NoResult \/ ReturnedBefore(v, w)}]

\* _merge_order: by the number of declared dependencies the plan knows, then
\* by plan position; an id the plan does not know -- the scaffolding's, or one
\* of an earlier run's plan -- counts as (0, 0), and the sort is stable.
Depth(w) ==
  IF w \in PlanIds THEN Cardinality(DependsOn[IndexOf(w)] \cap PlanIds) ELSE 0
Position(w) == IF w \in PlanIds THEN IndexOf(w) - 1 ELSE 0

\* A bug for the checks: the plan's own order decides.
MergesBefore_ByPosition(v, w) ==
  Position(v) < Position(w) \/ (Position(v) = Position(w) /\ v \in earlier[w])

MergesBefore(v, w) ==
  \/ Depth(v) < Depth(w)
  \/ /\ Depth(v) = Depth(w)
     /\ \/ Position(v) < Position(w)
        \/ Position(v) = Position(w) /\ v \in earlier[w]

\* Bugs for the checks: only the plan's work items are merged; a branch the
\* work branch already contains is passed over.
ToMerge_PlannedOnly ==
  {w \in PlanIds : latest[w].succeeded /\ latest[w].commits}

ToMerge_Unmerged ==
  {w \in AllItems : /\ latest[w].succeeded /\ latest[w].commits
                    /\ ~ (branch[latest[w].branch] \subseteq work)}

\* What integrate merges: latest results that succeeded and list commits.
ToMerge == {w \in AllItems : latest[w].succeeded /\ latest[w].commits}
Todo    == ToMerge \ handled

IsNext(w) == w \in Todo /\ \A v \in Todo \ {w} : MergesBefore(w, v)

\* after_integrate: the devs sent back, none meaning tester_final.
AfterIntegrate(found, round) ==
  IF found = {} \/ round > MaxConflictRounds
  THEN {}
  ELSE {IndexOf(w) : w \in found \cap PlanIds}

\* A bug for the checks: one repair too many.
AfterTests_OffByOne(passed, round) ==
  IF passed \/ round > MaxRepairRounds + 1
  THEN {}
  ELSE {i \in PlanDevs : latest[ItemId[i]] # NoResult}

\* after_tests: the devs sent back, none meaning deliver.  The name there is
\* `succeeded`, but every work item with a result counts.
AfterTests(passed, round) ==
  IF passed \/ round > MaxRepairRounds
  THEN {}
  ELSE {i \in PlanDevs : latest[ItemId[i]] # NoResult}

\* report: the run's status.
Landed == merged # {}
\* Bugs for the checks: conflicts, failing tests or an undelivered branch do
\* not count.
FellShort_ConflictsIgnored ==
  \/ test.verdict = "failed"
  \/ \E w \in AllItems : latest[w] # NoResult /\ ~latest[w].succeeded
  \/ delivery = "error"

FellShort_DeliveryIgnored ==
  \/ conflicts # {}
  \/ test.verdict = "failed"
  \/ \E w \in AllItems : latest[w] # NoResult /\ ~latest[w].succeeded

FellShort_TestsIgnored ==
  \/ conflicts # {}
  \/ \E w \in AllItems : latest[w] # NoResult /\ ~latest[w].succeeded
  \/ delivery = "error"

FellShort ==
  \/ conflicts # {}
  \/ test.verdict = "failed"
  \/ \E w \in AllItems : latest[w] # NoResult /\ ~latest[w].succeeded
  \/ delivery = "error"

FinalStatus ==
  IF ~Landed THEN "failed" ELSE IF FellShort THEN "partial" ELSE "succeeded"

-----------------------------------------------------------------------------
(* Supersteps: what is common to every node.                               *)

Superstep == steps' = steps + 1

Send(S) ==
  /\ stage' = "devs"
  /\ phase' = [i \in Index |-> IF i \in S THEN "queued" ELSE "idle"]
  /\ returned' = NothingReturned

\* An exception (GitError) leaves the node: run_team reports the run failed.
Raise ==
  /\ stage' = "raised" /\ status' = "failed"
  /\ UNCHANGED <<plan, latest, earlier, merged, conflicts, conflictRound,
                 repairRound, test, delivery, steps, localVars, interrupts>>

(* bootstrap *)
Bootstrap ==
  /\ stage = "bootstrap"
  /\ Clone
  /\ stage' = "architect" /\ status' = "failed"
  /\ conflictRound' = 0 /\ repairRound' = 0
  /\ Superstep
  /\ UNCHANGED <<plan, latest, earlier, merged, conflicts, test, delivery,
                 localVars, interrupts>>

\* The old clone is gone and the new one cannot be had.
BootstrapFails ==
  /\ stage = "bootstrap"
  /\ Clone
  /\ Raise

(* architect: no usable plan, and the run ends there (fan_out's END); or a *)
(* plan and its worktrees, created one at a time, the tester's the last.   *)
ArchitectFails ==
  /\ stage = "architect"
  /\ stage' = "end"
  /\ Superstep
  /\ UNCHANGED <<gitVars, plan, latest, earlier, merged, conflicts,
                 conflictRound, repairRound, test, delivery, status,
                 localVars, interrupts>>

\* A bug for the checks: the plan is not cut down to dev_count work items.
ArchitectPlans_Uncapped ==
  /\ stage = "architect"
  /\ plan' \in Plans \cup {[p EXCEPT !.items = NDevs + 1] : p \in Plans}
  /\ stage' = "worktrees" /\ created' = {}
  /\ UNCHANGED <<gitVars, latest, earlier, merged, conflicts, conflictRound,
                 repairRound, test, delivery, status, steps, devNodeVars,
                 integrateVars, interrupts>>

ArchitectPlans ==
  /\ stage = "architect"
  /\ plan' \in Plans
  /\ stage' = "worktrees" /\ created' = {}
  /\ UNCHANGED <<gitVars, latest, earlier, merged, conflicts, conflictRound,
                 repairRound, test, delivery, status, steps, devNodeVars,
                 integrateVars, interrupts>>

NextToCreate(i) ==
  /\ i \in PlanIndex \ created
  /\ IF i = TesterIndex THEN PlanDevs \subseteq created
                        ELSE 1..(i - 1) \subseteq created

ArchitectCreates(i) ==
  /\ stage = "worktrees" /\ NextToCreate(i)
  /\ CreateWorktree(i)
  /\ created' = created \cup {i}
  /\ UNCHANGED <<checkpointVars, devNodeVars, integrateVars, interrupts>>

ArchitectRaises(i) ==
  /\ stage = "worktrees" /\ NextToCreate(i)
  /\ ~CanCreate(i)
  /\ UNCHANGED gitVars
  /\ Raise

FanOut ==
  /\ stage = "worktrees" /\ created = PlanIndex
  /\ Send(PlanIndex)
  /\ Superstep
  /\ UNCHANGED <<gitVars, plan, latest, earlier, merged, conflicts,
                 conflictRound, repairRound, test, delivery, status, created,
                 integrateVars, interrupts>>

-----------------------------------------------------------------------------
(* dev, and tester_scaffold, which is a dev in all but a few respects: it  *)
(* never rebases, it returns nothing when it fails, and it lists only the  *)
(* commit it just made.                                                    *)

\* What the other actions of a dev leave alone.
DevFrame == UNCHANGED <<checkpointVars, created, integrateVars, interrupts>>

Advance(i, to) == phase' = [phase EXCEPT ![i] = to]

Return(i, result) ==
  /\ Advance(i, "done")
  /\ returned' = [returned EXCEPT ![i] = result]

ReturnFailure(i) == Return(i, IF i = TesterIndex THEN NoResult ELSE Failure(i))

\* Every dev sent after the first round was sent to fix something.
IsRetry == conflictRound > 0

DevHasNoWorktree(i) ==
  /\ phase[i] = "queued" /\ i \notin adopted
  /\ ReturnFailure(i)
  /\ UNCHANGED gitVars /\ DevFrame

DevStarts(i) ==
  /\ phase[i] = "queued" /\ i \in adopted
  /\ ~IsRetry
  /\ Advance(i, "building")
  /\ UNCHANGED <<gitVars, returned>> /\ DevFrame

\* A bug for the checks: the retry goes on from where the dev stood.
DevRetries_NoRebase(i) ==
  /\ phase[i] = "queued" /\ i \in adopted
  /\ IsRetry
  /\ Advance(i, "building")
  /\ UNCHANGED <<gitVars, returned>> /\ DevFrame

DevRetries(i) ==
  /\ phase[i] = "queued" /\ i \in adopted
  /\ IsRetry
  /\ \/ BeginRebaseEmpty(i) /\ Advance(i, "building")
     \/ BeginRebaseConflicts(i) /\ Advance(i, "resolving")
  /\ UNCHANGED returned /\ DevFrame

InTurn(i) == phase[i] \in {"building", "resolving"}

\* The change an agent may make in this round.
Change(i) == <<i, conflictRound + 1>>

AgentFails(i) ==
  /\ InTurn(i)
  /\ AgentEdits(i, Change(i))
  /\ ReturnFailure(i) /\ DevFrame

AgentSucceeds(i) ==
  /\ InTurn(i)
  /\ AgentEdits(i, Change(i))
  /\ Advance(i, "ended")
  /\ UNCHANGED returned /\ DevFrame

DevGivesUp(i) ==
  /\ phase[i] = "ended" /\ i \in rebasing
  /\ ContinueGivesUp(i)
  /\ ReturnFailure(i) /\ DevFrame

\* The commit_all that follows finds nothing left to commit.
DevResolves(i) ==
  /\ phase[i] = "ended" /\ i \in rebasing
  /\ ContinueSucceeds(i)
  /\ Advance(i, "committed")
  /\ UNCHANGED returned /\ DevFrame

DevCommits(i) ==
  /\ phase[i] = "ended" /\ i \notin rebasing
  /\ CommitAll(i)
  /\ Advance(i, "committed")
  /\ returned' = IF i = TesterIndex
                 THEN [returned EXCEPT ![i] =
                         [branch |-> i, succeeded |-> TRUE,
                          commits |-> edits[i] # {}]]
                 ELSE returned
  /\ DevFrame

DevReturns(i) ==
  /\ phase[i] = "committed"
  /\ Return(i, IF i = TesterIndex
               THEN returned[i]
               ELSE [branch |-> i, succeeded |-> TRUE,
                     commits |-> HasCommits(i)])
  /\ UNCHANGED gitVars /\ DevFrame

Dev(i) ==
  \/ DevHasNoWorktree(i) \/ DevStarts(i) \/ DevRetries(i)
  \/ AgentFails(i) \/ AgentSucceeds(i)
  \/ DevGivesUp(i) \/ DevResolves(i) \/ DevCommits(i) \/ DevReturns(i)

(* The superstep ends when every node in it has returned.                  *)
Join ==
  /\ stage = "devs"
  /\ \A i \in Index : phase[i] \in {"idle", "done"}
  /\ latest' = ApplyReturned /\ earlier' = ApplyOrder
  /\ returned' = NothingReturned
  /\ phase' = [i \in Index |-> "idle"]
  /\ stage' = "integrate"
  /\ handled' = {} /\ stopped' = {} /\ aborting' = FALSE
  /\ Superstep
  /\ UNCHANGED <<gitVars, plan, merged, conflicts, conflictRound,
                 repairRound, test, delivery, status, created, interrupts>>

-----------------------------------------------------------------------------
(* integrate: one merge after another, then the report.                    *)

IntegrateFrame ==
  UNCHANGED <<checkpointVars, created, devNodeVars, interrupts>>

IntegrateMerges(w) ==
  /\ stage = "integrate" /\ IsNext(w)
  /\ MergeClean(latest[w].branch)
  /\ handled' = handled \cup {w}
  /\ UNCHANGED <<stopped, aborting>> /\ IntegrateFrame

\* Bugs for the checks: a conflict is not noted, or its merge not aborted.
IntegrateConflicts_Unnoted(w) ==
  /\ stage = "integrate" /\ IsNext(w)
  /\ \/ MergeStops(latest[w].branch) /\ aborting' = TRUE
     \/ MergeRefused(latest[w].branch) /\ aborting' = FALSE
  /\ handled' = handled \cup {w}
  /\ UNCHANGED stopped
  /\ IntegrateFrame

IntegrateConflicts_LeftOpen(w) ==
  /\ stage = "integrate" /\ IsNext(w)
  /\ MergeStops(latest[w].branch) \/ MergeRefused(latest[w].branch)
  /\ handled' = handled \cup {w}
  /\ stopped' = stopped \cup {w}
  /\ UNCHANGED aborting
  /\ IntegrateFrame

IntegrateConflicts(w) ==
  /\ stage = "integrate" /\ IsNext(w)
  /\ \/ MergeStops(latest[w].branch) /\ aborting' = TRUE
     \/ MergeRefused(latest[w].branch) /\ aborting' = FALSE
  /\ handled' = handled \cup {w}
  /\ stopped' = stopped \cup {w}
  /\ IntegrateFrame

IntegrateAborts ==
  /\ stage = "integrate" /\ aborting
  /\ MergeAborts
  /\ aborting' = FALSE
  /\ UNCHANGED <<handled, stopped>> /\ IntegrateFrame

\* A bug for the checks: the checkout is tried again until it succeeds.
IntegrateRaises_Retries ==
  /\ stage = "integrate" /\ ~aborting /\ Todo # {}
  /\ CheckoutFails
  /\ UNCHANGED <<checkpointVars, localVars, interrupts>>

\* Only after an interruption: the merge of the interrupted attempt is open.
IntegrateRaises ==
  /\ stage = "integrate" /\ ~aborting /\ Todo # {}
  /\ CheckoutFails
  /\ Raise

\* A bug for the checks: the record lists this round's merges only.
IntegrateReports_NotCumulative ==
  /\ stage = "integrate" /\ ~aborting /\ Todo = {}
  /\ merged' = {latest[w].branch : w \in handled \ stopped}
  /\ conflicts' = stopped
  /\ conflictRound' = conflictRound + 1
  /\ LET back == AfterIntegrate(stopped, conflictRound + 1)
     IN  IF back # {} THEN Send(back)
         ELSE stage' = "tester_final" /\ UNCHANGED devNodeVars
  /\ handled' = {} /\ stopped' = {}
  /\ Superstep
  /\ UNCHANGED <<gitVars, plan, latest, earlier, repairRound, test, delivery,
                 status, created, aborting, interrupts>>

IntegrateReports ==
  /\ stage = "integrate" /\ ~aborting /\ Todo = {}
  /\ merged' = merged \cup {latest[w].branch : w \in handled \ stopped}
  /\ conflicts' = stopped
  /\ conflictRound' = conflictRound + 1
  /\ LET back == AfterIntegrate(stopped, conflictRound + 1)
     IN  IF back # {} THEN Send(back)
         ELSE stage' = "tester_final" /\ UNCHANGED devNodeVars
  /\ handled' = {} /\ stopped' = {}
  /\ Superstep
  /\ UNCHANGED <<gitVars, plan, latest, earlier, repairRound, test, delivery,
                 status, created, aborting, interrupts>>

-----------------------------------------------------------------------------
(* tester_final: the agent's pass over the main clone and its commit, then *)
(* the verdict -- the test command's exit code or the agent's word.        *)
TesterCommits ==
  /\ stage = "tester_final"
  /\ \E wrote \in SUBSET {<<Verifier, repairRound + 1>>} :
       /\ dirty => wrote # {}
       /\ CommitWorkBranch(wrote)
  /\ stage' = "testing"
  /\ UNCHANGED <<plan, latest, earlier, merged, conflicts, conflictRound,
                 repairRound, test, delivery, status, steps, localVars,
                 interrupts>>

TesterReports ==
  /\ stage = "testing"
  /\ \E passed, leavesDirt \in BOOLEAN :
       /\ TestCommandLeaves(leavesDirt)
       /\ test' = [verdict |-> IF passed THEN "passed" ELSE "failed",
                   ran     |-> work,
                   clean   |-> ~dirty]
       /\ LET back == AfterTests(passed, repairRound + 1)
          IN  IF back # {} THEN Send(back)
              ELSE stage' = "deliver" /\ UNCHANGED devNodeVars
  /\ repairRound' = repairRound + 1
  /\ Superstep
  /\ UNCHANGED <<plan, latest, earlier, merged, conflicts, conflictRound,
                 delivery, status, created, integrateVars, interrupts>>

(* Of a test command that timed out only the shell is killed: what it had  *)
(* started may go on writing to tracked files of the main clone, whatever  *)
(* the graph does meanwhile -- a later test pass included.                 *)
LateWrites ==
  /\ repairRound > 0 /\ test.verdict = "failed"
  /\ stage \notin {"end", "raised"}
  /\ TestCommandLeaves(TRUE)
  /\ UNCHANGED <<checkpointVars, localVars, interrupts>>

(* deliver: the strategy publishes the work branch, or reports an error.   *)
Deliver ==
  /\ stage = "deliver"
  /\ delivery' \in {"ok", "error"}
  /\ stage' = "report"
  /\ Superstep
  /\ UNCHANGED <<gitVars, plan, latest, earlier, merged, conflicts,
                 conflictRound, repairRound, test, status, localVars,
                 interrupts>>

Report ==
  /\ stage = "report"
  /\ status' = FinalStatus
  /\ Cleanup
  /\ stage' = "end"
  /\ Superstep
  /\ UNCHANGED <<plan, latest, earlier, merged, conflicts, conflictRound,
                 repairRound, test, delivery, localVars, interrupts>>

-----------------------------------------------------------------------------
(* The process is interrupted in the middle of a superstep and a new one   *)
(* resumes it: a fresh manager adopts what it finds on disk, the nodes     *)
(* that had not returned start again, and so may those whose results were  *)
(* not yet saved.  A plan whose worktrees were still being created is lost: *)
(* the checkpoint holds the one before it, in a first run none.  A test    *)
(* command cut short may leave tracked files of the main clone modified.   *)
\* A bug for the checks: the new process hands the graph its input again.
ResumesAt_Start == "bootstrap"

ResumesAt ==
  CASE stage = "worktrees" -> "architect"
    [] stage = "testing"   -> "tester_final"
    [] OTHER               -> stage

InterruptAndResumeWith(checkpointed) ==
  /\ interrupts < MaxInterrupts
  /\ stage \notin {"end", "raised"}
  /\ interrupts' = interrupts + 1
  /\ AdoptExisting
  /\ dirty' \in IF stage = "testing" THEN {dirty, TRUE} ELSE {dirty}
  /\ stage' = ResumesAt
  /\ plan' = IF stage = "worktrees" THEN checkpointed ELSE plan
  /\ \E saved \in SUBSET {i \in Index : phase[i] = "done"} :
       /\ phase' = [i \in Index |-> IF i \in saved \/ phase[i] = "idle"
                                    THEN phase[i] ELSE "queued"]
       /\ returned' = [i \in Index |-> IF i \in saved THEN returned[i]
                                                      ELSE NoResult]
  /\ created' = {} /\ handled' = {} /\ stopped' = {} /\ aborting' = FALSE
  /\ UNCHANGED <<latest, earlier, merged, conflicts, conflictRound,
                 repairRound, test, delivery, status, steps>>

InterruptAndResume == InterruptAndResumeWith(NoPlan)

Node ==
  \/ Bootstrap \/ BootstrapFails
  \/ ArchitectFails \/ ArchitectPlans \/ FanOut
  \/ \E i \in Index : ArchitectCreates(i) \/ ArchitectRaises(i)
  \/ \E i \in Index : Dev(i)
  \/ Join
  \/ \E w \in AllItems : IntegrateMerges(w) \/ IntegrateConflicts(w)
  \/ IntegrateAborts \/ IntegrateRaises \/ IntegrateReports
  \/ TesterCommits \/ TesterReports
  \/ Deliver \/ Report

Ended == stage \in {"end", "raised"} /\ UNCHANGED vars

Next == Node \/ LateWrites \/ InterruptAndResume \/ Ended

Spec     == Init /\ [][Next]_vars
FairSpec == Spec /\ WF_vars(Node)

-----------------------------------------------------------------------------
(* Properties.                                                             *)

\* The devs, and the tester's scaffolding, whose changes are on the work
\* branch.
Authors(contents) == {c[1] : c \in contents}
OnWorkBranch == Authors(work) \cap Index

\* The record of merged branches is the truth about the work branch, in both
\* directions, whenever integrate is not in the middle of its merges: what
\* landed is never forgotten by a later round or an interrupted attempt, and
\* nothing is claimed that is not there.  report decides failed, partial or
\* succeeded on this record (integrate.py: "Merges are cumulative").
LandedIsRecorded ==
  stage \notin {"integrate", "raised"} => merged = OnWorkBranch

\* A line that opens or closes a conflict is never committed anywhere, however
\* rebases, failed turns and retries interleave: a resolution with such a line
\* is what continue_rebase refuses.  (Nothing looks for the line between them:
\* a Divider is committed and merged like any change.)
NoEdgeMarkersCommitted ==
  /\ EdgeMarkers \notin work
  /\ \A i \in Index : EdgeMarkers \notin branch[i]

\* A run about to be reported succeeded leaves no dev's work behind: what each
\* dev committed is on the work branch, and cleanup, which removes worktrees
\* by force, has nothing uncommitted or half-rebased to destroy.
NothingLeftBehind ==
  stage = "report" /\ FinalStatus = "succeeded" =>
    \A i \in PlanDevs : /\ branch[i] \subseteq work
                        /\ edits[i] = {} /\ i \notin rebasing

\* The last test pass was green on exactly what is on the work branch.  Only
\* after an earlier pass of this run may the clone it ran in have held more
\* than that: what a test command left, or what one that timed out still wrote.
TestedGreen ==
  /\ test.verdict = "passed" /\ test.ran = work
  /\ test.clean \/ repairRound > 1

\* What a succeeded run delivered is what its final test pass was green on: no
\* commit reached the branch after that pass, and at the first pass of a run
\* nothing that is not delivered lay in the clone.
SucceededMeansTested ==
  stage = "end" /\ status = "succeeded" => TestedGreen

\* After integration every dev result that claims success and commits is
\* either on the work branch or among the conflicts the report lists.
EveryResultAccountedFor ==
  stage \in {"tester_final", "testing", "deliver", "report", "end"} =>
    \A w \in ToMerge : branch[latest[w].branch] \subseteq work \/ w \in conflicts

\* Both retry loops are bounded by their budgets, so a run takes so many
\* supersteps and no more (builder.py: "so a run always terminates").
MaxSteps == 7 + 2 * MaxConflictRounds + 3 * MaxRepairRounds
StepsBounded == steps <= MaxSteps

\* The budgets config.load accepts keep a run within LangGraph's recursion
\* limit, which would otherwise end it with an exception.
WithinRecursionLimit == LoadAccepts => steps < RecursionLimit

\* Once the remote is cloned, no git command a run depends on fails unless the
\* process was interrupted: the work branch can always be checked out, and
\* worktrees always be created.
OnlyInterruptionsRaise == stage = "raised" => interrupts > 0 \/ steps = 0

\* tester.py: the scaffolding is "surfaced as a dev result so integrate merges
\* it like any other branch", so a succeeded run contains all of it.  (When the
\* process is interrupted between the pass's commit and its return, the pass
\* repeated finds nothing to commit, and its branch is passed over.)
ScaffoldIsMerged ==
  stage = "report" /\ FinalStatus = "succeeded" /\ interrupts = 0 =>
    branch[TesterIndex] \subseteq work

\* No step takes anything off the work branch or off the record of merges.
NothingLandedIsLost == [][work \subseteq work' /\ merged \subseteq merged']_vars

\* A round of conflict retries makes progress.  Devs sent back over a conflict
\* rebase onto the work branch as it stands; if each of them succeeds, the
\* first to merge cannot conflict again, so not all the conflicts are found
\* anew.  (Uncommitted changes in the main clone can defeat this, and so can
\* an interruption after a dev gave up and its new files survived the abort:
\* git then refuses the rebase it starts again with.)
ConflictRetry ==
  /\ stage = "integrate" /\ conflictRound \in 1..MaxConflictRounds
  /\ conflicts \cap PlanIds # {}

RetryMakesProgress ==
  [][/\ ConflictRetry /\ stage' \in {"devs", "tester_final"}
     /\ interrupts = 0
     /\ \A w \in conflicts \cap PlanIds : latest[w].succeeded
     /\ ~dirty
     => ~(conflicts \subseteq conflicts')]_vars

\* Every run ends, whatever the agents do, as long as each turn ends.
Terminates == <>(stage \in {"end", "raised"})

\* ... properties a doc or a comment states and the code does not keep:

\* worktrees.py, begin_rebase: "an empty tuple when the rebase was clean".
EmptyMeansClean ==
  \A i \in Index :
    phase[i] = "building" /\ IsRetry => work \subseteq branch[i]

\* worktrees.py, adopt_existing: the run's worktrees are rediscovered, without
\* which "every dev on a resumed run would find nothing prepared and give up".
ResumeAdoptsAll ==
  [][interrupts' # interrupts => trees \subseteq adopted']_vars

\* plan.py, depends_on: "Ids of other work items that must merge before this
\* one" -- those of them that do merge in this round.
DependenciesMergeFirst ==
  \A w \in handled \ stopped :
    w \in PlanIds =>
      \A d \in DependsOn[IndexOf(w)] \cap PlanIds \cap ToMerge : d \in handled

\* ENV.md, WIAB_TEAM_MAX_CONFLICT_ROUNDS: "Retries after a merge conflict".
\* No conflict was found before, so no retry is spent, and the conflicted
\* devs are sent back.
FirstConflictIsRetried ==
  [][/\ stage = "integrate" /\ stage' # "integrate" /\ stage' # "raised"
     /\ conflictRound <= 1 /\ conflicts = {} /\ MaxConflictRounds >= 1
     /\ conflicts' \cap PlanIds # {}
     => stage' = "devs"]_vars
=============================================================================
