---------------------------- MODULE LandingProofs ----------------------------
(* What becomes of the work of one run, for every value of the constants:  *)
(* the scaffolding and the work items of a run about to be reported        *)
(* succeeded are on the work branch, dependencies merge in their order,    *)
(* and a round of conflict retries resolves a conflict.                    *)
EXTENDS MergeRecordProofs, FiniteSetTheorems

USE DEF ItemId, DependsOn

(* The invariants of TeamGraphProofs and MergeRecordProofs these rest on.  *)
GraphInv ==
  /\ TypeOK /\ StepsInv /\ MarkersContained /\ EachWritesItsOwn
  /\ ResultsInv /\ RecordInv /\ AccountedInv

LEMMA GraphInvariant == Spec => []GraphInv
<1>1. Init => GraphInv
  <2>1. Init => AccountedInv
    BY Unclaimed
       DEF Init, AccountedInv, EveryResultAccountedFor, ToMerge, Claims
  <2>. QED
    BY <2>1, InitTypes, StepsInit, MarkersInit, OwnInit, ResultsInit,
       RecordInit DEF Init, GraphInv
<1>2. GraphInv /\ [Next]_vars => GraphInv'
  BY StepTypes, StepsStep, MarkersStep, OwnStep, ResultsStep, RecordStep,
     AccountedStep DEF GraphInv
<1>. QED BY <1>1, <1>2, PTL DEF Spec

-----------------------------------------------------------------------------
(* Frames.  What a dev's step leaves alone: everything of the other devs,  *)
(* and all that is the run's.                                              *)
Untouched(j) ==
  /\ branch'[j] = branch[j] /\ edits'[j] = edits[j] /\ onto'[j] = onto[j]
  /\ j \in rebasing' <=> j \in rebasing
  /\ phase'[j] = phase[j] /\ returned'[j] = returned[j]

LEMMA DevLeaves ==
  ASSUME TypeOK, NEW i \in Index, Dev(i)
  PROVE  /\ UNCHANGED <<checkpointVars, cloneVars, interrupts, integrateVars>>
         /\ \A j \in Index \ {i} : Untouched(j)
         /\ phase[i] \notin {"idle", "done"}
         /\ phase'[i] \notin {"idle", "queued"}
<1>0. /\ phase \in [Index -> Phases] /\ returned \in [Index -> DevResult]
      /\ branch \in [Index -> SUBSET Content]
      /\ edits \in [Index -> SUBSET Content]
      /\ onto \in [Index -> SUBSET Content]
  BY DEF TypeOK, GitTypeOK
<1>. USE <1>0 DEF Untouched, DevFrame, Advance, Return, ReturnFailure, gitVars,
                  devVars, rebaseVars, cloneVars
<1>1. CASE DevHasNoWorktree(i) \/ DevStarts(i) \/ DevReturns(i)
  BY <1>1 DEF DevHasNoWorktree, DevStarts, DevReturns
<1>2. CASE DevRetries(i)
  BY <1>2 DEF DevRetries, BeginRebaseEmpty, BeginRebaseConflicts,
       RebaseReplays, RebaseRefused, RebaseStops, RebaseAlreadyOpen
<1>3. CASE AgentFails(i) \/ AgentSucceeds(i)
  BY <1>3 DEF AgentFails, AgentSucceeds, AgentEdits, InTurn
<1>4. CASE DevGivesUp(i)
  BY <1>4 DEF DevGivesUp, ContinueGivesUp, RebaseAbort
<1>5. CASE DevResolves(i)
  BY <1>5 DEF DevResolves, ContinueSucceeds
<1>6. CASE DevCommits(i)
  BY <1>6 DEF DevCommits, CommitAll
<1>. QED BY <1>1, <1>2, <1>3, <1>4, <1>5, <1>6 DEF Dev

(* A step that is no dev's, and not one of those that set up, send, join   *)
(* or clean up, leaves all the devs as they are.                           *)
DevsAsTheyAre == UNCHANGED <<phase, returned, latest, branch, edits, onto,
                             rebasing, plan>>

LEMMA OthersLeave ==
  ASSUME \/ ArchitectFails \/ Deliver \/ TesterCommits \/ LateWrites
         \/ \E w \in AllItems : IntegrateMerges(w) \/ IntegrateConflicts(w)
         \/ IntegrateAborts \/ IntegrateRaises
         \/ \E i \in Index : ArchitectRaises(i)
         \/ UNCHANGED vars
  PROVE  DevsAsTheyAre
<1>. USE DEF DevsAsTheyAre, gitVars, devVars, rebaseVars, checkpointVars,
             localVars, devNodeVars
<1>1. CASE ArchitectFails \/ Deliver \/ TesterCommits \/ LateWrites
  BY <1>1 DEF ArchitectFails, Deliver, TesterCommits, CommitWorkBranch,
       LateWrites, TestCommandLeaves
<1>2. CASE \/ \E w \in AllItems : IntegrateMerges(w) \/ IntegrateConflicts(w)
           \/ IntegrateAborts \/ IntegrateRaises
  BY <1>2 DEF IntegrateMerges, IntegrateConflicts, IntegrateAborts,
       IntegrateRaises, IntegrateFrame, MergeClean, MergeStops, MergeRefused,
       MergeAborts, CheckoutFails, Raise
<1>3. CASE \/ \E i \in Index : ArchitectRaises(i)
           \/ UNCHANGED vars
  BY <1>3 DEF ArchitectRaises, Raise, vars
<1>. QED BY <1>1, <1>2, <1>3

-----------------------------------------------------------------------------
(* Who is sent.  Only indexes of the plan are, of the work items that share *)
(* an id never one without the last, and nothing is returned by who is not  *)
(* through with its work.                                                   *)
SentInv ==
  /\ \A i \in Index :
       /\ phase[i] # "idle" => i \in PlanIndex
       /\ returned[i] # NoResult => phase[i] \in {"committed", "done"}
  /\ \A i \in PlanDevs :
       phase[i] # "idle" => phase[IndexOf(ItemId[i])] # "idle"

LEMMA TesterInIndex == TesterIndex \in Index /\ Scaffold \in AllItems
BY NDevsAssumption DEF TesterIndex, Index, AllItems

LEMMA NobodySent ==
  ASSUME \A i \in Index : phase'[i] = "idle" /\ returned'[i] = NoResult,
         plan' \in PlanType \cup {NoPlan}
  PROVE  SentInv'
<1>1. PlanDevs' \subseteq Index
  BY NDevsAssumption DEF PlanType, NoPlan, PlanDevs, Devs, Index
<1>. QED BY <1>1 DEF SentInv

LEMMA SentSend ==
  ASSUME TypeOK, NEW S \in SUBSET PlanIndex, Send(S), UNCHANGED plan,
         \A i \in S \cap PlanDevs : IndexOf(ItemId[i]) \in S
  PROVE  SentInv'
<1>1. \A i \in Index : /\ phase'[i] # "idle" <=> i \in S
                       /\ returned'[i] = NoResult
  BY DEF Send, NothingReturned
<1>2. /\ PlanIndex' = PlanIndex /\ PlanDevs' = PlanDevs
      /\ \A w : IndexOf(w)' = IndexOf(w)
  BY DEF PlanIndex, PlanDevs, IndexOf
<1>3. PlanDevs \subseteq Index /\ PlanIndex \subseteq Index
  BY PlanIndexType DEF TypeOK, Devs, Index
<1>4. \A i \in PlanDevs : IndexOf(ItemId[i]) \in Index
  BY <1>3, IndexOfType DEF TypeOK, PlanIds
<1>. QED BY <1>1, <1>2, <1>3, <1>4 DEF SentInv

(* The three edges that send devs: all of the plan; those whose branches   *)
(* conflicted; those with a result.                                        *)
LEMMA SentBack ==
  ASSUME TypeOK, NEW S,
         \/ S = PlanIndex
         \/ \E found, round : S = AfterIntegrate(found, round)
         \/ \E passed, round : S = AfterTests(passed, round)
  PROVE  /\ S \subseteq PlanIndex
         /\ \A i \in S \cap PlanDevs : IndexOf(ItemId[i]) \in S
<1>1. /\ PlanDevs \subseteq PlanIndex
      /\ \A i \in PlanDevs : ItemId[i] \in PlanIds
      /\ \A w \in PlanIds : IndexOf(w) \in PlanDevs /\ ItemId[IndexOf(w)] = w
  BY IndexOfType DEF TypeOK, PlanIndex, PlanIds
<1>2. CASE S = PlanIndex
  BY <1>1, <1>2
<1>3. CASE \E found, round : S = AfterIntegrate(found, round)
  BY <1>1, <1>3 DEF AfterIntegrate
<1>4. CASE \E passed, round : S = AfterTests(passed, round)
  BY <1>1, <1>4 DEF AfterTests
<1>. QED BY <1>2, <1>3, <1>4

LEMMA SentDev ==
  ASSUME TypeOK, SentInv, NEW i \in Index, Dev(i)
  PROVE  SentInv'
<1>1. /\ UNCHANGED plan /\ \A j \in Index \ {i} : Untouched(j)
      /\ phase[i] # "idle" /\ phase'[i] # "idle"
  BY DevLeaves DEF checkpointVars
<1>2. /\ PlanIndex' = PlanIndex /\ PlanDevs' = PlanDevs
      /\ \A w : IndexOf(w)' = IndexOf(w)
  BY <1>1 DEF PlanIndex, PlanDevs, IndexOf
<1>3. \A j \in PlanDevs : j \in Index /\ IndexOf(ItemId[j]) \in Index
  BY PlanIndexType, IndexOfType DEF TypeOK, PlanIds, Devs, Index
<1>4. returned'[i] # NoResult => phase'[i] \in {"committed", "done"}
  <2>. USE DEF TypeOK, DevFrame, Advance, Return, ReturnFailure
  <2>1. CASE DevHasNoWorktree(i) \/ AgentFails(i) \/ DevGivesUp(i)
    BY <2>1 DEF DevHasNoWorktree, AgentFails, DevGivesUp
  <2>2. CASE DevCommits(i) \/ DevReturns(i) \/ DevResolves(i)
    BY <2>2 DEF DevCommits, DevReturns, DevResolves
  <2>3. CASE DevStarts(i) \/ DevRetries(i) \/ AgentSucceeds(i)
    BY <2>3 DEF DevStarts, DevRetries, AgentSucceeds, InTurn, SentInv
  <2>. QED BY <2>1, <2>2, <2>3 DEF Dev
<1>. QED BY <1>1, <1>2, <1>3, <1>4 DEF SentInv, Untouched

LEMMA SentKept ==
  ASSUME SentInv, UNCHANGED <<phase, returned, plan>>
  PROVE  SentInv'
BY DEF SentInv, PlanIndex, PlanDevs, IndexOf

LEMMA SentInterrupt ==
  ASSUME TypeOK, OnlyDevsRun, SentInv, InterruptAndResume
  PROVE  SentInv'
<1>1. PICK saved \in SUBSET {i \in Index : phase[i] = "done"} :
        /\ \A i \in Index :
             phase'[i] = IF i \in saved \/ phase[i] = "idle" THEN phase[i]
                                                             ELSE "queued"
        /\ \A i \in Index :
             returned'[i] = IF i \in saved THEN returned[i] ELSE NoResult
  BY DEF InterruptAndResume, InterruptAndResumeWith
<1>2. CASE stage = "worktrees"
  <2>1. plan' \in PlanType \cup {NoPlan}
    BY <1>2 DEF InterruptAndResume, InterruptAndResumeWith
  <2>2. \A i \in Index : phase'[i] = "idle" /\ returned'[i] = NoResult
    BY <1>1, <1>2 DEF OnlyDevsRun
  <2>. QED BY <2>1, <2>2, NobodySent
<1>3. CASE stage # "worktrees"
  <2>1. UNCHANGED plan
    BY <1>3 DEF InterruptAndResume, InterruptAndResumeWith
  <2>2. /\ PlanIndex' = PlanIndex /\ PlanDevs' = PlanDevs
        /\ \A w : IndexOf(w)' = IndexOf(w)
    BY <2>1 DEF PlanIndex, PlanDevs, IndexOf
  <2>3. \A i \in PlanDevs : i \in Index /\ IndexOf(ItemId[i]) \in Index
    BY PlanIndexType, IndexOfType DEF TypeOK, PlanIds, Devs, Index
  <2>. QED BY <1>1, <2>1, <2>2, <2>3 DEF SentInv
<1>. QED BY <1>2, <1>3

LEMMA SentStep == GraphInv /\ SentInv /\ [Next]_vars => SentInv'
<1>. SUFFICES ASSUME GraphInv, SentInv, [Next]_vars PROVE SentInv'
  OBVIOUS
<1>. USE DEF GraphInv
<1>1. CASE FanOut \/ IntegrateReports \/ TesterReports
  <2>1. UNCHANGED plan
    BY <1>1 DEF FanOut, IntegrateReports, TesterReports
  <2>2. \/ UNCHANGED <<phase, returned>>
        \/ Send(PlanIndex)
        \/ \E found, round : Send(AfterIntegrate(found, round))
        \/ \E passed, round : Send(AfterTests(passed, round))
    BY <1>1 DEF FanOut, IntegrateReports, TesterReports, devNodeVars
  <2>. QED BY <2>1, <2>2, SentKept, SentBack, SentSend
<1>2. CASE \E i \in Index : Dev(i)
  BY <1>2, SentDev
<1>3. CASE Join
  <2>1. /\ plan' \in PlanType \cup {NoPlan}
        /\ \A i \in Index : phase'[i] = "idle" /\ returned'[i] = NoResult
    BY <1>3 DEF Join, TypeOK, NothingReturned
  <2>. QED BY <2>1, NobodySent
<1>4. CASE ArchitectPlans
  <2>1. /\ \A i \in Index : phase'[i] = "idle" /\ returned'[i] = NoResult
        /\ plan' \in PlanType \cup {NoPlan}
    BY <1>4, PlansAssumption
       DEF ArchitectPlans, devNodeVars, ResultsInv, OnlyDevsRun, SentInv
  <2>. QED BY <2>1, NobodySent
<1>5. CASE \/ Bootstrap \/ BootstrapFails \/ Report
           \/ \E i \in Index : ArchitectCreates(i)
  BY <1>5, SentKept
     DEF Bootstrap, BootstrapFails, Raise, Report, ArchitectCreates,
         checkpointVars, localVars, devNodeVars
<1>6. CASE InterruptAndResume
  BY <1>6, SentInterrupt DEF ResultsInv
<1>. QED
  BY <1>1, <1>2, <1>3, <1>4, <1>5, <1>6, OthersLeave, SentKept
     DEF Next, Node, Ended, DevsAsTheyAre

-----------------------------------------------------------------------------
(* The scaffolding.  While nothing interrupted the run, what its branch    *)
(* has and the work branch has not is claimed by a result: one returned    *)
(* and not yet applied, or the one kept.  Its pass is never a retry, so it *)
(* never rebases.                                                          *)
ScaffoldInv ==
  /\ phase[TesterIndex] # "idle" => conflictRound = 0
  /\ TesterIndex \notin rebasing
  /\ interrupts = 0 =>
       \/ branch[TesterIndex] \subseteq work
       \/ Claims(latest[Scaffold])
       \/ /\ phase[TesterIndex] \in {"committed", "done"}
          /\ Claims(returned[TesterIndex])

LEMMA TesterScaffolds ==
  ASSUME TypeOK, NEW i \in Index, WorkItemId(i) = Scaffold
  PROVE  i = TesterIndex
<1>. SUFFICES ASSUME i # TesterIndex PROVE FALSE
  OBVIOUS
<1>1. i \in Devs
  BY NDevsAssumption DEF Index, Devs, TesterIndex
<1>2. ItemId[i] \in Items
  BY <1>1, ItemIdType DEF TypeOK
<1>. QED BY <1>2, ScaffoldAssumption DEF WorkItemId

LEMMA ScaffoldDev ==
  ASSUME GraphInv, ScaffoldInv, NEW i \in Index, Dev(i)
  PROVE  ScaffoldInv'
<1>. DEFINE t == TesterIndex
<1>. USE TesterInIndex DEF GraphInv
<1>0. /\ phase \in [Index -> Phases] /\ returned \in [Index -> DevResult]
      /\ branch \in [Index -> SUBSET Content]
      /\ edits \in [Index -> SUBSET Content]
  BY DEF TypeOK, GitTypeOK
<1>1. /\ UNCHANGED <<conflictRound, latest, work, interrupts>>
      /\ phase[i] \notin {"idle", "done"}
      /\ \A j \in Index \ {i} : Untouched(j)
  BY DevLeaves DEF checkpointVars, cloneVars
<1>2. CASE i # t
  BY <1>1, <1>2 DEF ScaffoldInv, Untouched
<1>3. CASE i = t
  <2>1. conflictRound = 0 /\ t \notin rebasing /\ ~IsRetry
    BY <1>1, <1>3 DEF ScaffoldInv, IsRetry
  <2>2. latest[Scaffold] = NoResult /\ ~Claims(latest[Scaffold])
    BY <1>1, <1>3, Unclaimed DEF ResultsInv, LatestInv
  <2>3. CASE DevHasNoWorktree(i) \/ DevStarts(i) \/ AgentFails(i)
               \/ AgentSucceeds(i)
    <3>1. /\ phase[t] \in {"queued", "building", "resolving"}
          /\ UNCHANGED <<branch, rebasing>>
      BY <1>3, <2>3
         DEF DevHasNoWorktree, DevStarts, AgentFails, AgentSucceeds, InTurn,
             AgentEdits, gitVars, devVars, rebaseVars
    <3>. QED BY <1>1, <2>1, <2>2, <3>1 DEF ScaffoldInv
  <2>4. CASE DevRetries(i) \/ DevGivesUp(i) \/ DevResolves(i)
    BY <1>3, <2>1, <2>4 DEF DevRetries, DevGivesUp, DevResolves
  <2>5. CASE DevCommits(i)
    <3>1. /\ phase[t] = "ended" /\ phase'[t] = "committed"
          /\ returned'[t] = [branch |-> t, succeeded |-> TRUE,
                             commits |-> edits[t] # {}]
          /\ branch'[t] = branch[t] \cup edits[t]
          /\ UNCHANGED rebasing
      BY <1>0, <1>3, <2>1, <2>5
         DEF DevCommits, CommitAll, Advance, MarkersContained, rebaseVars
    <3>2. edits[t] # {} => Claims(returned'[t])
      <4>1. ASSUME edits[t] # {}
            PROVE  returned'[t] = [branch |-> t, succeeded |-> TRUE,
                                   commits |-> TRUE]
        BY <3>1, <4>1
      <4>. QED BY <4>1 DEF Claims
    <3>3. edits[t] = {} => branch'[t] = branch[t]
      BY <3>1
    <3>4. phase[t] \notin {"committed", "done"}
      BY <3>1
    <3>. QED
      BY <1>1, <2>1, <2>2, <3>1, <3>2, <3>3, <3>4 DEF ScaffoldInv
  <2>6. CASE DevReturns(i)
    <3>1. /\ phase[t] = "committed" /\ phase'[t] = "done"
          /\ returned'[t] = returned[t]
          /\ UNCHANGED <<branch, rebasing>>
      BY <1>0, <1>3, <2>6
         DEF DevReturns, Return, Advance, gitVars, devVars, rebaseVars
    <3>. QED BY <1>1, <2>1, <3>1 DEF ScaffoldInv
  <2>. QED BY <2>3, <2>4, <2>5, <2>6 DEF Dev
<1>. QED BY <1>2, <1>3

LEMMA ScaffoldJoin ==
  ASSUME GraphInv, SentInv, ScaffoldInv, Join
  PROVE  ScaffoldInv'
<1>. DEFINE t == TesterIndex
<1>. USE TesterInIndex DEF GraphInv
<1>1. /\ latest' = ApplyReturned /\ phase' = [i \in Index |-> "idle"]
      /\ UNCHANGED <<work, branch, rebasing, interrupts, conflictRound>>
  BY DEF Join, gitVars, cloneVars, devVars, rebaseVars
<1>2. ReturnedFor(Scaffold) \subseteq {t}
  BY TesterScaffolds DEF ReturnedFor
<1>3. CASE Claims(returned[t])
  <2>1. ReturnedFor(Scaffold) = {t}
    BY <1>2, <1>3, Unclaimed DEF ReturnedFor, WorkItemId
  <2>2. Last(ReturnedFor(Scaffold)) = t
    BY <2>1, LastType
  <2>3. latest'[Scaffold] = returned[t]
    BY <1>1, <2>1, <2>2 DEF ApplyReturned
  <2>. QED BY <1>1, <1>3, <2>3 DEF ScaffoldInv
<1>4. CASE Claims(latest[Scaffold])
  <2>1. phase[t] = "idle"
    BY <1>4, Unclaimed DEF ResultsInv, LatestInv
  <2>2. ReturnedFor(Scaffold) = {}
    BY <1>2, <2>1 DEF SentInv, ReturnedFor
  <2>3. latest'[Scaffold] = latest[Scaffold]
    BY <1>1, <2>2 DEF ApplyReturned
  <2>. QED BY <1>1, <1>4, <2>3 DEF ScaffoldInv
<1>5. CASE branch[t] \subseteq work
  BY <1>1, <1>5 DEF ScaffoldInv
<1>. QED BY <1>1, <1>3, <1>4, <1>5 DEF ScaffoldInv

LEMMA ScaffoldStep ==
  GraphInv /\ SentInv /\ ScaffoldInv /\ [Next]_vars => ScaffoldInv'
<1>. SUFFICES ASSUME GraphInv, SentInv, ScaffoldInv, [Next]_vars
              PROVE  ScaffoldInv'
  OBVIOUS
<1>. DEFINE t == TesterIndex
<1>. USE TesterInIndex DEF GraphInv
<1>1. CASE Bootstrap \/ BootstrapFails
  BY <1>1 DEF Bootstrap, BootstrapFails, Clone, NoFiles, ScaffoldInv,
       ResultsInv, OnlyDevsRun, Raise, localVars, devNodeVars
<1>2. CASE \E i \in Index : ArchitectCreates(i)
  <2>1. PICK i \in Index : ArchitectCreates(i)
    BY <1>2
  <2>2. /\ UNCHANGED <<work, rebasing, latest, returned, phase, conflictRound,
                       interrupts>>
        /\ branch'[t] \in {branch[t], work}
    BY <2>1 DEF ArchitectCreates, CreateWorktree, TypeOK, GitTypeOK,
         checkpointVars, cloneVars, rebaseVars, devNodeVars
  <2>. QED BY <2>2 DEF ScaffoldInv
<1>3. CASE ArchitectPlans
  BY <1>3 DEF ArchitectPlans, ScaffoldInv, devNodeVars, gitVars, cloneVars,
       devVars, rebaseVars
<1>4. CASE FanOut
  <2>1. conflictRound' = 0 /\ ~ Claims(latest[Scaffold])
    BY <1>4, Unclaimed DEF FanOut, StepsInv, ResultsInv, LatestInv
  <2>2. phase[t] = "idle"
    BY <1>4 DEF FanOut, ResultsInv, OnlyDevsRun
  <2>3. UNCHANGED <<work, branch, rebasing, interrupts>>
    BY <1>4 DEF FanOut, gitVars, cloneVars, devVars, rebaseVars
  <2>. QED BY <2>1, <2>2, <2>3 DEF ScaffoldInv
<1>5. CASE \E i \in Index : Dev(i)
  BY <1>5, ScaffoldDev
<1>6. CASE Join
  BY <1>6, ScaffoldJoin
<1>7. CASE \/ \E w \in AllItems : IntegrateMerges(w) \/ IntegrateConflicts(w)
           \/ TesterCommits
  <2>1. /\ work \subseteq work'
        /\ UNCHANGED <<conflictRound, interrupts>>
    BY <1>7 DEF IntegrateMerges, IntegrateConflicts, IntegrateFrame,
         MergeClean, MergeStops, MergeRefused, checkpointVars, gitVars,
         cloneVars, TesterCommits, CommitWorkBranch
  <2>2. DevsAsTheyAre
    BY <1>7, OthersLeave
  <2>. QED BY <2>1, <2>2 DEF ScaffoldInv, DevsAsTheyAre
<1>8. CASE IntegrateReports \/ TesterReports
  <2>1. /\ UNCHANGED <<work, branch, rebasing, latest, interrupts>>
        /\ phase[t] = "idle"
        /\ phase' = phase \/ phase'[t] = "idle"
    BY <1>8, BackAreDevs
       DEF IntegrateReports, TesterReports, TestCommandLeaves, Send, gitVars,
           cloneVars, devVars, rebaseVars, devNodeVars, ResultsInv, OnlyDevsRun
  <2>. QED BY <2>1 DEF ScaffoldInv
<1>9. CASE \/ ArchitectFails \/ Deliver \/ LateWrites \/ UNCHANGED vars
           \/ \E i \in Index : ArchitectRaises(i)
           \/ IntegrateAborts \/ IntegrateRaises
  <2>1. UNCHANGED <<work, conflictRound, interrupts>>
    BY <1>9 DEF ArchitectFails, Deliver, LateWrites, TestCommandLeaves,
         ArchitectRaises, IntegrateAborts, IntegrateRaises, MergeAborts,
         CheckoutFails, IntegrateFrame, Raise, checkpointVars, gitVars,
         cloneVars, vars
  <2>2. DevsAsTheyAre
    BY <1>9, OthersLeave
  <2>. QED BY <2>1, <2>2 DEF ScaffoldInv, DevsAsTheyAre
<1>10. CASE Report
  BY <1>10 DEF Report, Cleanup, ScaffoldInv, cloneVars, localVars, devNodeVars
<1>11. CASE InterruptAndResume
  <2>1. interrupts' > 0
    BY <1>11, BudgetsAssumption
       DEF InterruptAndResume, InterruptAndResumeWith, TypeOK
  <2>2. /\ UNCHANGED <<conflictRound, rebasing>>
        /\ phase'[t] # "idle" => phase[t] # "idle"
    BY <1>11 DEF InterruptAndResume, InterruptAndResumeWith, AdoptExisting,
         devVars, rebaseVars
  <2>. QED BY <2>1, <2>2 DEF ScaffoldInv
<1>. QED
  BY <1>1, <1>2, <1>3, <1>4, <1>5, <1>6, <1>7, <1>8, <1>9, <1>10, <1>11
     DEF Next, Node, Ended

LEMMA SentAtInit == Init => SentInv /\ ScaffoldInv
<1>. SUFFICES ASSUME Init PROVE SentInv /\ ScaffoldInv
  OBVIOUS
<1>1. PlanDevs = {} /\ \A i \in Index : phase[i] = "idle" /\ returned[i] = NoResult
  BY DEF Init, PlanDevs, NoPlan, NothingReturned
<1>2. SentInv
  BY <1>1 DEF SentInv
<1>3. ScaffoldInv
  BY TesterInIndex DEF Init, GitInit, NoFiles, ScaffoldInv
<1>. QED BY <1>2, <1>3

LEMMA SentInvariant == Spec => [](GraphInv /\ SentInv /\ ScaffoldInv)
BY SentAtInit, SentStep, ScaffoldStep, GraphInvariant, PTL DEF Spec

\* The branch of the scaffolding pass is all on the work branch of a run about
\* to be reported succeeded that nothing interrupted, whatever its devs did.
THEOREM ScaffoldMerged == Spec => []ScaffoldIsMerged
<1>1. GraphInv /\ ScaffoldInv => ScaffoldIsMerged
  <2>. SUFFICES ASSUME GraphInv, ScaffoldInv, stage = "report",
                       FinalStatus = "succeeded", interrupts = 0
                PROVE  branch[TesterIndex] \subseteq work
    BY DEF ScaffoldIsMerged
  <2>. USE TesterInIndex DEF GraphInv
  <2>1. phase[TesterIndex] = "idle"
    BY DEF ResultsInv, OnlyDevsRun
  <2>2. CASE Claims(latest[Scaffold])
    <3>1. latest[Scaffold].branch = TesterIndex
      <4>1. WorkItemId(latest[Scaffold].branch) = Scaffold
        BY <2>2, Unclaimed DEF ResultsInv, LatestInv
      <4>2. latest[Scaffold].branch \in Index
        BY DEF TypeOK, DevResult
      <4>. QED BY <4>1, <4>2, TesterScaffolds
    <3>2. Scaffold \in ToMerge
      BY <2>2 DEF ToMerge, Claims
    <3>3. conflicts = {}
      BY DEF FinalStatus, FellShort
    <3>. QED BY <3>1, <3>2, <3>3 DEF AccountedInv, EveryResultAccountedFor
  <2>. QED BY <2>1, <2>2 DEF ScaffoldInv
<1>. QED BY SentInvariant, <1>1, PTL

-----------------------------------------------------------------------------
(* The work items.  A dev whose pass ended well has committed everything   *)
(* it had, and a result that lists no commit is of a branch that is all on *)
(* the work branch already.  Results are known by the id of their work     *)
(* item, and the last work item with an id is the one its result is of.    *)
Tidy(i) == edits[i] = {} /\ i \notin rebasing

ReturnsTidyInv ==
  \A i \in Devs :
    /\ phase[i] = "committed" => Tidy(i)
    /\ phase[i] = "done" /\ returned[i].succeeded =>
         Tidy(i) /\ (returned[i].commits \/ branch[i] \subseteq work)

NamedInv ==
  \A w \in PlanIds :
    /\ stage = "devs" => latest[w] # NoResult \/ phase[IndexOf(w)] # "idle"
    /\ stage \in {"integrate", "tester_final", "testing", "deliver", "report"}
         => latest[w] # NoResult
    /\ latest[w] # NoResult => latest[w].branch = IndexOf(w)
    /\ phase[IndexOf(w)] = "idle" /\ latest[w].succeeded =>
         /\ Tidy(IndexOf(w))
         /\ latest[w].commits \/ branch[IndexOf(w)] \subseteq work

ItemsInv == ReturnsTidyInv /\ NamedInv

LEMMA LastIs ==
  ASSUME NEW S \in SUBSET Index, NEW i \in S, \A j \in S : j <= i
  PROVE  Last(S) = i
<1>1. ASSUME NEW k \in S, \A j \in S : j <= k
      PROVE  k = i
  BY <1>1, NDevsAssumption DEF Index
<1>. QED BY <1>1 DEF Last

LEMMA IndexOfLast ==
  ASSUME TypeOK, NEW w \in PlanIds
  PROVE  /\ IndexOf(w) \in PlanDevs /\ IndexOf(w) \in Devs
         /\ ItemId[IndexOf(w)] = w
         /\ \A i \in PlanDevs : ItemId[i] = w => i <= IndexOf(w)
         /\ w \in AllItems /\ w # Scaffold
<1>. DEFINE S == {i \in PlanDevs : ItemId[i] = w}
<1>1. S \in SUBSET Index /\ S # {}
  BY PlanIndexType DEF TypeOK, PlanIds, Devs, Index
<1>2. PICK i \in S : \A j \in S : j <= i
  BY <1>1, LastIndex
<1>3. IndexOf(w) = i
  BY <1>1, <1>2, LastIs DEF IndexOf
<1>4. PlanDevs \subseteq Devs
  BY PlanIndexType DEF TypeOK
<1>5. w \in Items
  BY <1>4, ItemIdType DEF PlanIds, TypeOK
<1>. QED BY <1>2, <1>3, <1>4, <1>5, ScaffoldAssumption DEF AllItems

(* A step that leaves the devs, the results and the plan, and takes        *)
(* nothing off the work branch.                                            *)
LEMMA ItemsKept ==
  ASSUME ItemsInv, work \subseteq work', DevsAsTheyAre,
         stage' = "devs" => stage = "devs",
         stage' \in {"integrate", "tester_final", "testing", "deliver",
                     "report"}
           => stage \in {"integrate", "tester_final", "testing", "deliver",
                         "report"}
  PROVE  ItemsInv'
<1>1. /\ PlanIds' = PlanIds /\ \A w : IndexOf(w)' = IndexOf(w)
  BY DEF DevsAsTheyAre, PlanIds, PlanDevs, IndexOf
<1>2. ReturnsTidyInv'
  BY DEF ItemsInv, ReturnsTidyInv, DevsAsTheyAre, Tidy
<1>3. NamedInv'
  BY <1>1 DEF ItemsInv, NamedInv, DevsAsTheyAre, Tidy
<1>. QED BY <1>2, <1>3 DEF ItemsInv

(* While the worktrees are set up there is no result yet.                  *)
LEMMA ItemsAtStart ==
  ASSUME TypeOK',
         stage' \in {"bootstrap", "architect", "worktrees", "raised", "end"},
         \A w \in AllItems : latest'[w] = NoResult,
         \A i \in Index : phase'[i] = "idle"
  PROVE  ItemsInv'
<1>1. ~ NoResult.succeeded
  BY DEF NoResult
<1>2. PlanDevs' \subseteq Devs
  BY NDevsAssumption DEF TypeOK, PlanType, NoPlan, PlanDevs, Devs
<1>3. PlanIds' \subseteq AllItems
  BY <1>2, NoPlanIdsType DEF PlanIds, AllItems, TypeOK, PlanType
<1>4. Devs \subseteq Index
  BY DEF Devs, Index
<1>. QED BY <1>1, <1>3, <1>4 DEF ItemsInv, ReturnsTidyInv, NamedInv

LEMMA ItemsSend ==
  ASSUME TypeOK, ResultsInv, ItemsInv, stage # "devs", NEW S, Send(S),
         UNCHANGED <<plan, latest, work, branch, edits, rebasing>>,
         \A w \in PlanIds : latest[w] # NoResult \/ IndexOf(w) \in S
  PROVE  ItemsInv'
<1>1. /\ PlanIds' = PlanIds /\ \A w : IndexOf(w)' = IndexOf(w)
  BY DEF PlanIds, PlanDevs, IndexOf
<1>2. /\ Devs \subseteq Index /\ stage' = "devs"
      /\ \A i \in Index : /\ phase[i] = "idle"
                          /\ phase'[i] \in {"idle", "queued"}
                          /\ phase'[i] = "queued" <=> i \in S
  BY DEF Send, Devs, Index, ResultsInv, OnlyDevsRun
<1>3. \A w \in PlanIds : IndexOf(w) \in Index
  BY <1>2, IndexOfLast
<1>4. ReturnsTidyInv'
  BY <1>2 DEF ReturnsTidyInv
<1>5. NamedInv'
  BY <1>1, <1>2, <1>3 DEF ItemsInv, NamedInv, Tidy
<1>. QED BY <1>4, <1>5 DEF ItemsInv

LEMMA ItemsDev ==
  ASSUME GraphInv, ItemsInv, NEW i \in Index, Dev(i)
  PROVE  ItemsInv'
<1>. USE DEF GraphInv
<1>0. /\ phase \in [Index -> Phases] /\ returned \in [Index -> DevResult]
      /\ branch \in [Index -> SUBSET Content]
      /\ edits \in [Index -> SUBSET Content]
      /\ Devs \subseteq Index /\ TesterIndex \notin Devs
  BY DEF TypeOK, GitTypeOK, Devs, Index, TesterIndex
<1>1. /\ UNCHANGED <<stage, plan, latest, work>>
      /\ phase[i] # "idle" /\ phase'[i] # "idle"
      /\ \A j \in Index \ {i} : Untouched(j)
  BY DevLeaves DEF checkpointVars, cloneVars
<1>2. /\ PlanIds' = PlanIds /\ \A w : IndexOf(w)' = IndexOf(w)
  BY <1>1 DEF PlanIds, PlanDevs, IndexOf
<1>3. \A w \in PlanIds : IndexOf(w) \in Index
  BY <1>0, IndexOfLast
<1>4. NamedInv'
  BY <1>1, <1>2, <1>3 DEF ItemsInv, NamedInv, Untouched, Tidy
<1>5. i \in Devs =>
        /\ phase'[i] = "committed" => Tidy(i)'
        /\ phase'[i] = "done" /\ returned'[i].succeeded =>
             Tidy(i)' /\ (returned'[i].commits \/ branch'[i] \subseteq work)
  <2>. SUFFICES ASSUME i \in Devs
                PROVE  /\ phase'[i] = "committed" => Tidy(i)'
                       /\ phase'[i] = "done" /\ returned'[i].succeeded =>
                            /\ Tidy(i)'
                            /\ returned'[i].commits
                                 \/ branch'[i] \subseteq work
    OBVIOUS
  <2>. USE <1>0 DEF Advance, Return, Tidy
  <2>1. CASE DevHasNoWorktree(i) \/ AgentFails(i) \/ DevGivesUp(i)
    <3>1. phase'[i] = "done" /\ returned'[i] = Failure(i)
      BY <2>1 DEF DevHasNoWorktree, AgentFails, DevGivesUp, ReturnFailure
    <3>. QED BY <3>1 DEF Failure
  <2>2. CASE DevStarts(i) \/ DevRetries(i) \/ AgentSucceeds(i)
    BY <2>2 DEF DevStarts, DevRetries, AgentSucceeds
  <2>3. CASE DevResolves(i)
    BY <2>3 DEF DevResolves, ContinueSucceeds
  <2>4. CASE DevCommits(i)
    BY <2>4 DEF DevCommits, CommitAll, rebaseVars
  <2>5. CASE DevReturns(i)
    <3>1. /\ Tidy(i) /\ UNCHANGED <<branch, edits, rebasing>>
          /\ phase'[i] = "done"
      BY <2>5 DEF DevReturns, ItemsInv, ReturnsTidyInv, gitVars, devVars,
           rebaseVars
    <3>2. returned'[i] = [branch |-> i, succeeded |-> TRUE,
                          commits |-> HasCommits(i)]
      BY <2>5 DEF DevReturns
    <3>3. returned'[i].commits = HasCommits(i)
      BY <3>2
    <3>. QED BY <3>1, <3>3 DEF HasCommits
  <2>. QED BY <2>1, <2>2, <2>3, <2>4, <2>5 DEF Dev
<1>6. ReturnsTidyInv'
  BY <1>0, <1>1, <1>5 DEF ItemsInv, ReturnsTidyInv, Untouched, Tidy
<1>. QED BY <1>4, <1>6 DEF ItemsInv

(* The devs' superstep ends: of the work items that share an id the last   *)
(* one's result is kept, for it was sent if any of them was.               *)
LEMMA JoinTakesLast ==
  ASSUME GraphInv, SentInv, Join, NEW w \in PlanIds
  PROVE  /\ phase[IndexOf(w)] \in {"idle", "done"}
         /\ phase[IndexOf(w)] = "idle" => latest'[w] = latest[w]
         /\ phase[IndexOf(w)] = "done" =>
              /\ latest'[w] = returned[IndexOf(w)]
              /\ latest'[w] # NoResult /\ latest'[w].branch = IndexOf(w)
<1>. USE DEF GraphInv
<1>. DEFINE k == IndexOf(w)
<1>1. /\ \A i \in Index : phase[i] \in {"idle", "done"}
      /\ latest' = ApplyReturned
  BY DEF Join
<1>2. Devs \subseteq Index /\ TesterIndex \notin Devs
  BY DEF Devs, Index, TesterIndex
<1>3. /\ k \in PlanDevs /\ k \in Devs /\ ItemId[k] = w
      /\ \A i \in PlanDevs : ItemId[i] = w => i <= k
      /\ w \in AllItems /\ w # Scaffold
  BY IndexOfLast
<1>4. \A i \in ReturnedFor(w) :
        i \in PlanDevs /\ ItemId[i] = w /\ phase[i] # "idle"
  BY <1>3 DEF SentInv, ReturnedFor, WorkItemId, PlanIndex
<1>5. CASE phase[k] = "idle"
  <2>1. ReturnedFor(w) = {}
    BY <1>4, <1>5 DEF SentInv
  <2>. QED BY <1>1, <1>3, <1>5, <2>1 DEF ApplyReturned
<1>6. CASE phase[k] = "done"
  <2>1. returned[k] # NoResult /\ returned[k].branch = k
    BY <1>2, <1>3, <1>6 DEF ResultsInv, ReturnedInv
  <2>2. k \in ReturnedFor(w) /\ ReturnedFor(w) \in SUBSET Index
    BY <1>2, <1>3, <2>1 DEF ReturnedFor, WorkItemId
  <2>3. Last(ReturnedFor(w)) = k
    BY <1>3, <1>4, <2>2, LastIs
  <2>4. latest'[w] = returned[k]
    BY <1>1, <1>3, <2>2, <2>3 DEF ApplyReturned
  <2>. QED BY <1>6, <2>1, <2>4
<1>. QED BY <1>1, <1>2, <1>3, <1>5, <1>6

LEMMA ItemsJoin ==
  ASSUME GraphInv, SentInv, ItemsInv, Join
  PROVE  ItemsInv'
<1>. USE DEF GraphInv
<1>1. /\ stage = "devs" /\ stage' = "integrate"
      /\ \A i \in Index : phase'[i] = "idle"
      /\ UNCHANGED <<plan, work, branch, edits, rebasing>>
  BY DEF Join, gitVars, cloneVars, devVars, rebaseVars
<1>2. /\ PlanIds' = PlanIds /\ \A w : IndexOf(w)' = IndexOf(w)
  BY <1>1 DEF PlanIds, PlanDevs, IndexOf
<1>3. Devs \subseteq Index
  BY DEF Devs, Index
<1>4. ReturnsTidyInv'
  BY <1>1, <1>3 DEF ReturnsTidyInv
<1>5. ASSUME NEW w \in PlanIds
      PROVE  /\ latest'[w] # NoResult /\ latest'[w].branch = IndexOf(w)
             /\ latest'[w].succeeded =>
                  /\ Tidy(IndexOf(w))
                  /\ latest'[w].commits \/ branch[IndexOf(w)] \subseteq work
  <2>1. IndexOf(w) \in Devs
    BY IndexOfLast
  <2>. QED
    BY <1>1, <2>1, JoinTakesLast DEF ItemsInv, ReturnsTidyInv, NamedInv
<1>6. NamedInv'
  BY <1>1, <1>2, <1>5 DEF NamedInv, Tidy
<1>. QED BY <1>4, <1>6 DEF ItemsInv

LEMMA ItemsInterrupt ==
  ASSUME GraphInv, ItemsInv, TypeOK', InterruptAndResume
  PROVE  ItemsInv'
<1>. USE DEF GraphInv
<1>1. PICK saved \in SUBSET {i \in Index : phase[i] = "done"} :
        /\ \A i \in Index :
             phase'[i] = IF i \in saved \/ phase[i] = "idle" THEN phase[i]
                                                             ELSE "queued"
        /\ \A i \in Index :
             returned'[i] = IF i \in saved THEN returned[i] ELSE NoResult
  BY DEF InterruptAndResume, InterruptAndResumeWith
<1>2. UNCHANGED <<latest, work, branch, edits, rebasing>>
  BY DEF InterruptAndResume, InterruptAndResumeWith, AdoptExisting, cloneVars,
         devVars, rebaseVars
<1>3. CASE stage = "worktrees"
  <2>1. stage' = "architect"
    BY <1>3 DEF InterruptAndResume, InterruptAndResumeWith, ResumesAt
  <2>2. /\ \A w \in AllItems : latest'[w] = NoResult
        /\ \A i \in Index : phase'[i] = "idle"
    BY <1>1, <1>2, <1>3 DEF ResultsInv, OnlyDevsRun, LatestInv
  <2>. QED BY <2>1, <2>2, ItemsAtStart
<1>4. CASE stage # "worktrees"
  <2>1. UNCHANGED plan
    BY <1>4 DEF InterruptAndResume, InterruptAndResumeWith
  <2>2. /\ PlanIds' = PlanIds /\ \A w : IndexOf(w)' = IndexOf(w)
    BY <2>1 DEF PlanIds, PlanDevs, IndexOf
  <2>3. /\ stage' = "devs" <=> stage = "devs"
        /\ stage' = stage \/ (stage = "testing" /\ stage' = "tester_final")
    BY <1>4 DEF InterruptAndResume, InterruptAndResumeWith, ResumesAt
  <2>4. /\ Devs \subseteq Index
        /\ \A w \in PlanIds : IndexOf(w) \in Index
    BY IndexOfLast DEF Devs, Index
  <2>5. ReturnsTidyInv'
    BY <1>1, <1>2, <2>4 DEF ItemsInv, ReturnsTidyInv, Tidy
  <2>6. NamedInv'
    BY <1>1, <1>2, <2>2, <2>3, <2>4 DEF ItemsInv, NamedInv, Tidy
  <2>. QED BY <2>5, <2>6 DEF ItemsInv
<1>. QED BY <1>3, <1>4

LEMMA ItemsReport == ASSUME GraphInv, ItemsInv, Report PROVE ItemsInv'
<1>1. /\ PlanIds' = PlanIds /\ \A w : IndexOf(w)' = IndexOf(w)
      /\ UNCHANGED <<phase, returned, latest, branch, work>>
      /\ stage' = "end"
  BY DEF Report, Cleanup, cloneVars, localVars, devNodeVars, PlanIds, PlanDevs,
         IndexOf
<1>2. Devs \subseteq Index /\ \A w \in PlanIds : IndexOf(w) \in Index
  BY IndexOfLast DEF GraphInv, Devs, Index
<1>3. \A i \in Index : Tidy(i) => Tidy(i)'
  BY DEF Report, Cleanup, Tidy
<1>4. ReturnsTidyInv'
  BY <1>1, <1>2, <1>3 DEF ItemsInv, ReturnsTidyInv
<1>5. NamedInv'
  BY <1>1, <1>2, <1>3 DEF ItemsInv, NamedInv
<1>. QED BY <1>4, <1>5 DEF ItemsInv

LEMMA ItemsStep == GraphInv /\ SentInv /\ ItemsInv /\ [Next]_vars => ItemsInv'
<1>. SUFFICES ASSUME GraphInv, SentInv, ItemsInv, [Next]_vars PROVE ItemsInv'
  OBVIOUS
<1>. USE DEF GraphInv
<1>0. TypeOK'
  BY StepTypes
<1>1. CASE \/ Bootstrap \/ BootstrapFails \/ ArchitectFails \/ ArchitectPlans
           \/ \E i \in Index : ArchitectCreates(i) \/ ArchitectRaises(i)
  <2>1. /\ stage \in {"bootstrap", "architect", "worktrees"}
        /\ stage' \in {"bootstrap", "architect", "worktrees", "raised", "end"}
        /\ UNCHANGED <<phase, latest>>
    BY <1>1 DEF Bootstrap, BootstrapFails, ArchitectFails, ArchitectPlans,
         ArchitectCreates, ArchitectRaises, Raise, checkpointVars, localVars,
         devNodeVars
  <2>2. /\ \A w \in AllItems : latest'[w] = NoResult
        /\ \A i \in Index : phase'[i] = "idle"
    BY <2>1 DEF ResultsInv, OnlyDevsRun, LatestInv
  <2>. QED BY <1>0, <2>1, <2>2, ItemsAtStart
<1>2. CASE FanOut
  <2>1. /\ stage # "devs" /\ Send(PlanIndex)
        /\ UNCHANGED <<plan, latest, work, branch, edits, rebasing>>
    BY <1>2 DEF FanOut, gitVars, cloneVars, devVars, rebaseVars
  <2>2. \A w \in PlanIds : IndexOf(w) \in PlanIndex
    BY IndexOfLast DEF PlanIndex
  <2>. QED BY <2>1, <2>2, ItemsSend
<1>3. CASE \E i \in Index : Dev(i)
  BY <1>3, ItemsDev
<1>4. CASE Join
  BY <1>4, ItemsJoin
<1>5. CASE IntegrateReports \/ TesterReports
  <2>1. /\ stage \in {"integrate", "testing"}
        /\ UNCHANGED <<plan, latest, work, branch, edits, rebasing>>
        /\ \/ \E S : Send(S)
           \/ /\ stage' \in {"tester_final", "deliver"}
              /\ UNCHANGED <<phase, returned>>
    BY <1>5 DEF IntegrateReports, TesterReports, TestCommandLeaves, gitVars,
         cloneVars, devVars, rebaseVars, devNodeVars
  <2>2. \A w \in PlanIds : latest[w] # NoResult
    BY <1>5 DEF ItemsInv, NamedInv, IntegrateReports, TesterReports
  <2>3. CASE \E S : Send(S)
    BY <2>1, <2>2, <2>3, ItemsSend
  <2>4. CASE /\ stage' \in {"tester_final", "deliver"}
             /\ UNCHANGED <<phase, returned>>
    <3>1. work \subseteq work' /\ UNCHANGED onto
      BY <1>5, <2>1 DEF IntegrateReports, TesterReports, TestCommandLeaves,
           gitVars, devVars, rebaseVars
    <3>. QED BY <2>1, <2>4, <3>1, ItemsKept DEF DevsAsTheyAre
  <2>. QED BY <2>1, <2>3, <2>4
<1>6. CASE \/ \E w \in AllItems : IntegrateMerges(w) \/ IntegrateConflicts(w)
           \/ IntegrateAborts \/ IntegrateRaises \/ TesterCommits
           \/ Deliver \/ LateWrites \/ UNCHANGED vars
  <2>1. /\ work \subseteq work'
        /\ \/ stage' = stage
           \/ /\ stage \in {"tester_final", "deliver"}
              /\ stage' \in {"testing", "report"}
           \/ stage' = "raised"
    BY <1>6 DEF IntegrateMerges, IntegrateConflicts, IntegrateFrame,
         MergeClean, MergeStops, MergeRefused, IntegrateAborts, MergeAborts,
         IntegrateRaises, CheckoutFails, Raise, TesterCommits,
         CommitWorkBranch, Deliver, LateWrites, TestCommandLeaves, vars,
         checkpointVars, gitVars, cloneVars
  <2>2. DevsAsTheyAre
    BY <1>6, OthersLeave
  <2>. QED BY <2>1, <2>2, ItemsKept
<1>7. CASE Report
  BY <1>7, ItemsReport
<1>8. CASE InterruptAndResume
  BY <1>0, <1>8, ItemsInterrupt
<1>. QED
  BY <1>1, <1>2, <1>3, <1>4, <1>5, <1>6, <1>7, <1>8 DEF Next, Node, Ended

LEMMA ItemsInvariant == Spec => [](GraphInv /\ SentInv /\ ItemsInv)
<1>1. Init => ItemsInv
  <2>. SUFFICES ASSUME Init PROVE ItemsInv
    OBVIOUS
  <2>1. PlanIds = {}
    BY DEF Init, NoPlan, PlanIds, PlanDevs
  <2>2. Devs \subseteq Index
    BY DEF Devs, Index
  <2>. QED BY <2>1, <2>2 DEF Init, ItemsInv, ReturnsTidyInv, NamedInv
<1>2. GraphInv /\ SentInv /\ ItemsInv /\ [Next]_vars => ItemsInv'
  BY ItemsStep
<1>. QED BY <1>1, <1>2, SentInvariant, PTL DEF Spec

\* The work items whose results the graph keeps, one for each id of the plan,
\* leave nothing behind in a run about to be reported succeeded: what their
\* devs committed is on the work branch, and cleanup finds nothing uncommitted
\* or half-rebased to destroy in their worktrees.
NothingNamedLeftBehind ==
  stage = "report" /\ FinalStatus = "succeeded" =>
    \A w \in PlanIds : branch[IndexOf(w)] \subseteq work /\ Tidy(IndexOf(w))

LEMMA SucceededLandsItems ==
  GraphInv /\ ItemsInv => NothingNamedLeftBehind
<1>. SUFFICES ASSUME GraphInv, ItemsInv, stage = "report",
                     FinalStatus = "succeeded", NEW w \in PlanIds
              PROVE  branch[IndexOf(w)] \subseteq work /\ Tidy(IndexOf(w))
  BY DEF NothingNamedLeftBehind
<1>. USE DEF GraphInv
<1>1. w \in AllItems /\ IndexOf(w) \in Index
  BY IndexOfLast DEF Devs, Index
<1>2. latest[w] # NoResult /\ latest[w].branch = IndexOf(w)
  BY DEF ItemsInv, NamedInv
<1>3. latest[w].succeeded /\ conflicts = {}
  BY <1>1, <1>2 DEF FinalStatus, FellShort
<1>4. phase[IndexOf(w)] = "idle"
  BY <1>1 DEF ResultsInv, OnlyDevsRun
<1>5. /\ Tidy(IndexOf(w))
      /\ latest[w].commits \/ branch[IndexOf(w)] \subseteq work
  BY <1>3, <1>4 DEF ItemsInv, NamedInv
<1>6. CASE latest[w].commits
  <2>1. w \in ToMerge
    BY <1>1, <1>3, <1>6 DEF ToMerge
  <2>. QED
    BY <1>2, <1>3, <1>5, <2>1 DEF AccountedInv, EveryResultAccountedFor
<1>. QED BY <1>5, <1>6

\* ... for any plan and any ids, also when several work items share one.
THEOREM NamedWorkLands == Spec => []NothingNamedLeftBehind
BY ItemsInvariant, SucceededLandsItems, PTL

(* The plan in force is none yet, or one the architect returned.           *)
PlanGiven == plan \in Plans \cup {NoPlan}

LEMMA PlanGivenStep ==
  ASSUME PlanGiven, [Next]_vars
  PROVE  PlanGiven'
<1>1. CASE ArchitectPlans
  BY <1>1 DEF ArchitectPlans, PlanGiven
<1>2. CASE InterruptAndResume
  BY <1>2 DEF InterruptAndResume, InterruptAndResumeWith, PlanGiven
<1>3. CASE \E i \in Index : Dev(i)
  BY <1>3 DEF Dev, DevHasNoWorktree, DevStarts, DevRetries, AgentFails,
       AgentSucceeds, DevGivesUp, DevResolves, DevCommits, DevReturns,
       DevFrame, checkpointVars, PlanGiven
<1>4. ASSUME UNCHANGED plan PROVE PlanGiven'
  BY <1>4 DEF PlanGiven
<1>5. CASE \/ Bootstrap \/ BootstrapFails \/ ArchitectFails \/ FanOut \/ Join
           \/ \E i \in Index : ArchitectCreates(i) \/ ArchitectRaises(i)
           \/ LateWrites \/ UNCHANGED vars
  BY <1>4, <1>5
     DEF Bootstrap, BootstrapFails, ArchitectFails, FanOut, Join,
         ArchitectCreates, ArchitectRaises, Raise, LateWrites, checkpointVars,
         vars
<1>6. CASE \/ \E w \in AllItems : IntegrateMerges(w) \/ IntegrateConflicts(w)
           \/ IntegrateAborts \/ IntegrateRaises \/ IntegrateReports
           \/ TesterCommits \/ TesterReports \/ Deliver \/ Report
  BY <1>4, <1>6
     DEF IntegrateMerges, IntegrateConflicts, IntegrateAborts,
         IntegrateRaises, IntegrateFrame, IntegrateReports, TesterCommits,
         TesterReports, Deliver, Report, Raise, checkpointVars
<1>. QED BY <1>1, <1>2, <1>3, <1>5, <1>6 DEF Next, Node, Ended

LEMMA PlanGivenInvariant == Spec => []PlanGiven
<1>1. Init => PlanGiven
  BY DEF Init, PlanGiven
<1>. QED BY <1>1, PlanGivenStep, PTL DEF Spec

(* A plan with a work item is one the architect returned.                  *)
LEMMA PlanWithItems ==
  ASSUME PlanGiven, PlanDevs # {}
  PROVE  plan \in Plans
BY DEF PlanGiven, PlanDevs, NoPlan

\* A plan names each of its work items differently, which nothing in the code
\* makes sure of: an entry keeps the id the architect gave it.
IdsDistinct ==
  \A p \in Plans : \A i, j \in 1..p.items : p.ids[i] = p.ids[j] => i = j

\* When the ids are distinct, no dev's work is left behind: what every dev of
\* the plan committed is on the work branch of a run about to be reported
\* succeeded, and no worktree that cleanup removes by force holds anything
\* uncommitted or half-rebased.
THEOREM WorkLands == IdsDistinct => (Spec => []NothingLeftBehind)
<1>. SUFFICES ASSUME IdsDistinct PROVE Spec => []NothingLeftBehind
  OBVIOUS
<1>1. GraphInv /\ ItemsInv /\ PlanGiven => NothingLeftBehind
  <2>. SUFFICES ASSUME GraphInv, ItemsInv, PlanGiven, stage = "report",
                       FinalStatus = "succeeded", NEW i \in PlanDevs
                PROVE  branch[i] \subseteq work /\ Tidy(i)
    BY DEF NothingLeftBehind, Tidy
  <2>1. ItemId[i] \in PlanIds /\ i \in Devs
    BY PlanIndexType DEF GraphInv, TypeOK, PlanIds
  <2>2. IndexOf(ItemId[i]) = i
    BY <2>1, IndexOfLast, PlanWithItems DEF GraphInv, IdsDistinct, PlanDevs
  <2>. QED
    BY <2>1, <2>2, SucceededLandsItems DEF NothingNamedLeftBehind
<1>. QED BY ItemsInvariant, PlanGivenInvariant, <1>1, PTL

-----------------------------------------------------------------------------
(* The order of the merges.  When the dependencies a plan declares are     *)
(* closed -- an item declares what its dependencies declare, and nothing   *)
(* declares itself -- an item declares more of them than any it depends    *)
(* on, so _merge_order puts it later.                                      *)
DependenciesClosed ==
  \A p \in Plans : \A i, j \in 1..p.items :
    /\ p.ids[i] \notin p.deps[i]
    /\ p.ids[j] \in p.deps[i] => p.deps[j] \subseteq p.deps[i]

OrderInv ==
  /\ stage \notin {"integrate", "raised"} => handled = {}
  /\ DependenciesMergeFirst

LEMMA PlanIdsFinite ==
  ASSUME TypeOK
  PROVE  IsFiniteSet(PlanIds)
<1>. DEFINE f == [i \in PlanDevs |-> ItemId[i]]
<1>1. IsFiniteSet(PlanDevs)
  <2>1. IsFiniteSet(Devs)
    BY NDevsAssumption, FS_Interval DEF Devs
  <2>. QED BY <2>1, PlanIndexType, FS_Subset DEF TypeOK
<1>2. f \in Surjection(PlanDevs, PlanIds)
  BY DEF Surjection, PlanIds
<1>. QED BY <1>1, <1>2, FS_Surjection

LEMMA DependencyIsShallower ==
  ASSUME TypeOK, PlanGiven, DependenciesClosed, NEW w \in PlanIds,
         NEW d \in DependsOn[IndexOf(w)] \cap PlanIds
  PROVE  Depth(d) \in Nat /\ Depth(w) \in Nat /\ Depth(d) < Depth(w) /\ d # w
<1>. DEFINE A == DependsOn[IndexOf(d)] \cap PlanIds
            B == DependsOn[IndexOf(w)] \cap PlanIds
<1>1. /\ IndexOf(d) \in PlanDevs /\ ItemId[IndexOf(d)] = d
      /\ IndexOf(w) \in PlanDevs /\ ItemId[IndexOf(w)] = w
  BY IndexOfLast
<1>2. A \subseteq B /\ d \in B /\ d \notin A /\ d # w
  BY <1>1, PlanWithItems DEF DependenciesClosed, PlanDevs
<1>3. IsFiniteSet(A) /\ IsFiniteSet(B)
  BY PlanIdsFinite, FS_Subset
<1>4. /\ Cardinality(A) \in Nat /\ Cardinality(B) \in Nat
      /\ Cardinality(A) <= Cardinality(B)
      /\ Cardinality(A) = Cardinality(B) => A = B
  BY <1>2, <1>3, FS_Subset, FS_CardinalityType
<1>5. Depth(d) = Cardinality(A) /\ Depth(w) = Cardinality(B)
  BY DEF Depth
<1>. QED BY <1>2, <1>4, <1>5

LEMMA OrderKept ==
  ASSUME OrderInv,
         \/ handled' = {}
         \/ /\ UNCHANGED <<handled, stopped, latest, plan>>
            /\ stage' \notin {"integrate", "raised"} =>
                 stage \notin {"integrate", "raised"}
         \/ /\ stage \notin {"integrate", "raised"} /\ UNCHANGED handled
  PROVE  OrderInv'
<1>1. CASE handled' = {}
  BY <1>1 DEF OrderInv, DependenciesMergeFirst
<1>2. CASE /\ UNCHANGED <<handled, stopped, latest, plan>>
           /\ stage' \notin {"integrate", "raised"} =>
                stage \notin {"integrate", "raised"}
  BY <1>2 DEF OrderInv, DependenciesMergeFirst, ToMerge, PlanIds, PlanDevs,
       IndexOf
<1>3. CASE stage \notin {"integrate", "raised"} /\ UNCHANGED handled
  BY <1>3 DEF OrderInv, DependenciesMergeFirst
<1>. QED BY <1>1, <1>2, <1>3

LEMMA OrderMerge ==
  ASSUME TypeOK, PlanGiven, DependenciesClosed, OrderInv, NEW w \in AllItems,
         IntegrateMerges(w) \/ IntegrateConflicts(w)
  PROVE  OrderInv'
<1>1. /\ stage' = "integrate" /\ IsNext(w)
      /\ handled' = handled \cup {w} /\ stopped \subseteq stopped'
      /\ UNCHANGED <<latest, plan>>
  BY DEF IntegrateMerges, IntegrateConflicts, IntegrateFrame, checkpointVars
<1>2. /\ PlanIds' = PlanIds /\ ToMerge' = ToMerge
      /\ \A v : IndexOf(v)' = IndexOf(v)
  BY <1>1 DEF PlanIds, PlanDevs, IndexOf, ToMerge
<1>3. ASSUME w \in PlanIds,
             NEW d \in DependsOn[IndexOf(w)] \cap PlanIds \cap ToMerge
      PROVE  d \in handled
  <2>1. Depth(d) \in Nat /\ Depth(w) \in Nat /\ Depth(d) < Depth(w) /\ d # w
    BY <1>3, DependencyIsShallower
  <2>2. d \notin Todo
    BY <1>1, <2>1 DEF IsNext, MergesBefore
  <2>. QED BY <2>2 DEF Todo
<1>4. DependenciesMergeFirst'
  BY <1>1, <1>2, <1>3 DEF OrderInv, DependenciesMergeFirst
<1>. QED BY <1>1, <1>4 DEF OrderInv

LEMMA OrderStep ==
  ASSUME TypeOK, ResultsInv, PlanGiven, DependenciesClosed, OrderInv,
         [Next]_vars
  PROVE  OrderInv'
<1>1. CASE \E w \in AllItems : IntegrateMerges(w) \/ IntegrateConflicts(w)
  BY <1>1, OrderMerge
<1>2. CASE \/ Join \/ IntegrateReports \/ InterruptAndResume
  BY <1>2, OrderKept
     DEF Join, IntegrateReports, InterruptAndResume, InterruptAndResumeWith
<1>3. CASE \/ Bootstrap \/ BootstrapFails \/ ArchitectFails \/ ArchitectPlans
           \/ FanOut \/ TesterCommits \/ TesterReports \/ Deliver \/ Report
           \/ \E i \in Index : ArchitectCreates(i) \/ ArchitectRaises(i)
  BY <1>3, OrderKept
     DEF Bootstrap, BootstrapFails, ArchitectFails, ArchitectPlans, FanOut,
         TesterCommits, TesterReports, Deliver, Report, ArchitectCreates,
         ArchitectRaises, Raise, localVars, checkpointVars, integrateVars
<1>4. CASE \E i \in Index : Dev(i)
  BY <1>4, DevLeaves, OrderKept DEF checkpointVars, integrateVars
<1>5. CASE \/ IntegrateAborts \/ IntegrateRaises \/ LateWrites
           \/ UNCHANGED vars
  BY <1>5, OrderKept
     DEF IntegrateAborts, IntegrateRaises, IntegrateFrame, Raise, LateWrites,
         localVars, checkpointVars, integrateVars, vars
<1>. QED BY <1>1, <1>2, <1>3, <1>4, <1>5 DEF Next, Node, Ended

\* A dependency merges before what declares it: an item that merged was not
\* taken before a dependency of its own that had something to merge, if plans
\* declare closed dependencies.
THEOREM DependenciesInOrder ==
  DependenciesClosed => (Spec => []DependenciesMergeFirst)
<1>. SUFFICES ASSUME DependenciesClosed PROVE Spec => []DependenciesMergeFirst
  OBVIOUS
<1>1. Init => OrderInv
  BY DEF Init, OrderInv, DependenciesMergeFirst
<1>2. GraphInv /\ PlanGiven /\ OrderInv /\ [Next]_vars => OrderInv'
  BY OrderStep DEF GraphInv
<1>3. OrderInv => DependenciesMergeFirst
  BY DEF OrderInv
<1>. QED BY <1>1, <1>2, <1>3, GraphInvariant, PlanGivenInvariant, PTL DEF Spec

-----------------------------------------------------------------------------
(* The retry rounds.  Only devs whose branches conflicted are sent; each   *)
(* rebases, and unless it fails its branch ends up with all of the work    *)
(* branch.  What else is to be merged is merged already.  So the first of  *)
(* them that integrate takes cannot conflict.                              *)
RetryRound ==
  /\ interrupts = 0 /\ conflictRound \in 1..MaxConflictRounds
  /\ conflicts \cap PlanIds # {}

CatchesUp(i) ==
  /\ phase[i] # "idle"
  /\ phase[i] = "queued" => Tidy(i)
  /\ phase[i] \in {"building", "resolving", "ended"} =>
       IF i \in rebasing THEN work \subseteq onto[i] ELSE work \subseteq branch[i]
  /\ phase[i] = "committed" => work \subseteq branch[i]
  /\ phase[i] = "done" /\ returned[i].succeeded => work \subseteq branch[i]

OthersMerged ==
  \A v \in ToMerge \ conflicts : branch[latest[v].branch] \subseteq work

RetryDevs ==
  /\ \A i \in Index : phase[i] # "idle" => WorkItemId(i) \in conflicts \cap PlanIds
  /\ \A w \in conflicts \cap PlanIds : CatchesUp(IndexOf(w))
  /\ OthersMerged

RetryMerges ==
  \/ conflicts \cap (handled \ stopped) # {}
  \/ /\ \A w \in conflicts \cap PlanIds :
          w \notin stopped /\ work \subseteq branch[latest[w].branch]
     /\ OthersMerged

RetryInv ==
  RetryRound =>
    /\ stage \notin {"tester_final", "testing"}
    /\ stage = "devs" => RetryDevs
    /\ stage = "integrate" /\ ~dirty
         /\ (\A w \in conflicts \cap PlanIds : latest[w].succeeded)
         => RetryMerges

LEMMA RetryDev ==
  ASSUME GraphInv, SentInv, RetryInv, NEW i \in Index, Dev(i)
  PROVE  RetryInv'
<1>. USE DEF GraphInv
<1>0. /\ phase \in [Index -> Phases] /\ returned \in [Index -> DevResult]
      /\ branch \in [Index -> SUBSET Content]
      /\ edits \in [Index -> SUBSET Content]
      /\ onto \in [Index -> SUBSET Content]
  BY DEF TypeOK, GitTypeOK
<1>1. /\ UNCHANGED <<stage, plan, latest, conflicts, conflictRound, work,
                     interrupts>>
      /\ phase[i] # "idle" /\ phase'[i] \notin {"idle", "queued"}
      /\ \A j \in Index \ {i} : Untouched(j)
  BY DevLeaves DEF checkpointVars, cloneVars
<1>2. /\ PlanIds' = PlanIds /\ ToMerge' = ToMerge
      /\ \A w : IndexOf(w)' = IndexOf(w)
      /\ stage = "devs" /\ RetryRound' = RetryRound
  BY <1>1 DEF PlanIds, PlanDevs, IndexOf, ToMerge, RetryRound, ResultsInv,
       OnlyDevsRun
<1>. SUFFICES ASSUME RetryRound PROVE RetryDevs'
  BY <1>1, <1>2 DEF RetryInv
<1>3. RetryDevs
  BY <1>2 DEF RetryInv
<1>4. \A j \in Index :
        phase'[j] # "idle" => WorkItemId(j) \in conflicts \cap PlanIds
  BY <1>1, <1>3 DEF RetryDevs, Untouched
<1>5. OthersMerged'
  <2>. SUFFICES ASSUME NEW v \in ToMerge \ conflicts
                PROVE  branch'[latest[v].branch] \subseteq work
    BY <1>1, <1>2 DEF OthersMerged
  <2>1. WorkItemId(latest[v].branch) = v /\ latest[v].branch \in Index
    BY Unclaimed DEF ToMerge, ResultsInv, LatestInv, Claims, TypeOK, DevResult
  <2>2. latest[v].branch # i
    BY <1>1, <1>3, <2>1 DEF RetryDevs
  <2>. QED
    BY <1>1, <1>3, <2>1, <2>2 DEF Untouched, RetryDevs, OthersMerged
<1>6. CatchesUp(i) /\ i # TesterIndex => CatchesUp(i)'
  <2>. SUFFICES ASSUME CatchesUp(i), i # TesterIndex PROVE CatchesUp(i)'
    OBVIOUS
  <2>. USE <1>0, <1>1 DEF CatchesUp, Advance, Return
  <2>1. CASE DevHasNoWorktree(i) \/ AgentFails(i) \/ DevGivesUp(i)
    <3>1. phase'[i] = "done" /\ returned'[i] = Failure(i)
      BY <2>1 DEF DevHasNoWorktree, AgentFails, DevGivesUp, ReturnFailure
    <3>2. ~ Failure(i).succeeded
      BY DEF Failure
    <3>. QED BY <3>1, <3>2
  <2>2. CASE DevStarts(i)
    BY <2>2 DEF DevStarts, IsRetry, RetryRound
  <2>3. CASE DevRetries(i)
    <3>1. edits[i] = {} /\ i \notin rebasing
      BY <2>3 DEF DevRetries, Tidy
    <3>2. /\ phase'[i] \in {"building", "resolving"}
          /\ RebaseReplays(i) \/ RebaseStops(i)
      BY <2>3, <3>1 DEF DevRetries, BeginRebaseEmpty, BeginRebaseConflicts,
           RebaseRefused, RebaseAlreadyOpen
    <3>3. IF i \in rebasing' THEN work \subseteq onto'[i]
                             ELSE work \subseteq branch'[i]
      BY <3>1, <3>2 DEF RebaseReplays, RebaseStops, rebaseVars
    <3>. QED BY <3>2, <3>3
  <2>4. CASE AgentSucceeds(i)
    BY <2>4 DEF AgentSucceeds, AgentEdits, InTurn
  <2>5. CASE DevResolves(i)
    BY <2>5 DEF DevResolves, ContinueSucceeds
  <2>6. CASE DevCommits(i)
    BY <2>6 DEF DevCommits, CommitAll
  <2>7. CASE DevReturns(i)
    BY <2>7 DEF DevReturns, gitVars, devVars
  <2>. QED BY <2>1, <2>2, <2>3, <2>4, <2>5, <2>6, <2>7 DEF Dev
<1>7. ASSUME NEW w \in conflicts \cap PlanIds
      PROVE  CatchesUp(IndexOf(w))'
  <2>1. IndexOf(w) \in Index /\ IndexOf(w) # TesterIndex
    BY IndexOfLast DEF Devs, Index, TesterIndex
  <2>2. CatchesUp(IndexOf(w))
    BY <1>3 DEF RetryDevs
  <2>3. CASE IndexOf(w) = i
    BY <1>2, <1>6, <2>1, <2>2, <2>3 DEF CatchesUp, Tidy
  <2>4. CASE IndexOf(w) # i
    BY <1>1, <1>2, <2>1, <2>2, <2>4 DEF CatchesUp, Untouched, Tidy
  <2>. QED BY <2>3, <2>4
<1>8. \A j \in Index : WorkItemId(j)' = WorkItemId(j)
  BY <1>1 DEF WorkItemId
<1>. QED BY <1>1, <1>2, <1>4, <1>5, <1>7, <1>8 DEF RetryDevs

LEMMA RetryJoin ==
  ASSUME GraphInv, SentInv, RetryInv, Join
  PROVE  RetryInv'
<1>. USE DEF GraphInv
<1>1. /\ stage = "devs" /\ stage' = "integrate"
      /\ stopped' = {} /\ latest' = ApplyReturned
      /\ UNCHANGED <<plan, conflicts, conflictRound, work, branch, interrupts>>
  BY DEF Join, gitVars, cloneVars, devVars
<1>2. /\ PlanIds' = PlanIds /\ RetryRound' = RetryRound
      /\ PlanIds \subseteq AllItems
  BY <1>1, IndexOfLast DEF PlanIds, PlanDevs, RetryRound
<1>. SUFFICES ASSUME RetryRound,
                     \A w \in conflicts \cap PlanIds : latest'[w].succeeded
              PROVE  RetryMerges'
  BY <1>1, <1>2 DEF RetryInv
<1>3. RetryDevs
  BY <1>1 DEF RetryInv
<1>4. ASSUME NEW w \in conflicts \cap PlanIds
      PROVE  work \subseteq branch[latest'[w].branch]
  <2>1. CatchesUp(IndexOf(w))
    BY <1>3 DEF RetryDevs
  <2>2. phase[IndexOf(w)] = "done" /\ latest'[w] = returned[IndexOf(w)]
        /\ latest'[w].branch = IndexOf(w)
    BY <2>1, JoinTakesLast DEF CatchesUp
  <2>. QED BY <2>1, <2>2 DEF CatchesUp
<1>5. ASSUME NEW v \in AllItems, v \notin conflicts
      PROVE  latest'[v] = latest[v]
  <2>1. ReturnedFor(v) = {}
    BY <1>3, <1>5 DEF SentInv, RetryDevs, ReturnedFor
  <2>. QED BY <1>1, <2>1 DEF ApplyReturned
<1>6. OthersMerged'
  BY <1>1, <1>3, <1>5 DEF OthersMerged, ToMerge, RetryDevs
<1>. QED BY <1>1, <1>2, <1>4, <1>6 DEF RetryMerges

(* One merge of a retry round: that of a conflicted item is progress, and  *)
(* one that would stop is of neither kind.                                 *)
LEMMA RetryMerge ==
  ASSUME GraphInv, RetryInv, NEW w \in AllItems,
         IntegrateMerges(w) \/ IntegrateConflicts(w)
  PROVE  RetryInv'
<1>. USE DEF GraphInv
<1>1. /\ stage = "integrate" /\ stage' = "integrate"
      /\ w \in ToMerge \ handled /\ handled' = handled \cup {w}
      /\ UNCHANGED <<plan, conflicts, conflictRound, latest, branch, dirty,
                     interrupts>>
  BY DEF IntegrateMerges, IntegrateConflicts, IntegrateFrame, MergeClean,
         MergeStops, MergeRefused, IsNext, Todo, checkpointVars, gitVars,
         cloneVars, devVars
<1>2. /\ PlanIds' = PlanIds /\ ToMerge' = ToMerge /\ RetryRound' = RetryRound
  BY <1>1 DEF PlanIds, PlanDevs, ToMerge, RetryRound
<1>. SUFFICES ASSUME RetryRound, ~dirty,
                     \A v \in conflicts \cap PlanIds : latest[v].succeeded
              PROVE  RetryMerges'
  BY <1>1, <1>2 DEF RetryInv
<1>3. RetryMerges
  BY <1>1 DEF RetryInv
<1>4. stopped \subseteq handled
  BY <1>1 DEF RecordInv, Lagging
<1>5. CASE conflicts \cap (handled \ stopped) # {}
  <2>1. stopped' \subseteq stopped \cup {w}
    BY DEF IntegrateMerges, IntegrateConflicts
  <2>. QED BY <1>1, <1>5, <2>1 DEF RetryMerges
<1>6. CASE /\ \A v \in conflicts \cap PlanIds :
                v \notin stopped /\ work \subseteq branch[latest[v].branch]
           /\ OthersMerged
  <2>1. CASE IntegrateMerges(w)
    <3>1. stopped' = stopped /\ work' = work \cup branch[latest[w].branch]
      BY <2>1 DEF IntegrateMerges, MergeClean
    <3>2. CASE w \in conflicts
      BY <1>1, <1>4, <3>1, <3>2 DEF RetryMerges
    <3>3. CASE w \notin conflicts
      <4>1. work' = work
        BY <1>1, <1>6, <3>1, <3>3 DEF OthersMerged
      <4>. QED
        BY <1>1, <1>2, <1>6, <3>1, <4>1 DEF RetryMerges, OthersMerged
    <3>. QED BY <3>2, <3>3
  <2>2. CASE IntegrateConflicts(w)
    <3>1. /\ Diverged(latest[w].branch) /\ work' = work
          /\ stopped' = stopped \cup {w}
      BY <2>2 DEF IntegrateConflicts, MergeStops, MergeRefused
    <3>2. w \in conflicts /\ w \notin PlanIds
      BY <1>1, <1>6, <3>1 DEF Diverged, OthersMerged
    <3>. QED
      BY <1>1, <1>2, <1>6, <3>1, <3>2 DEF RetryMerges, OthersMerged
  <2>. QED BY <2>1, <2>2
<1>. QED BY <1>3, <1>5, <1>6 DEF RetryMerges

(* A round of retries begins: what conflicted is sent back, tidy, and all  *)
(* else that was to be merged is on the work branch.                       *)
LEMMA RetryBegins ==
  ASSUME GraphInv, ItemsInv, IntegrateReports
  PROVE  RetryInv'
<1>. USE DEF GraphInv
<1>1. /\ stage = "integrate" /\ ToMerge \subseteq handled
      /\ conflicts' = stopped /\ conflictRound' = conflictRound + 1
      /\ UNCHANGED <<plan, latest, work, branch, edits, rebasing, interrupts>>
  BY DEF IntegrateReports, Todo, gitVars, cloneVars, devVars, rebaseVars
<1>2. /\ PlanIds' = PlanIds /\ ToMerge' = ToMerge
      /\ \A w : IndexOf(w)' = IndexOf(w)
  BY <1>1 DEF PlanIds, PlanDevs, IndexOf, ToMerge
<1>. SUFFICES ASSUME RetryRound' PROVE stage' = "devs" /\ RetryDevs'
  BY DEF RetryInv
<1>. DEFINE back == {IndexOf(w) : w \in stopped \cap PlanIds}
<1>3. Send(back)
  <2>1. /\ stopped \cap PlanIds # {}
        /\ conflictRound + 1 \in 1..MaxConflictRounds
    BY <1>1, <1>2 DEF RetryRound
  <2>2. AfterIntegrate(stopped, conflictRound + 1) = back
    BY <2>1, BudgetsAssumption DEF AfterIntegrate
  <2>. QED BY <2>1, <2>2 DEF IntegrateReports
<1>4. Lagging
  BY <1>1 DEF RecordInv
<1>5. OthersMerged'
  BY <1>1, <1>2, <1>4 DEF OthersMerged, Lagging, ToMerge
<1>6. \A w \in PlanIds :
        /\ IndexOf(w) \in Index /\ WorkItemId(IndexOf(w)) = w
  BY IndexOfLast DEF Devs, Index, TesterIndex, WorkItemId
<1>7. \A i \in Index : phase'[i] = IF i \in back THEN "queued" ELSE "idle"
  BY <1>3 DEF Send
<1>8. ASSUME NEW w \in stopped \cap PlanIds
      PROVE  CatchesUp(IndexOf(w))'
  <2>1. phase[IndexOf(w)] = "idle"
    BY <1>1, <1>6 DEF ResultsInv, OnlyDevsRun
  <2>2. latest[w].succeeded
    BY <1>4 DEF Lagging, ToMerge
  <2>3. Tidy(IndexOf(w))
    BY <2>1, <2>2 DEF ItemsInv, NamedInv
  <2>4. phase'[IndexOf(w)] = "queued"
    BY <1>6, <1>7
  <2>. QED BY <1>1, <1>2, <2>3, <2>4 DEF CatchesUp, Tidy
<1>9. \A i \in Index : phase'[i] # "idle" =>
        WorkItemId(i) \in stopped \cap PlanIds
  BY <1>6, <1>7
<1>10. \A i \in Index : WorkItemId(i)' = WorkItemId(i)
  BY <1>1 DEF WorkItemId
<1>. QED BY <1>1, <1>2, <1>3, <1>5, <1>8, <1>9, <1>10 DEF RetryDevs, Send

(* A step that leaves where the round is, its results and its branches.    *)
LEMMA RetryKept ==
  ASSUME RetryInv,
         \/ interrupts' # 0
         \/ stage' \notin {"devs", "integrate", "tester_final", "testing"}
         \/ /\ UNCHANGED <<conflicts, conflictRound, plan, interrupts>>
            /\ stage \in {"tester_final", "testing"}
         \/ /\ DevsAsTheyAre /\ (dirty => dirty')
            /\ UNCHANGED <<stage, conflicts, conflictRound, work, handled,
                           stopped, interrupts>>
  PROVE  RetryInv'
<1>1. CASE interrupts' # 0
  BY <1>1 DEF RetryInv, RetryRound
<1>2. CASE stage' \notin {"devs", "integrate", "tester_final", "testing"}
  BY <1>2 DEF RetryInv
<1>3. CASE /\ UNCHANGED <<conflicts, conflictRound, plan, interrupts>>
           /\ stage \in {"tester_final", "testing"}
  BY <1>3 DEF RetryInv, RetryRound, PlanIds, PlanDevs
<1>4. CASE /\ DevsAsTheyAre /\ (dirty => dirty')
           /\ UNCHANGED <<stage, conflicts, conflictRound, work, handled,
                          stopped, interrupts>>
  <2>1. /\ PlanIds' = PlanIds /\ ToMerge' = ToMerge
        /\ \A w : IndexOf(w)' = IndexOf(w)
    BY <1>4 DEF DevsAsTheyAre, PlanIds, PlanDevs, IndexOf, ToMerge
  <2>2. /\ RetryRound' = RetryRound /\ OthersMerged' = OthersMerged
        /\ \A w : CatchesUp(IndexOf(w))' <=> CatchesUp(IndexOf(w))
    BY <1>4, <2>1
       DEF DevsAsTheyAre, RetryRound, OthersMerged, CatchesUp, Tidy
  <2>3. RetryDevs' <=> RetryDevs
    BY <1>4, <2>1, <2>2 DEF DevsAsTheyAre, RetryDevs, WorkItemId
  <2>4. RetryMerges' <=> RetryMerges
    BY <1>4, <2>1, <2>2 DEF DevsAsTheyAre, RetryMerges
  <2>. QED
    BY <1>4, <2>1, <2>2, <2>3, <2>4 DEF DevsAsTheyAre, RetryInv
<1>. QED BY <1>1, <1>2, <1>3, <1>4

LEMMA RetryStep ==
  GraphInv /\ SentInv /\ ItemsInv /\ RetryInv /\ [Next]_vars => RetryInv'
<1>. SUFFICES ASSUME GraphInv, SentInv, ItemsInv, RetryInv, [Next]_vars
              PROVE  RetryInv'
  OBVIOUS
<1>. USE DEF GraphInv
<1>1. CASE FanOut
  BY <1>1 DEF FanOut, StepsInv, RetryInv, RetryRound
<1>2. CASE \E i \in Index : Dev(i)
  BY <1>2, RetryDev
<1>3. CASE Join
  BY <1>3, RetryJoin
<1>4. CASE \E w \in AllItems : IntegrateMerges(w) \/ IntegrateConflicts(w)
  BY <1>4, RetryMerge
<1>5. CASE IntegrateReports
  BY <1>5, RetryBegins
<1>6. CASE \/ Bootstrap \/ BootstrapFails \/ ArchitectFails \/ ArchitectPlans
           \/ IntegrateRaises \/ Deliver \/ Report
           \/ \E i \in Index : ArchitectCreates(i) \/ ArchitectRaises(i)
  BY <1>6, RetryKept
     DEF Bootstrap, BootstrapFails, ArchitectFails, ArchitectPlans,
         IntegrateRaises, Deliver, Report, ArchitectCreates, ArchitectRaises,
         Raise, checkpointVars
<1>7. CASE TesterCommits \/ TesterReports
  BY <1>7, RetryKept DEF TesterCommits, TesterReports
<1>8. CASE IntegrateAborts \/ LateWrites \/ UNCHANGED vars
  <2>1. /\ dirty => dirty'
        /\ UNCHANGED <<stage, conflicts, conflictRound, work, handled,
                       stopped, interrupts>>
    BY <1>8 DEF IntegrateAborts, MergeAborts, IntegrateFrame, LateWrites,
         TestCommandLeaves, vars, gitVars, cloneVars, checkpointVars,
         localVars, integrateVars
  <2>2. DevsAsTheyAre
    BY <1>8, OthersLeave
  <2>. QED BY <2>1, <2>2, RetryKept
<1>9. CASE InterruptAndResume
  <2>1. interrupts' # 0
    BY <1>9 DEF InterruptAndResume, InterruptAndResumeWith, TypeOK
  <2>. QED BY <2>1, RetryKept
<1>. QED
  BY <1>1, <1>2, <1>3, <1>4, <1>5, <1>6, <1>7, <1>8, <1>9
     DEF Next, Node, Ended

(* Only the report leaves integrate for the devs or the tester.            *)
LEMMA LeavesIntegrate ==
  ASSUME GraphInv, [Next]_vars, stage = "integrate",
         stage' \in {"devs", "tester_final"}
  PROVE  IntegrateReports
<1>1. ~ \E i \in Index : Dev(i)
  BY DevLeaves DEF GraphInv, ResultsInv, OnlyDevsRun
<1>2. stage' # stage
  OBVIOUS
<1>3. ~ \/ \E w \in AllItems : IntegrateMerges(w) \/ IntegrateConflicts(w)
        \/ IntegrateAborts \/ LateWrites \/ UNCHANGED vars
  BY <1>2 DEF IntegrateMerges, IntegrateConflicts, IntegrateAborts,
       IntegrateFrame, LateWrites, vars, checkpointVars
<1>4. ~ (InterruptAndResume \/ IntegrateRaises)
  BY <1>2 DEF InterruptAndResume, InterruptAndResumeWith, ResumesAt,
       IntegrateRaises, Raise
<1>. QED
  BY <1>1, <1>3, <1>4
     DEF Next, Node, Ended, Bootstrap, BootstrapFails, ArchitectFails,
         ArchitectPlans, FanOut, ArchitectCreates, ArchitectRaises, Join,
         TesterCommits, TesterReports, Deliver, Report

\* A round of conflict retries whose devs all succeed resolves a conflict, in
\* any run that was not interrupted and whose main clone is clean: not every
\* conflict is found anew.
THEOREM RetriesMakeProgress == Spec => RetryMakesProgress
<1>1. Init => RetryInv
  BY DEF Init, RetryInv
<1>2. GraphInv /\ SentInv /\ ItemsInv /\ RetryInv /\ [Next]_vars => RetryInv'
  BY RetryStep
<1>3. GraphInv /\ RetryInv /\ [Next]_vars =>
        [/\ ConflictRetry /\ stage' \in {"devs", "tester_final"}
         /\ interrupts = 0
         /\ \A w \in conflicts \cap PlanIds : latest[w].succeeded
         /\ ~dirty
         => ~(conflicts \subseteq conflicts')]_vars
  <2>. SUFFICES ASSUME GraphInv, RetryInv, [Next]_vars, ConflictRetry,
                       stage' \in {"devs", "tester_final"}, interrupts = 0,
                       \A w \in conflicts \cap PlanIds : latest[w].succeeded,
                       ~dirty
                PROVE  ~(conflicts \subseteq conflicts')
    OBVIOUS
  <2>1. IntegrateReports
    BY LeavesIntegrate DEF ConflictRetry
  <2>2. conflicts' = stopped
    BY <2>1 DEF IntegrateReports
  <2>3. RetryMerges
    BY DEF ConflictRetry, RetryInv, RetryRound
  <2>. QED BY <2>2, <2>3 DEF ConflictRetry, RetryMerges
<1>. QED BY <1>1, <1>2, <1>3, ItemsInvariant, PTL DEF Spec, RetryMakesProgress
=============================================================================
