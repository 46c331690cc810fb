-------------------------- MODULE MergeRecordProofs --------------------------
(* LandedIsRecorded for every value of the constants: the record report    *)
(* decides on is the truth about the work branch, through retries, repairs *)
(* and interrupted integrations.                                           *)
EXTENDS TeamGraphProofs

USE DEF ItemId, DependsOn

(* Who writes what.  A dev branch is ahead of the work branch by nothing   *)
(* but its own author's changes, a worktree holds uncommitted changes of   *)
(* its own author only, and an open rebase replays onto something the work *)
(* branch contains.                                                        *)
EachWritesItsOwn ==
  \A i \in Index : /\ \A c \in branch[i] : c \in work \/ c[1] = i
                   /\ \A c \in edits[i] : c[1] = i
                   /\ onto[i] \subseteq work

LEMMA OwnInit == GitInit => EachWritesItsOwn
BY DEF GitInit, EachWritesItsOwn, NoFiles

LEMMA OwnClone == Clone => EachWritesItsOwn'
BY DEF Clone, EachWritesItsOwn, NoFiles

LEMMA OwnCreate ==
  ASSUME GitTypeOK, EachWritesItsOwn, NEW i \in Index, CreateWorktree(i)
  PROVE  EachWritesItsOwn'
BY DEF GitTypeOK, EachWritesItsOwn, CreateWorktree, cloneVars, rebaseVars

LEMMA OwnTrees ==
  ASSUME EachWritesItsOwn, AdoptExisting \/ Cleanup \/ UNCHANGED gitVars
  PROVE  EachWritesItsOwn'
BY DEF EachWritesItsOwn, AdoptExisting, Cleanup, gitVars, cloneVars, treeVars,
       devVars, rebaseVars

LEMMA OwnCommitAll ==
  ASSUME GitTypeOK, EachWritesItsOwn, NEW i \in Index, i \notin marked,
         CommitAll(i)
  PROVE  EachWritesItsOwn'
BY DEF GitTypeOK, EachWritesItsOwn, CommitAll, cloneVars, rebaseVars

LEMMA OwnMerge ==
  ASSUME EachWritesItsOwn, NEW i \in Index,
         MergeClean(i) \/ MergeStops(i) \/ MergeRefused(i) \/ MergeAborts
           \/ CheckoutFails
  PROVE  EachWritesItsOwn'
BY DEF EachWritesItsOwn, MergeClean, MergeStops, MergeRefused, MergeAborts,
       CheckoutFails, gitVars, cloneVars, treeVars, devVars, rebaseVars

LEMMA OwnBeginRebase ==
  ASSUME GitTypeOK, EachWritesItsOwn, NEW i \in Index,
         BeginRebaseEmpty(i) \/ BeginRebaseConflicts(i)
  PROVE  EachWritesItsOwn'
<1>1. CASE RebaseReplays(i)
  BY <1>1 DEF GitTypeOK, EachWritesItsOwn, RebaseReplays, cloneVars, rebaseVars
<1>2. CASE RebaseStops(i)
  BY <1>2 DEF GitTypeOK, EachWritesItsOwn, RebaseStops, cloneVars
<1>3. CASE UNCHANGED gitVars
  BY <1>3, OwnTrees
<1>. QED
  BY <1>1, <1>2, <1>3 DEF BeginRebaseEmpty, BeginRebaseConflicts,
       RebaseRefused, RebaseAlreadyOpen

LEMMA OwnContinue ==
  ASSUME GitTypeOK, EachWritesItsOwn, NEW i \in Index,
         ContinueGivesUp(i) \/ ContinueSucceeds(i)
  PROVE  EachWritesItsOwn'
<1>1. CASE ContinueGivesUp(i)
  BY <1>1 DEF GitTypeOK, EachWritesItsOwn, ContinueGivesUp, RebaseAbort,
       cloneVars
<1>2. CASE ContinueSucceeds(i)
  BY <1>2 DEF GitTypeOK, EachWritesItsOwn, ContinueSucceeds, cloneVars
<1>. QED BY <1>1, <1>2

LEMMA OwnAgent ==
  ASSUME GitTypeOK, EachWritesItsOwn, NEW i \in Index, AgentEdits(i, Change(i))
  PROVE  EachWritesItsOwn'
<1>1. \A c \in {Change(i), Divider(i)} : c[1] = i
  BY DEF Change, Divider
<1>2. \A c \in edits'[i] : c \in edits[i] \/ c \in {Change(i), Divider(i)}
  BY DEF GitTypeOK, AgentEdits
<1>3. /\ UNCHANGED <<work, branch, onto>>
      /\ \A j \in Index \ {i} : edits'[j] = edits[j]
  BY DEF GitTypeOK, AgentEdits, cloneVars
<1>. QED BY <1>1, <1>2, <1>3 DEF EachWritesItsOwn

LEMMA OwnMainClone ==
  ASSUME EachWritesItsOwn,
         \/ \E wrote : CommitWorkBranch(wrote)
         \/ \E left : TestCommandLeaves(left)
  PROVE  EachWritesItsOwn'
BY DEF EachWritesItsOwn, CommitWorkBranch, TestCommandLeaves, treeVars,
       devVars, rebaseVars

LEMMA OwnDev ==
  ASSUME TypeOK, MarkersContained, EachWritesItsOwn, NEW i \in Index, Dev(i)
  PROVE  EachWritesItsOwn'
<1>. USE DEF TypeOK
<1>1. CASE DevHasNoWorktree(i) \/ DevStarts(i) \/ DevReturns(i)
  BY <1>1, OwnTrees DEF DevHasNoWorktree, DevStarts, DevReturns
<1>2. CASE DevRetries(i)
  BY <1>2, OwnBeginRebase DEF DevRetries
<1>3. CASE AgentFails(i) \/ AgentSucceeds(i)
  BY <1>3, OwnAgent DEF AgentFails, AgentSucceeds
<1>4. CASE DevGivesUp(i) \/ DevResolves(i)
  BY <1>4, OwnContinue DEF DevGivesUp, DevResolves
<1>5. CASE DevCommits(i)
  BY <1>5, OwnCommitAll DEF DevCommits, MarkersContained
<1>. QED BY <1>1, <1>2, <1>3, <1>4, <1>5 DEF Dev

LEMMA OwnStep ==
  TypeOK /\ MarkersContained /\ EachWritesItsOwn /\ [Next]_vars
    => EachWritesItsOwn'
<1>. SUFFICES ASSUME TypeOK, MarkersContained, EachWritesItsOwn, [Next]_vars
              PROVE  EachWritesItsOwn'
  OBVIOUS
<1>. USE DEF TypeOK
<1>1. CASE Bootstrap \/ BootstrapFails
  BY <1>1, OwnClone DEF Bootstrap, BootstrapFails
<1>2. CASE ArchitectFails \/ ArchitectPlans \/ FanOut \/ Join
             \/ IntegrateReports \/ Deliver \/ UNCHANGED vars
  BY <1>2, OwnTrees
     DEF ArchitectFails, ArchitectPlans, FanOut, Join, IntegrateReports,
         Deliver, vars
<1>3. CASE \E i \in Index : ArchitectCreates(i) \/ ArchitectRaises(i)
  BY <1>3, OwnCreate, OwnTrees DEF ArchitectCreates, ArchitectRaises
<1>4. CASE \E i \in Index : Dev(i)
  BY <1>4, OwnDev
<1>5. CASE \E w \in AllItems : IntegrateMerges(w) \/ IntegrateConflicts(w)
  BY <1>5, OwnMerge DEF IntegrateMerges, IntegrateConflicts, DevResult
<1>6. CASE IntegrateAborts \/ IntegrateRaises
  <2>1. TesterIndex \in Index
    BY NDevsAssumption DEF TesterIndex, Index
  <2>. QED BY <1>6, <2>1, OwnMerge DEF IntegrateAborts, IntegrateRaises
<1>7. CASE TesterCommits \/ TesterReports \/ LateWrites
  BY <1>7, OwnMainClone DEF TesterCommits, TesterReports, LateWrites
<1>8. CASE Report \/ InterruptAndResume
  BY <1>8, OwnTrees DEF Report, InterruptAndResume, InterruptAndResumeWith
<1>. QED
  BY <1>1, <1>2, <1>3, <1>4, <1>5, <1>6, <1>7, <1>8 DEF Next, Node, Ended

-----------------------------------------------------------------------------
(* What the dev results say.  A result names the branch of its own work    *)
(* item, and one that claims success and commits is of a branch carrying   *)
(* something its dev wrote -- until the dev is sent out again, which ends  *)
(* in a new result for the same item.                                      *)
Claims(r)  == r.succeeded /\ r.commits
Carries(i) == \E c \in branch[i] : c[1] = i

OnlyDevsRun == stage # "devs" => \A i \in Index : phase[i] = "idle"

ReturnedInv ==
  \A i \in Index :
    /\ returned[i] # NoResult => returned[i].branch = i
    /\ Claims(returned[i]) => phase[i] \in {"committed", "done"} /\ Carries(i)
    /\ phase[i] = "done" /\ i # TesterIndex => returned[i] # NoResult

LatestInv ==
  /\ stage \in {"bootstrap", "architect", "worktrees"} =>
       \A w \in AllItems : latest[w] = NoResult
  /\ phase[TesterIndex] # "idle" => latest[Scaffold] = NoResult
  /\ \A w \in AllItems :
       /\ latest[w] # NoResult => WorkItemId(latest[w].branch) = w
       /\ Claims(latest[w]) /\ phase[latest[w].branch] = "idle" =>
            Carries(latest[w].branch)

ResultsInv == OnlyDevsRun /\ ReturnedInv /\ LatestInv

LEMMA Unclaimed ==
  /\ ~ Claims(NoResult)
  /\ \A i : Failure(i) # NoResult /\ ~ Claims(Failure(i))
  /\ \A i : Failure(i).branch = i
  /\ \A i, b : [branch |-> i, succeeded |-> TRUE, commits |-> b] # NoResult
BY DEF Claims, NoResult, Failure

LEMMA ResultsInit == Init => ResultsInv
<1>1. TesterIndex \in Index
  BY NDevsAssumption DEF TesterIndex, Index
<1>. QED
  BY <1>1, Unclaimed
     DEF Init, ResultsInv, OnlyDevsRun, ReturnedInv, LatestInv, NothingReturned

(* A step that is no dev's and sends nobody.                               *)
LEMMA ResultsKept ==
  ASSUME TypeOK, ResultsInv,
         UNCHANGED <<phase, returned, latest, branch, plan>>,
         \/ stage' = stage
         \/ /\ stage # "devs"
            /\ stage' \notin {"bootstrap", "architect", "worktrees"}
  PROVE  ResultsInv'
BY DEF ResultsInv, OnlyDevsRun, ReturnedInv, LatestInv, Claims, Carries,
       WorkItemId

(* While the worktrees are set up there is no result yet.                  *)
LEMMA ResultsAtStart ==
  ASSUME TypeOK, ResultsInv, UNCHANGED <<phase, returned, latest>>,
         stage \in {"bootstrap", "architect", "worktrees"}, stage' # "devs"
  PROVE  ResultsInv'
<1>1. TesterIndex \in Index
  BY NDevsAssumption DEF TesterIndex, Index
<1>2. \A i \in Index : phase[i] = "idle" /\ ~ Claims(returned[i])
  BY DEF ResultsInv, OnlyDevsRun, ReturnedInv
<1>3. \A w \in AllItems : latest[w] = NoResult
  BY DEF ResultsInv, LatestInv
<1>. QED
  BY <1>1, <1>2, <1>3, Unclaimed
     DEF ResultsInv, OnlyDevsRun, ReturnedInv, LatestInv

LEMMA ResultsSend ==
  ASSUME TypeOK, ResultsInv, stage # "devs",
         UNCHANGED <<latest, branch, plan>>,
         NEW S, Send(S), TesterIndex \notin S \/ latest[Scaffold] = NoResult
  PROVE  ResultsInv'
<1>1. \A i \in Index : returned'[i] = NoResult /\ phase'[i] # "done"
  BY DEF Send, NothingReturned
<1>2. \A i \in Index : phase[i] = "idle"
  BY DEF ResultsInv, OnlyDevsRun
<1>3. TesterIndex \in Index /\ \A w \in AllItems : latest[w].branch \in Index
  BY NDevsAssumption DEF TesterIndex, Index, TypeOK, DevResult
<1>4. OnlyDevsRun'
  BY DEF OnlyDevsRun, Send
<1>5. ReturnedInv'
  BY <1>1, Unclaimed DEF ReturnedInv, Claims
<1>6. LatestInv'
  BY <1>2, <1>3 DEF ResultsInv, LatestInv, Send, Claims, Carries, WorkItemId
<1>. QED BY <1>4, <1>5, <1>6 DEF ResultsInv

(* What one dev's step does: it may write to its own branch while its      *)
(* result is still open, and close it.                                     *)
LEMMA ResultsDevStep ==
  ASSUME TypeOK, ResultsInv, NEW i \in Index, phase[i] # "idle",
         UNCHANGED <<stage, latest, plan>>,
         \A j \in Index \ {i} : /\ branch'[j] = branch[j]
                                /\ phase'[j] = phase[j]
                                /\ returned'[j] = returned[j],
         phase'[i] # "idle",
         returned'[i] # NoResult => returned'[i].branch = i,
         Claims(returned'[i]) =>
           phase'[i] \in {"committed", "done"} /\ Carries(i)',
         phase'[i] = "done" /\ i # TesterIndex => returned'[i] # NoResult
  PROVE  ResultsInv'
<1>1. stage = "devs"
  BY DEF ResultsInv, OnlyDevsRun
<1>2. \A w \in AllItems : latest[w].branch \in Index
  BY DEF TypeOK, DevResult
<1>3. ReturnedInv'
  BY DEF ResultsInv, ReturnedInv, Claims, Carries
<1>4. LatestInv'
  <2>1. phase'[TesterIndex] # "idle" => latest[Scaffold] = NoResult
    <3>1. TesterIndex \in Index
      BY NDevsAssumption DEF TesterIndex, Index
    <3>. QED BY <3>1 DEF ResultsInv, LatestInv
  <2>2. ASSUME NEW w \in AllItems, Claims(latest[w]),
               phase'[latest[w].branch] = "idle"
        PROVE  Carries(latest[w].branch)'
    <3>1. latest[w].branch # i
      BY <2>2
    <3>2. Carries(latest[w].branch)
      BY <1>2, <2>2, <3>1 DEF ResultsInv, LatestInv
    <3>. QED BY <1>2, <3>1, <3>2 DEF Carries
  <2>. QED
    BY <1>1, <2>1, <2>2 DEF ResultsInv, LatestInv, Claims, WorkItemId
<1>. QED BY <1>1, <1>3, <1>4 DEF ResultsInv, OnlyDevsRun

LEMMA ResultsDev ==
  ASSUME TypeOK, ResultsInv, EachWritesItsOwn, NEW i \in Index, Dev(i)
  PROVE  ResultsInv'
<1>. USE DEF DevFrame, checkpointVars
<1>0. /\ phase \in [Index -> Phases] /\ returned \in [Index -> DevResult]
      /\ branch \in [Index -> SUBSET Content]
  BY DEF TypeOK, GitTypeOK
<1>1. phase[i] \notin {"committed", "done"} => ~ Claims(returned[i])
  BY DEF ResultsInv, ReturnedInv
<1>2. returned[i] # NoResult => returned[i].branch = i
  BY DEF ResultsInv, ReturnedInv
<1>3. UNCHANGED branch /\ Claims(returned[i]) => Carries(i)'
  BY DEF ResultsInv, ReturnedInv, Carries
<1>4. CASE DevHasNoWorktree(i) \/ AgentFails(i) \/ DevGivesUp(i)
  <2>1. /\ phase[i] # "idle" /\ ReturnFailure(i)
        /\ UNCHANGED <<branch, stage, latest, plan>>
    BY <1>4 DEF DevHasNoWorktree, AgentFails, DevGivesUp, InTurn, AgentEdits,
         ContinueGivesUp, RebaseAbort, gitVars, devVars
  <2>. QED
    BY <1>0, <2>1, Unclaimed, ResultsDevStep DEF ReturnFailure, Return, Advance
<1>5. CASE DevStarts(i) \/ AgentSucceeds(i)
  <2>1. /\ phase[i] \in {"queued", "building", "resolving"}
        /\ Advance(i, "building") \/ Advance(i, "ended")
        /\ UNCHANGED <<branch, stage, latest, plan, returned>>
    BY <1>5 DEF DevStarts, AgentSucceeds, InTurn, AgentEdits, gitVars, devVars
  <2>. QED
    BY <1>0, <1>1, <1>2, <2>1, ResultsDevStep DEF Advance
<1>6. CASE DevRetries(i)
  <2>1. /\ phase[i] = "queued"
        /\ Advance(i, "building") \/ Advance(i, "resolving")
        /\ \A j \in Index \ {i} : branch'[j] = branch[j]
        /\ UNCHANGED <<stage, latest, plan, returned>>
    BY <1>0, <1>6
       DEF DevRetries, BeginRebaseEmpty, BeginRebaseConflicts, RebaseReplays,
           RebaseRefused, RebaseStops, RebaseAlreadyOpen, gitVars, devVars
  <2>. QED
    BY <1>0, <1>1, <1>2, <2>1, ResultsDevStep DEF Advance
<1>7. CASE DevResolves(i)
  <2>1. /\ phase[i] = "ended" /\ Advance(i, "committed")
        /\ \A j \in Index \ {i} : branch'[j] = branch[j]
        /\ UNCHANGED <<stage, latest, plan, returned>>
    BY <1>0, <1>7 DEF DevResolves, ContinueSucceeds
  <2>. QED
    BY <1>0, <1>1, <1>2, <2>1, ResultsDevStep DEF Advance
<1>8. CASE DevCommits(i)
  <2>1. /\ phase[i] = "ended" /\ Advance(i, "committed")
        /\ \A j \in Index \ {i} : branch'[j] = branch[j]
        /\ UNCHANGED <<stage, latest, plan>>
    BY <1>0, <1>8 DEF DevCommits, CommitAll
  <2>2. \A j \in Index \ {i} : returned'[j] = returned[j]
    BY <1>0, <1>8 DEF DevCommits
  <2>3. returned'[i] # NoResult => returned'[i].branch = i
    BY <1>0, <1>2, <1>8 DEF DevCommits
  <2>4. Claims(returned'[i]) => Carries(i)'
    <3>1. CASE i # TesterIndex
      BY <1>0, <1>1, <1>8, <2>1, <3>1 DEF DevCommits
    <3>2. CASE i = TesterIndex
      <4>1. Claims(returned'[i]) => edits[i] # {}
        BY <1>0, <1>8, <3>2 DEF DevCommits, Claims
      <4>2. edits[i] \subseteq branch'[i]
        BY <1>0, <1>8 DEF DevCommits, CommitAll
      <4>. QED BY <4>1, <4>2 DEF EachWritesItsOwn, Carries
    <3>. QED BY <3>1, <3>2
  <2>. QED
    BY <1>0, <2>1, <2>2, <2>3, <2>4, ResultsDevStep DEF Advance
<1>9. CASE DevReturns(i)
  <2>1. /\ phase[i] = "committed" /\ phase' = [phase EXCEPT ![i] = "done"]
        /\ UNCHANGED <<branch, stage, latest, plan>>
    BY <1>9 DEF DevReturns, Return, Advance, gitVars, devVars
  <2>2. \A j \in Index \ {i} : returned'[j] = returned[j]
    BY <1>0, <1>9 DEF DevReturns, Return
  <2>3. CASE i = TesterIndex
    BY <1>0, <1>2, <1>3, <1>9, <2>1, <2>2, <2>3, ResultsDevStep
       DEF DevReturns, Return
  <2>4. CASE i # TesterIndex
    <3>1. returned'[i] = [branch |-> i, succeeded |-> TRUE,
                          commits |-> HasCommits(i)]
      BY <1>0, <1>9, <2>4 DEF DevReturns, Return
    <3>2. HasCommits(i) => Carries(i)
      BY DEF HasCommits, Carries, EachWritesItsOwn
    <3>3. Claims(returned'[i]) => Carries(i)'
      BY <2>1, <3>1, <3>2 DEF Claims, Carries
    <3>. QED
      BY <1>0, <2>1, <2>2, <3>1, <3>3, Unclaimed, ResultsDevStep
  <2>. QED BY <2>3, <2>4
<1>. QED BY <1>4, <1>5, <1>6, <1>7, <1>8, <1>9 DEF Dev

(* A superstep of devs ends: a work item that was sent has a new result,   *)
(* and one that was not keeps one that is still right.                     *)
LEMMA ResultsJoin ==
  ASSUME TypeOK, ResultsInv, Join
  PROVE  ResultsInv'
<1>0. /\ TesterIndex \in Index
      /\ \A w \in AllItems : latest[w].branch \in Index
  BY NDevsAssumption DEF TesterIndex, Index, TypeOK, DevResult
<1>1. /\ stage = "devs" /\ stage' = "integrate"
      /\ \A i \in Index : phase[i] \in {"idle", "done"}
      /\ \A i \in Index : phase'[i] = "idle" /\ returned'[i] = NoResult
      /\ latest' = ApplyReturned
      /\ UNCHANGED <<branch, plan>>
  BY DEF Join, NothingReturned, gitVars, devVars
<1>2. OnlyDevsRun' /\ ReturnedInv'
  BY <1>1, Unclaimed DEF OnlyDevsRun, ReturnedInv, Claims
<1>3. ASSUME NEW w \in AllItems
      PROVE  /\ latest'[w] # NoResult => WorkItemId(latest'[w].branch) = w
             /\ Claims(latest'[w]) => Carries(latest'[w].branch)
  <2>1. CASE ReturnedFor(w) = {}
    <3>1. latest'[w] = latest[w]
      BY <1>1, <2>1 DEF ApplyReturned
    <3>2. ASSUME Claims(latest[w]), phase[latest[w].branch] = "done"
          PROVE  FALSE
      <4>1. latest[w] # NoResult /\ WorkItemId(latest[w].branch) = w
        BY <3>2, Unclaimed DEF ResultsInv, LatestInv
      <4>2. returned[latest[w].branch] = NoResult
        BY <1>0, <2>1, <4>1 DEF ReturnedFor
      <4>3. latest[w].branch = TesterIndex
        BY <1>0, <3>2, <4>2 DEF ResultsInv, ReturnedInv
      <4>4. w = Scaffold
        BY <4>1, <4>3 DEF WorkItemId
      <4>. QED BY <3>2, <4>1, <4>3, <4>4 DEF ResultsInv, LatestInv
    <3>. QED
      BY <1>0, <1>1, <3>1, <3>2 DEF ResultsInv, LatestInv
  <2>2. CASE ReturnedFor(w) # {}
    <3>0. ReturnedFor(w) \in SUBSET Index
      BY DEF ReturnedFor
    <3>1. Last(ReturnedFor(w)) \in ReturnedFor(w)
      BY <2>2, <3>0, LastType
    <3>2. latest'[w] = returned[Last(ReturnedFor(w))]
      BY <1>1, <2>2 DEF ApplyReturned
    <3>. QED BY <3>1, <3>2 DEF ResultsInv, ReturnedInv, ReturnedFor
  <2>. QED BY <2>1, <2>2
<1>4. LatestInv'
  BY <1>0, <1>1, <1>3 DEF LatestInv, Claims, Carries, WorkItemId
<1>. QED BY <1>2, <1>4 DEF ResultsInv

LEMMA ResultsInterrupt ==
  ASSUME TypeOK, ResultsInv, InterruptAndResume
  PROVE  ResultsInv'
<1>0. TesterIndex \in Index
  BY NDevsAssumption DEF TesterIndex, Index
<1>1. PICK saved \in SUBSET {i \in Index : phase[i] = "done"} :
        /\ \A i \in Index :
             phase'[i] = IF i \in saved \/ phase[i] = "idle" THEN phase[i]
                                                             ELSE "queued"
        /\ \A i \in Index :
             returned'[i] = IF i \in saved THEN returned[i] ELSE NoResult
  BY DEF InterruptAndResume, InterruptAndResumeWith
<1>2. /\ UNCHANGED <<latest, branch>>
      /\ stage # "worktrees" => UNCHANGED plan
      /\ stage' = "devs" <=> stage = "devs"
      /\ stage' \in {"bootstrap", "architect", "worktrees"} =>
           stage \in {"bootstrap", "architect", "worktrees"}
  BY DEF InterruptAndResume, InterruptAndResumeWith, AdoptExisting, devVars,
         ResumesAt
<1>3. OnlyDevsRun'
  BY <1>1, <1>2 DEF ResultsInv, OnlyDevsRun
<1>4. ReturnedInv'
  BY <1>1, <1>2, Unclaimed DEF ResultsInv, ReturnedInv, Claims, Carries
<1>5. \A w \in AllItems : latest[w].branch \in Index
  BY DEF TypeOK, DevResult
<1>6. \A i \in Index : phase'[i] = "idle" <=> phase[i] = "idle"
  BY <1>1
<1>7. LatestInv'
  <2>1. CASE stage = "worktrees"
    BY <1>0, <1>2, <1>6, <2>1, Unclaimed DEF ResultsInv, LatestInv
  <2>2. CASE stage # "worktrees"
    BY <1>0, <1>2, <1>5, <1>6, <2>2
       DEF ResultsInv, LatestInv, Claims, Carries, WorkItemId
  <2>. QED BY <2>1, <2>2
<1>. QED BY <1>3, <1>4, <1>7 DEF ResultsInv

LEMMA BackAreDevs ==
  ASSUME TypeOK
  PROVE  /\ \A found, round : TesterIndex \notin AfterIntegrate(found, round)
         /\ \A passed, round : TesterIndex \notin AfterTests(passed, round)
<1>1. TesterIndex \notin PlanDevs
  BY DEF TesterIndex, PlanDevs
<1>2. \A w \in PlanIds : IndexOf(w) \in PlanDevs
  BY IndexOfType DEF TypeOK
<1>. QED BY <1>1, <1>2 DEF AfterIntegrate, AfterTests

LEMMA ResultsStep ==
  TypeOK /\ EachWritesItsOwn /\ ResultsInv /\ [Next]_vars => ResultsInv'
<1>. SUFFICES ASSUME TypeOK, EachWritesItsOwn, ResultsInv, [Next]_vars
              PROVE  ResultsInv'
  OBVIOUS
<1>. USE DEF gitVars, devVars, devNodeVars, localVars, checkpointVars
<1>1. CASE \/ Bootstrap \/ BootstrapFails \/ ArchitectFails \/ ArchitectPlans
           \/ \E i \in Index : ArchitectCreates(i) \/ ArchitectRaises(i)
  BY <1>1, ResultsAtStart
     DEF Bootstrap, BootstrapFails, ArchitectFails, ArchitectPlans,
         ArchitectCreates, ArchitectRaises, Raise
<1>2. CASE FanOut
  <2>1. latest[Scaffold] = NoResult
    BY <1>2 DEF FanOut, ResultsInv, LatestInv, AllItems
  <2>. QED BY <1>2, <2>1, ResultsSend DEF FanOut
<1>3. CASE \E i \in Index : Dev(i)
  BY <1>3, ResultsDev
<1>4. CASE Join
  BY <1>4, ResultsJoin
<1>5. CASE \E w \in AllItems : IntegrateMerges(w) \/ IntegrateConflicts(w)
  BY <1>5, ResultsKept
     DEF IntegrateMerges, IntegrateConflicts, IntegrateFrame, MergeClean,
         MergeStops, MergeRefused
<1>6. CASE IntegrateAborts \/ IntegrateRaises
  BY <1>6, ResultsKept
     DEF IntegrateAborts, IntegrateRaises, IntegrateFrame, MergeAborts,
         CheckoutFails, Raise
<1>7. CASE IntegrateReports
  <2>1. stage = "integrate" /\ UNCHANGED <<latest, branch, plan>>
    BY <1>7 DEF IntegrateReports
  <2>2. \/ Send(AfterIntegrate(stopped, conflictRound + 1))
        \/ stage' = "tester_final" /\ UNCHANGED <<phase, returned>>
    BY <1>7 DEF IntegrateReports
  <2>. QED BY <2>1, <2>2, BackAreDevs, ResultsSend, ResultsKept
<1>8. CASE TesterReports
  <2>1. stage = "testing" /\ UNCHANGED <<latest, branch, plan>>
    BY <1>8 DEF TesterReports, TestCommandLeaves
  <2>2. \/ \E passed \in BOOLEAN : Send(AfterTests(passed, repairRound + 1))
        \/ stage' = "deliver" /\ UNCHANGED <<phase, returned>>
    BY <1>8 DEF TesterReports
  <2>. QED BY <2>1, <2>2, BackAreDevs, ResultsSend, ResultsKept
<1>9. CASE TesterCommits \/ Deliver \/ Report \/ LateWrites
  BY <1>9, ResultsKept
     DEF TesterCommits, CommitWorkBranch, Deliver, Report, Cleanup,
         LateWrites, TestCommandLeaves
<1>10. CASE InterruptAndResume
  BY <1>10, ResultsInterrupt
<1>11. CASE UNCHANGED vars
  BY <1>11, ResultsKept DEF vars
<1>. QED
  BY <1>1, <1>2, <1>3, <1>4, <1>5, <1>6, <1>7, <1>8, <1>9, <1>10, <1>11
     DEF Next, Node, Ended

-----------------------------------------------------------------------------
(* The record.  Between integrations it is exact.  During one it lags      *)
(* behind: what is on the work branch and not in the record yet was merged *)
(* by this attempt, or by one that was interrupted, and is still to be     *)
(* merged -- which cannot conflict, as it is there already -- or has been, *)
(* so that the report adds it.                                             *)
Lagging ==
  /\ merged \subseteq OnWorkBranch
  /\ handled \subseteq ToMerge /\ stopped \subseteq handled
  /\ \A w \in handled \ stopped : branch[latest[w].branch] \subseteq work
  /\ \A i \in OnWorkBranch \ merged : \E w \in ToMerge \ stopped :
       latest[w].branch = i /\ branch[i] \subseteq work

RecordInv ==
  /\ stage = "bootstrap" => merged = {}
  /\ stage = "integrate" => Lagging
  /\ LandedIsRecorded

LEMMA RecordInit == Init => RecordInv
BY DEF Init, GitInit, RecordInv, LandedIsRecorded, OnWorkBranch, Authors

(* A step outside integrate that leaves the work branch and the record.    *)
LEMMA RecordKept ==
  ASSUME RecordInv, stage # "integrate", UNCHANGED <<work, merged>>,
         stage' # "integrate", stage' = "bootstrap" => stage = "bootstrap",
         stage = "raised" => stage' = "raised"
  PROVE  RecordInv'
BY DEF RecordInv, LandedIsRecorded, OnWorkBranch, Authors

LEMMA RecordMerges ==
  ASSUME TypeOK, EachWritesItsOwn, RecordInv, NEW w \in AllItems,
         IntegrateMerges(w)
  PROVE  RecordInv'
<1>. DEFINE b == latest[w].branch
<1>1. /\ stage = "integrate" /\ stage' = "integrate"
      /\ w \in ToMerge \ handled /\ handled' = handled \cup {w}
      /\ work' = work \cup branch[b]
      /\ UNCHANGED <<branch, latest, merged, stopped>>
  BY DEF IntegrateMerges, IsNext, Todo, MergeClean, IntegrateFrame,
         checkpointVars, devVars
<1>2. b \in Index /\ \A v \in AllItems : latest[v].branch \in Index
  BY DEF TypeOK, DevResult
<1>3. /\ OnWorkBranch \subseteq OnWorkBranch'
      /\ OnWorkBranch' \subseteq OnWorkBranch \cup {b}
  BY <1>1, <1>2 DEF EachWritesItsOwn, OnWorkBranch, Authors
<1>4. ToMerge' = ToMerge
  BY <1>1 DEF ToMerge
<1>5. Lagging
  BY <1>1 DEF RecordInv
<1>6. /\ merged' \subseteq OnWorkBranch'
      /\ handled' \subseteq ToMerge' /\ stopped' \subseteq handled'
  BY <1>1, <1>3, <1>4, <1>5 DEF Lagging
<1>7. \A v \in handled' \ stopped' : branch'[latest'[v].branch] \subseteq work'
  BY <1>1, <1>5 DEF Lagging
<1>8. \A i \in OnWorkBranch' \ merged' : \E v \in ToMerge' \ stopped' :
        latest'[v].branch = i /\ branch'[i] \subseteq work'
  <2>. SUFFICES ASSUME NEW i \in OnWorkBranch' \ merged'
                PROVE  \E v \in ToMerge \ stopped :
                         latest[v].branch = i /\ branch[i] \subseteq work'
    BY <1>1, <1>4
  <2>1. CASE i = b
    BY <1>1, <1>5, <2>1 DEF Lagging
  <2>2. CASE i # b
    BY <1>1, <1>3, <1>5, <2>2 DEF Lagging
  <2>. QED BY <2>1, <2>2
<1>. QED
  BY <1>1, <1>6, <1>7, <1>8 DEF RecordInv, Lagging, LandedIsRecorded

LEMMA RecordConflicts ==
  ASSUME TypeOK, RecordInv, NEW w \in AllItems, IntegrateConflicts(w)
  PROVE  RecordInv'
<1>1. /\ stage = "integrate" /\ stage' = "integrate"
      /\ w \in ToMerge \ handled
      /\ handled' = handled \cup {w} /\ stopped' = stopped \cup {w}
      /\ UNCHANGED <<work, branch, latest, merged>>
  BY DEF IntegrateConflicts, IsNext, Todo, MergeStops, MergeRefused,
         IntegrateFrame, checkpointVars, gitVars, cloneVars, devVars
<1>2. ~ (branch[latest[w].branch] \subseteq work)
  BY DEF IntegrateConflicts, MergeStops, MergeRefused, Diverged, HasCommits
<1>3. ToMerge' = ToMerge /\ OnWorkBranch' = OnWorkBranch
  BY <1>1 DEF ToMerge, OnWorkBranch, Authors
<1>4. Lagging
  BY <1>1 DEF RecordInv
<1>5. Lagging'
  BY <1>1, <1>2, <1>3, <1>4 DEF Lagging
<1>. QED BY <1>1, <1>5 DEF RecordInv, LandedIsRecorded

LEMMA RecordReports ==
  ASSUME TypeOK, ResultsInv, RecordInv, IntegrateReports
  PROVE  RecordInv'
<1>1. /\ stage = "integrate" /\ stage' \in {"devs", "tester_final"}
      /\ ToMerge \subseteq handled
      /\ merged' = merged \cup {latest[w].branch : w \in handled \ stopped}
      /\ work' = work
  BY DEF IntegrateReports, Todo, Send, gitVars, cloneVars
<1>2. Lagging
  BY <1>1 DEF RecordInv
<1>3. \A w \in AllItems : latest[w].branch \in Index
  BY DEF TypeOK, DevResult
<1>4. OnWorkBranch \subseteq merged'
  BY <1>1, <1>2 DEF Lagging
<1>5. ASSUME NEW w \in handled \ stopped
      PROVE  latest[w].branch \in OnWorkBranch
  <2>1. w \in ToMerge /\ branch[latest[w].branch] \subseteq work
    BY <1>2 DEF Lagging
  <2>2. Carries(latest[w].branch)
    BY <1>1, <1>3, <2>1
       DEF ResultsInv, LatestInv, OnlyDevsRun, ToMerge, Claims
  <2>3. latest[w].branch \in Index
    BY <1>3, <2>1 DEF ToMerge
  <2>. QED BY <2>1, <2>2, <2>3 DEF Carries, OnWorkBranch, Authors
<1>6. merged' \subseteq OnWorkBranch
  BY <1>1, <1>2, <1>5 DEF Lagging
<1>. QED
  BY <1>1, <1>4, <1>6 DEF RecordInv, LandedIsRecorded, OnWorkBranch, Authors

LEMMA RecordStep ==
  TypeOK /\ EachWritesItsOwn /\ ResultsInv /\ RecordInv /\ [Next]_vars
    => RecordInv'
<1>. SUFFICES ASSUME TypeOK, EachWritesItsOwn, ResultsInv, RecordInv,
                     [Next]_vars
              PROVE  RecordInv'
  OBVIOUS
<1>. USE DEF gitVars, cloneVars, checkpointVars
<1>1. CASE Bootstrap
  <2>1. work' = {} /\ merged' = {} /\ stage' = "architect"
    BY <1>1 DEF Bootstrap, Clone, RecordInv
  <2>. QED BY <2>1 DEF RecordInv, LandedIsRecorded, OnWorkBranch, Authors
<1>2. CASE BootstrapFails \/ IntegrateRaises
           \/ \E i \in Index : ArchitectRaises(i)
  <2>1. stage' = "raised"
    BY <1>2 DEF BootstrapFails, IntegrateRaises, ArchitectRaises, Raise
  <2>. QED BY <2>1 DEF RecordInv, LandedIsRecorded
<1>3. CASE \/ ArchitectFails \/ ArchitectPlans \/ FanOut \/ Deliver \/ Report
           \/ \E i \in Index : ArchitectCreates(i)
  BY <1>3, RecordKept
     DEF ArchitectFails, ArchitectPlans, FanOut, Deliver, Report,
         ArchitectCreates, CreateWorktree, Cleanup, Send
<1>4. CASE \E i \in Index : Dev(i)
  <2>1. PICK i \in Index : Dev(i)
    BY <1>4
  <2>2. UNCHANGED <<checkpointVars, work>>
    BY <2>1 DEF Dev, DevHasNoWorktree, DevStarts, DevRetries, AgentFails,
         AgentSucceeds, DevGivesUp, DevResolves, DevCommits, DevReturns,
         DevFrame, AgentEdits, CommitAll, ContinueGivesUp, RebaseAbort,
         ContinueSucceeds, BeginRebaseEmpty, BeginRebaseConflicts,
         RebaseReplays, RebaseRefused, RebaseStops, RebaseAlreadyOpen
  <2>3. stage # "integrate"
    BY <2>1 DEF ResultsInv, OnlyDevsRun, Dev, DevHasNoWorktree, DevStarts,
         DevRetries, AgentFails, AgentSucceeds, InTurn, DevGivesUp,
         DevResolves, DevCommits, DevReturns
  <2>. QED BY <2>2, <2>3, RecordKept
<1>5. CASE Join
  <2>1. /\ stage = "devs" /\ stage' = "integrate"
        /\ handled' = {} /\ stopped' = {} /\ UNCHANGED <<work, merged>>
    BY <1>5 DEF Join
  <2>2. merged' = OnWorkBranch'
    BY <2>1 DEF RecordInv, LandedIsRecorded, OnWorkBranch, Authors
  <2>. QED BY <2>1, <2>2 DEF RecordInv, Lagging, LandedIsRecorded
<1>6. CASE \E w \in AllItems : IntegrateMerges(w) \/ IntegrateConflicts(w)
  BY <1>6, RecordMerges, RecordConflicts
<1>7. CASE IntegrateAborts \/ LateWrites \/ UNCHANGED vars
  <2>1. UNCHANGED <<checkpointVars, work, branch, handled, stopped>>
    BY <1>7 DEF IntegrateAborts, IntegrateFrame, MergeAborts, LateWrites,
         TestCommandLeaves, devVars, vars, localVars, integrateVars
  <2>. QED
    BY <2>1 DEF RecordInv, Lagging, LandedIsRecorded, OnWorkBranch, Authors,
         ToMerge
<1>8. CASE IntegrateReports
  BY <1>8, RecordReports
<1>9. CASE TesterCommits
  <2>1. PICK wrote \in SUBSET {<<Verifier, repairRound + 1>>} :
          work' = work \cup wrote
    BY <1>9 DEF TesterCommits, CommitWorkBranch
  <2>2. OnWorkBranch' = OnWorkBranch
    BY <2>1, NDevsAssumption DEF OnWorkBranch, Authors, Verifier, Index
  <2>. QED
    BY <1>9, <2>2 DEF TesterCommits, RecordInv, LandedIsRecorded
<1>10. CASE TesterReports
  BY <1>10, RecordKept DEF TesterReports, TestCommandLeaves, Send
<1>11. CASE InterruptAndResume
  <2>1. /\ UNCHANGED <<work, merged, branch, latest>>
        /\ handled' = {} /\ stopped' = {}
        /\ stage # "raised"
        /\ stage' = ResumesAt
    BY <1>11
       DEF InterruptAndResume, InterruptAndResumeWith, AdoptExisting, devVars
  <2>2. CASE stage = "integrate"
    <3>1. stage' = "integrate"
      BY <2>1, <2>2 DEF ResumesAt
    <3>. QED
      BY <2>1, <2>2, <3>1
         DEF RecordInv, Lagging, LandedIsRecorded, OnWorkBranch, Authors,
             ToMerge
  <2>3. CASE stage # "integrate"
    <3>1. stage' # "integrate" /\ stage' = "bootstrap" => stage = "bootstrap"
      BY <2>1, <2>3 DEF ResumesAt
    <3>. QED BY <2>1, <2>3, <3>1, RecordKept DEF ResumesAt
  <2>. QED BY <2>2, <2>3
<1>. QED
  BY <1>1, <1>2, <1>3, <1>4, <1>5, <1>6, <1>7, <1>8, <1>9, <1>10, <1>11
     DEF Next, Node, Ended

\* The record of merged branches is the truth about the work branch whenever
\* integrate is not in the middle of its merges, for any number of devs and
\* interruptions, any plan and any ids.
THEOREM RecordIsTrue == Spec => []LandedIsRecorded
<1>. DEFINE Inv == TypeOK /\ MarkersContained /\ EachWritesItsOwn /\ ResultsInv
                     /\ RecordInv
<1>1. Init => Inv
  BY InitTypes, MarkersInit, OwnInit, ResultsInit, RecordInit DEF Init
<1>2. Inv /\ [Next]_vars => Inv'
  BY StepTypes, MarkersStep, OwnStep, ResultsStep, RecordStep
<1>3. Inv => LandedIsRecorded
  BY DEF RecordInv
<1>. QED BY <1>1, <1>2, <1>3, PTL DEF Spec

-----------------------------------------------------------------------------
(* Nothing that landed is lost: the only step that takes anything off the  *)
(* work branch is the clone, and it runs before anything has landed.       *)
FreshAtBootstrap == stage = "bootstrap" => work = {} /\ merged = {}

LEMMA Grows ==
  ASSUME TypeOK, FreshAtBootstrap, [Next]_vars
  PROVE  /\ work \subseteq work' /\ merged \subseteq merged'
         /\ FreshAtBootstrap'
<1>. USE DEF gitVars, cloneVars, checkpointVars
<1>1. CASE Bootstrap \/ BootstrapFails
  BY <1>1 DEF Bootstrap, BootstrapFails, Raise, Clone, FreshAtBootstrap
<1>2. CASE ArchitectFails \/ ArchitectPlans \/ FanOut \/ Join
             \/ IntegrateReports \/ Deliver \/ Report \/ UNCHANGED vars
  BY <1>2 DEF ArchitectFails, ArchitectPlans, FanOut, Join, IntegrateReports,
       Deliver, Report, Cleanup, Send, vars, FreshAtBootstrap
<1>3. CASE \E i \in Index : ArchitectCreates(i) \/ ArchitectRaises(i)
  BY <1>3 DEF ArchitectCreates, ArchitectRaises, CreateWorktree, Raise,
       FreshAtBootstrap
<1>4. CASE \E i \in Index : Dev(i)
  BY <1>4 DEF Dev, DevHasNoWorktree, DevStarts, DevRetries, AgentFails,
       AgentSucceeds, DevGivesUp, DevResolves, DevCommits, DevReturns,
       DevFrame, AgentEdits, CommitAll, ContinueGivesUp, RebaseAbort,
       ContinueSucceeds, BeginRebaseEmpty, BeginRebaseConflicts,
       RebaseReplays, RebaseRefused, RebaseStops, RebaseAlreadyOpen,
       FreshAtBootstrap
<1>5. CASE \E w \in AllItems : IntegrateMerges(w) \/ IntegrateConflicts(w)
  BY <1>5 DEF IntegrateMerges, IntegrateConflicts, IntegrateFrame, MergeClean,
       MergeStops, MergeRefused, FreshAtBootstrap
<1>6. CASE IntegrateAborts \/ IntegrateRaises
  BY <1>6 DEF IntegrateAborts, IntegrateRaises, IntegrateFrame, MergeAborts,
       CheckoutFails, Raise, FreshAtBootstrap
<1>7. CASE TesterCommits \/ TesterReports \/ LateWrites
  BY <1>7 DEF TesterCommits, TesterReports, LateWrites, CommitWorkBranch,
       TestCommandLeaves, Send, FreshAtBootstrap
<1>8. CASE InterruptAndResume
  BY <1>8
     DEF InterruptAndResume, InterruptAndResumeWith, AdoptExisting, ResumesAt,
         FreshAtBootstrap
<1>. QED
  BY <1>1, <1>2, <1>3, <1>4, <1>5, <1>6, <1>7, <1>8 DEF Next, Node, Ended

\* No step of any run takes anything off the work branch or off the record of
\* merges, whatever fails, is retried or is interrupted.
THEOREM LandedStays == Spec => NothingLandedIsLost
<1>1. Init => FreshAtBootstrap
  BY DEF Init, GitInit, FreshAtBootstrap
<1>2. TypeOK /\ FreshAtBootstrap /\ [Next]_vars =>
        [work \subseteq work' /\ merged \subseteq merged']_vars
  BY Grows
<1>3. TypeOK /\ FreshAtBootstrap /\ [Next]_vars => FreshAtBootstrap'
  BY Grows
<1>. QED BY <1>1, <1>2, <1>3, TypeCorrect, PTL DEF Spec, NothingLandedIsLost

-----------------------------------------------------------------------------
(* Every result that claims something to merge is dealt with: integrate    *)
(* does not report before it is through with all of them, and until devs   *)
(* are sent again neither the results nor their branches change.           *)
AccountedInv ==
  /\ stage \in {"bootstrap", "architect", "worktrees"} => ToMerge = {}
  /\ EveryResultAccountedFor

LEMMA AccountedStep ==
  TypeOK /\ ResultsInv /\ RecordInv /\ AccountedInv /\ [Next]_vars
    => AccountedInv'
<1>. SUFFICES ASSUME TypeOK, ResultsInv, RecordInv, AccountedInv, [Next]_vars
              PROVE  AccountedInv'
  OBVIOUS
<1>. USE DEF gitVars, cloneVars, devVars, checkpointVars
<1>1. CASE \/ Bootstrap \/ BootstrapFails \/ ArchitectFails \/ ArchitectPlans
           \/ FanOut
           \/ \E i \in Index : ArchitectCreates(i) \/ ArchitectRaises(i)
  <2>1. /\ stage \in {"bootstrap", "architect", "worktrees"}
        /\ latest' = latest
    BY <1>1 DEF Bootstrap, BootstrapFails, ArchitectFails, ArchitectPlans,
         FanOut, ArchitectCreates, ArchitectRaises, Raise
  <2>2. ToMerge = {} /\ ToMerge' = ToMerge
    BY <2>1 DEF AccountedInv, ToMerge
  <2>. QED BY <2>2 DEF AccountedInv, EveryResultAccountedFor
<1>2. CASE \E i \in Index : Dev(i)
  <2>1. stage' = "devs"
    BY <1>2 DEF ResultsInv, OnlyDevsRun, Dev, DevHasNoWorktree, DevStarts,
         DevRetries, AgentFails, AgentSucceeds, InTurn, DevGivesUp,
         DevResolves, DevCommits, DevReturns, DevFrame
  <2>. QED BY <2>1 DEF AccountedInv, EveryResultAccountedFor
<1>3. CASE \/ Join \/ IntegrateAborts \/ IntegrateRaises
           \/ \E w \in AllItems : IntegrateMerges(w) \/ IntegrateConflicts(w)
  <2>1. stage' \in {"integrate", "raised"}
    BY <1>3 DEF Join, IntegrateAborts, IntegrateRaises, IntegrateMerges,
         IntegrateConflicts, IntegrateFrame, Raise
  <2>. QED BY <2>1 DEF AccountedInv, EveryResultAccountedFor
<1>4. CASE IntegrateReports
  <2>1. /\ stage = "integrate" /\ stage' \in {"devs", "tester_final"}
        /\ ToMerge \subseteq handled /\ conflicts' = stopped
        /\ UNCHANGED <<work, branch, latest>>
    BY <1>4 DEF IntegrateReports, Todo, Send
  <2>2. \A w \in handled \ stopped : branch[latest[w].branch] \subseteq work
    BY <2>1 DEF RecordInv, Lagging
  <2>. QED
    BY <2>1, <2>2 DEF AccountedInv, EveryResultAccountedFor, ToMerge
<1>5. CASE TesterCommits \/ TesterReports \/ Deliver \/ Report
             \/ LateWrites \/ UNCHANGED vars
  <2>1. /\ stage' = stage \/ stage \in {"tester_final", "testing", "deliver",
                                        "report"}
        /\ stage' \notin {"bootstrap", "architect", "worktrees"}
             \/ stage' = stage
        /\ UNCHANGED <<branch, latest, conflicts>>
        /\ work \subseteq work'
    BY <1>5 DEF TesterCommits, TesterReports, Deliver, Report, Cleanup, Send,
         LateWrites, CommitWorkBranch, TestCommandLeaves, vars
  <2>. QED BY <2>1 DEF AccountedInv, EveryResultAccountedFor, ToMerge
<1>6. CASE InterruptAndResume
  <2>1. /\ UNCHANGED <<work, branch, latest, conflicts>>
        /\ stage' = stage
             \/ (stage = "worktrees" /\ stage' = "architect")
             \/ (stage = "testing" /\ stage' = "tester_final")
    BY <1>6
       DEF InterruptAndResume, InterruptAndResumeWith, AdoptExisting, ResumesAt
  <2>. QED BY <2>1 DEF AccountedInv, EveryResultAccountedFor, ToMerge
<1>. QED BY <1>1, <1>2, <1>3, <1>4, <1>5, <1>6 DEF Next, Node, Ended

\* After integration every result that claims success and commits is on the
\* work branch or among the conflicts the report lists.
THEOREM ResultsAccountedFor == Spec => []EveryResultAccountedFor
<1>. DEFINE Inv == TypeOK /\ MarkersContained /\ EachWritesItsOwn /\ ResultsInv
                     /\ RecordInv /\ AccountedInv
<1>1. Init => Inv
  <2>1. Init => AccountedInv
    BY Unclaimed
       DEF Init, AccountedInv, EveryResultAccountedFor, ToMerge, Claims
  <2>. QED
    BY <2>1, InitTypes, MarkersInit, OwnInit, ResultsInit, RecordInit DEF Init
<1>2. Inv /\ [Next]_vars => Inv'
  BY StepTypes, MarkersStep, OwnStep, ResultsStep, RecordStep, AccountedStep
<1>3. Inv => EveryResultAccountedFor
  BY DEF AccountedInv
<1>. QED BY <1>1, <1>2, <1>3, PTL DEF Spec
=============================================================================
