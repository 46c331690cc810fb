-------------------------- MODULE TeamContractProofs --------------------------
(* TeamGraph implements RunContract, for every value of the constants.     *)
EXTENDS TeamContract, MergeRecordProofs

(* What the status and the last test pass are before the run is over: a    *)
(* run that is aborted is reported failed because bootstrap said so, and   *)
(* devs are only sent back over tests that failed.  report never sees a    *)
(* run that was not delivered.                                             *)
VerdictInv ==
  /\ stage \notin {"bootstrap", "end", "raised"} => status = "failed"
  /\ stage \notin {"deliver", "report", "end"} => test.verdict # "passed"
  /\ stage = "report" => delivery # "none"

LEMMA VerdictStep == TypeOK /\ VerdictInv /\ [Next]_vars => VerdictInv'
<1>. SUFFICES ASSUME TypeOK, VerdictInv, [Next]_vars PROVE VerdictInv'
  OBVIOUS
<1>. USE DEF VerdictInv, checkpointVars
<1>1. CASE \/ Bootstrap \/ BootstrapFails \/ ArchitectFails \/ ArchitectPlans
           \/ FanOut
           \/ \E i \in Index : ArchitectCreates(i) \/ ArchitectRaises(i)
  BY <1>1 DEF Bootstrap, BootstrapFails, ArchitectFails, ArchitectPlans,
       FanOut, ArchitectCreates, ArchitectRaises, Raise, Send
<1>2. CASE \E i \in Index : Dev(i)
  <2>1. UNCHANGED checkpointVars
    BY <1>2 DEF Dev, DevHasNoWorktree, DevStarts, DevRetries, AgentFails,
         AgentSucceeds, DevGivesUp, DevResolves, DevCommits, DevReturns,
         DevFrame
  <2>. QED BY <2>1
<1>3. CASE \/ Join \/ IntegrateAborts \/ IntegrateRaises \/ IntegrateReports
           \/ \E w \in AllItems : IntegrateMerges(w) \/ IntegrateConflicts(w)
  BY <1>3 DEF Join, IntegrateAborts, IntegrateRaises, IntegrateReports,
       IntegrateMerges, IntegrateConflicts, IntegrateFrame, Raise, Send
<1>4. CASE TesterCommits \/ Deliver \/ Report
  BY <1>4 DEF TesterCommits, Deliver, Report
<1>5. CASE TesterReports
  <2>1. PICK passed \in BOOLEAN :
          /\ test'.verdict = IF passed THEN "passed" ELSE "failed"
          /\ stage' = "deliver" \/ AfterTests(passed, repairRound + 1) # {}
    BY <1>5 DEF TesterReports
  <2>2. passed => stage' = "deliver"
    BY <2>1 DEF AfterTests
  <2>3. stage = "testing" /\ stage' \in {"devs", "deliver"} /\ status' = status
    BY <1>5 DEF TesterReports, Send
  <2>. QED BY <2>1, <2>2, <2>3
<1>6. CASE InterruptAndResume
  BY <1>6 DEF InterruptAndResume, InterruptAndResumeWith, ResumesAt
<1>7. CASE LateWrites \/ UNCHANGED vars
  BY <1>7 DEF LateWrites, vars
<1>. QED
  BY <1>1, <1>2, <1>3, <1>4, <1>5, <1>6, <1>7 DEF Next, Node, Ended

(* Everything the steps of the contract rest on.                           *)
Underway ==
  /\ TypeOK /\ FreshAtBootstrap /\ RecordInv /\ TestedInv
  /\ AccountedInv /\ VerdictInv

LEMMA LandedAgrees ==
  ASSUME TypeOK
  PROVE  Contract!Landed <=> OnWorkBranch # {}
BY DEF TypeOK, GitTypeOK, Contract!Landed, OnWorkBranch, Authors, Content, Index

(* A step that leaves the branches, the results and the verdicts alone and *)
(* stays where the run stands is a step of neither actor in the contract.  *)
LEMMA ContractStutters ==
  ASSUME UNCHANGED <<stage, work, branch, latest, repairRound, test, delivery,
                     status>>
  PROVE  UNCHANGED Contract!contractVars
BY DEF Contract!contractVars, ContractPhase, Owed, ToMerge, TestedGreen

\* A step of the team while it works on the branch.
LEMMA ContractWorks ==
  ASSUME ContractPhase = "working", ContractPhase' = "working",
         work \subseteq work', UNCHANGED <<test, delivery>>,
         test.verdict # "passed"
  PROVE  Contract!Work
BY DEF Contract!Work, ContractPhase, TestedGreen

LEMMA ContractAborts ==
  ASSUME ContractPhase = "working", stage' \in {"end", "raised"},
         status' = "failed", Owed' = Owed, work' = work,
         UNCHANGED <<repairRound, test, delivery>>
  PROVE  Contract!Abort
BY DEF Contract!Abort, ContractPhase, TestedGreen

LEMMA ContractFinishes ==
  ASSUME Underway, Report
  PROVE  Contract!Finish
<1>1. /\ stage = "report" /\ stage' = "end" /\ status' = FinalStatus
      /\ UNCHANGED <<work, branch, latest, repairRound, test, delivery>>
  BY DEF Report, Cleanup, cloneVars
<1>2. FinalStatus = "failed" <=> OnWorkBranch = {}
  BY <1>1 DEF Underway, RecordInv, LandedIsRecorded, FinalStatus, Landed
<1>3. ASSUME FinalStatus = "succeeded"
      PROVE  ~ Contract!FellShort
  <2>1. ~ FellShort
    BY <1>3 DEF FinalStatus
  <2>2. TestedGreen
    BY <1>1, <2>1 DEF Underway, TestedInv, TestedGreen, FellShort
  <2>3. delivery = "ok"
    BY <1>1, <2>1 DEF Underway, VerdictInv, TypeOK, FellShort
  <2>4. Owed = {}
    BY <1>1, <2>1
       DEF Underway, AccountedInv, EveryResultAccountedFor, FellShort, Owed
  <2>. QED BY <2>2, <2>3, <2>4 DEF Contract!FellShort
<1>4. /\ ContractPhase = "delivered" /\ ContractPhase' = "over"
      /\ Owed' = Owed /\ TestedGreen' = TestedGreen
  BY <1>1 DEF ContractPhase, Owed, ToMerge, TestedGreen
<1>5. status' \in {"failed", "partial", "succeeded"}
  BY <1>1 DEF FinalStatus
<1>6. Contract!Landed <=> OnWorkBranch # {}
  BY LandedAgrees DEF Underway
<1>. QED
  BY <1>1, <1>2, <1>3, <1>4, <1>5, <1>6 DEF Contract!Finish

LEMMA ContractStep ==
  ASSUME Underway, ResultsInv, [Next]_vars
  PROVE  [Contract!Next]_(Contract!contractVars)
<1>. USE DEF gitVars, cloneVars, devVars, checkpointVars, Contract!Next
<1>0. stage \in {"bootstrap", "architect", "worktrees"} => ToMerge = {}
  BY DEF Underway, AccountedInv
<1>1. CASE Bootstrap
  <2>1. /\ ContractPhase = "working" /\ ContractPhase' = "working"
        /\ work' = work /\ UNCHANGED <<test, delivery>>
    BY <1>1 DEF Bootstrap, Clone, Underway, FreshAtBootstrap, ContractPhase
  <2>2. test.verdict # "passed"
    BY <1>1 DEF Bootstrap, Underway, VerdictInv
  <2>. QED BY <2>1, <2>2, ContractWorks
<1>2. CASE BootstrapFails
  <2>1. /\ stage = "bootstrap" /\ stage' = "raised" /\ status' = "failed"
        /\ work' = work /\ UNCHANGED <<latest, repairRound, test, delivery>>
    BY <1>2 DEF BootstrapFails, Raise, Clone, Underway, FreshAtBootstrap
  <2>2. Owed' = Owed
    BY <1>0, <2>1 DEF Owed, ToMerge
  <2>. QED BY <2>1, <2>2, ContractAborts DEF ContractPhase
<1>3. CASE \/ ArchitectFails \/ IntegrateRaises
           \/ \E i \in Index : ArchitectRaises(i)
  <2>1. /\ stage \in {"architect", "integrate", "worktrees"}
        /\ stage' \in {"end", "raised"}
        /\ status' = "failed"
        /\ UNCHANGED <<work, branch, latest, repairRound, test, delivery>>
    BY <1>3 DEF ArchitectFails, IntegrateRaises, ArchitectRaises, Raise,
         CheckoutFails, Underway, VerdictInv
  <2>2. Owed' = Owed
    BY <2>1 DEF Owed, ToMerge
  <2>. QED BY <2>1, <2>2, ContractAborts DEF ContractPhase
<1>4. CASE \/ ArchitectPlans \/ FanOut \/ Join \/ TesterCommits
           \/ IntegrateAborts \/ IntegrateReports
           \/ \E i \in Index : ArchitectCreates(i) \/ Dev(i)
           \/ \E w \in AllItems : IntegrateMerges(w) \/ IntegrateConflicts(w)
  <2>1. work \subseteq work'
    BY Grows DEF Underway
  <2>2. /\ stage \notin {"deliver", "report", "end", "raised"}
        /\ stage' \notin {"deliver", "report", "end", "raised"}
        /\ UNCHANGED <<test, delivery>>
    <3>1. CASE \/ ArchitectPlans \/ FanOut \/ Join \/ TesterCommits
               \/ IntegrateReports
      BY <3>1 DEF ArchitectPlans, FanOut, Join, TesterCommits,
           IntegrateReports, Send
    <3>2. CASE \/ IntegrateAborts
               \/ \E i \in Index : ArchitectCreates(i)
               \/ \E w \in AllItems :
                    IntegrateMerges(w) \/ IntegrateConflicts(w)
      BY <3>2 DEF IntegrateAborts, ArchitectCreates, IntegrateMerges,
           IntegrateConflicts, IntegrateFrame
    <3>3. CASE \E i \in Index : Dev(i)
      <4>1. PICK i \in Index : Dev(i)
        BY <3>3
      <4>2. phase[i] # "idle" /\ UNCHANGED checkpointVars
        BY <4>1 DEF Dev, DevHasNoWorktree, DevStarts, DevRetries, AgentFails,
             AgentSucceeds, InTurn, DevGivesUp, DevResolves, DevCommits,
             DevReturns, DevFrame
      <4>3. stage = "devs"
        BY <4>2 DEF ResultsInv, OnlyDevsRun
      <4>. QED BY <4>2, <4>3
    <3>. QED BY <1>4, <3>1, <3>2, <3>3
  <2>3. ContractPhase = "working" /\ ContractPhase' = "working"
    BY <2>2 DEF ContractPhase
  <2>4. test.verdict # "passed"
    BY <2>2 DEF Underway, VerdictInv
  <2>. QED BY <2>1, <2>2, <2>3, <2>4, ContractWorks
<1>5. CASE TesterReports
  <2>1. /\ stage = "testing" /\ stage' \in {"devs", "deliver"}
        /\ UNCHANGED <<work, branch, latest, delivery, status>>
    BY <1>5 DEF TesterReports, TestCommandLeaves, Send
  <2>2. ContractPhase = "working" /\ Owed' = Owed
    BY <2>1 DEF ContractPhase, Owed, ToMerge
  <2>3. CASE stage' = "deliver"
    BY <2>1, <2>2, <2>3 DEF Contract!Verify, ContractPhase, TestedGreen
  <2>4. CASE stage' = "devs"
    <3>1. test.verdict # "passed" /\ test'.verdict # "passed"
      BY <1>5, <2>1, <2>4, VerdictStep DEF Underway, VerdictInv
    <3>. QED
      BY <2>1, <2>2, <2>4, <3>1 DEF Contract!Work, ContractPhase, TestedGreen
  <2>. QED BY <2>1, <2>3, <2>4
<1>6. CASE Deliver
  <2>1. /\ stage = "deliver" /\ stage' = "report"
        /\ UNCHANGED <<work, branch, latest, repairRound, test, status>>
    BY <1>6 DEF Deliver
  <2>2. Owed' = Owed
    BY <2>1 DEF Owed, ToMerge
  <2>. QED BY <2>1, <2>2 DEF Contract!Publish, ContractPhase, TestedGreen
<1>7. CASE Report
  BY <1>7, ContractFinishes
<1>8. CASE InterruptAndResume
  <2>1. /\ stage \notin {"end", "raised"} /\ stage' = ResumesAt
        /\ UNCHANGED <<work, branch, latest, repairRound, test, delivery,
                       status>>
    BY <1>8 DEF InterruptAndResume, InterruptAndResumeWith, AdoptExisting
  <2>2. UNCHANGED Contract!contractVars
    BY <2>1 DEF ResumesAt, Contract!contractVars, ContractPhase, Owed, ToMerge,
         TestedGreen
  <2>. QED BY <2>2
<1>9. CASE LateWrites \/ UNCHANGED vars
  BY <1>9, ContractStutters
     DEF LateWrites, TestCommandLeaves, vars
<1>. QED
  BY <1>1, <1>2, <1>3, <1>4, <1>5, <1>6, <1>7, <1>8, <1>9
     DEF Next, Node, Ended

\* Every run of the team, for any number of devs, plans, ids, budgets and
\* interruptions, is a run of the contract: the branch only grows and does not
\* change once tested, a run is aborted only before its last test pass, and
\* the status reported is true of what landed, was tested and was published.
THEOREM ContractKept == Spec => KeepsContract
<1>. DEFINE Inv == /\ Underway /\ MarkersContained /\ EachWritesItsOwn
                   /\ ResultsInv
<1>1. Init => Inv
  <2>1. Init => AccountedInv
    BY Unclaimed
       DEF Init, AccountedInv, EveryResultAccountedFor, ToMerge, Claims
  <2>2. Init => FreshAtBootstrap /\ TestedInv /\ VerdictInv
    BY DEF Init, GitInit, FreshAtBootstrap, TestedInv, SucceededMeansTested,
           VerdictInv
  <2>. QED
    BY <2>1, <2>2, InitTypes, MarkersInit, OwnInit, ResultsInit, RecordInit
       DEF Init, Underway
<1>2. Inv /\ [Next]_vars => Inv'
  BY StepTypes, MarkersStep, OwnStep, ResultsStep, RecordStep, AccountedStep,
     TestedStep, VerdictStep, Grows DEF Underway
<1>3. Init => Contract!Init
  BY Unclaimed
     DEF Init, GitInit, Contract!Init, ContractPhase, Owed, ToMerge, Claims,
         TestedGreen
<1>4. Inv /\ [Next]_vars => [Contract!Next]_(Contract!contractVars)
  BY ContractStep
<1>. QED BY <1>1, <1>2, <1>3, <1>4, PTL DEF Spec, KeepsContract, Contract!Spec
=============================================================================
