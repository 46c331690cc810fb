--------------------------- MODULE WorktreesProofs ---------------------------
(* Facts about the operations of Worktrees that the proofs about the      *)
(* modules built on it cite.                                               *)
EXTENDS Worktrees, WellFoundedInduction, TLAPS

(* A set of worktree indexes that is not empty has a largest member.       *)
LEMMA LastIndex ==
  ASSUME NEW S \in SUBSET Index, S # {}
  PROVE  \E i \in S : \A j \in S : j <= i
<1>. DEFINE T == {NDevs - i : i \in S}
<1>1. T \subseteq Nat /\ T # {}
  BY NDevsAssumption DEF Index
<1>2. PICK x \in T : \A y \in T : ~ (<<y, x>> \in OpToRel(<, Nat))
  BY <1>1, NatLessThanWellFounded, WFMin, Zenon
<1>3. PICK i \in S : x = NDevs - i
  OBVIOUS
<1>4. ASSUME NEW j \in S PROVE j <= i
  <2>1. NDevs - j \in T
    OBVIOUS
  <2>2. ~ (NDevs - j < x)
    BY <1>1, <1>2, <2>1 DEF OpToRel
  <2>. QED BY <1>3, <2>2, NDevsAssumption DEF Index
<1>. QED BY <1>4

-----------------------------------------------------------------------------
(* Every operation keeps the git state well typed.                         *)

LEMMA GitInitTypes == GitInit => GitTypeOK
BY DEF GitInit, GitTypeOK, NoFiles

LEMMA CloneTypes == GitTypeOK /\ Clone => GitTypeOK'
BY DEF GitTypeOK, Clone, NoFiles

LEMMA CreateWorktreeTypes ==
  ASSUME NEW i \in Index, GitTypeOK, CreateWorktree(i)
  PROVE  GitTypeOK'
BY DEF GitTypeOK, CreateWorktree, cloneVars, rebaseVars

LEMMA AdoptTypes ==
  GitTypeOK /\ AdoptExisting /\ dirty' \in BOOLEAN => GitTypeOK'
BY DEF GitTypeOK, AdoptExisting, Adoptable, devVars, rebaseVars

LEMMA CleanupTypes == GitTypeOK /\ Cleanup => GitTypeOK'
BY DEF GitTypeOK, Cleanup, cloneVars

LEMMA CommitAllTypes ==
  ASSUME NEW i \in Index, GitTypeOK, CommitAll(i)
  PROVE  GitTypeOK'
<1>1. EdgeMarkers \in Content
  BY NDevsAssumption DEF EdgeMarkers, Content
<1>. QED BY <1>1 DEF GitTypeOK, CommitAll, cloneVars, treeVars, rebaseVars

LEMMA MergeTypes ==
  ASSUME NEW i \in Index, GitTypeOK,
         MergeClean(i) \/ MergeStops(i) \/ MergeRefused(i) \/ MergeAborts
           \/ CheckoutFails
  PROVE  GitTypeOK'
BY DEF GitTypeOK, MergeClean, MergeStops, MergeRefused, MergeAborts,
       CheckoutFails, gitVars, cloneVars, treeVars, devVars, rebaseVars

LEMMA BeginRebaseTypes ==
  ASSUME NEW i \in Index, GitTypeOK,
         BeginRebaseEmpty(i) \/ BeginRebaseConflicts(i)
  PROVE  GitTypeOK'
<1>1. CASE RebaseReplays(i)
  BY <1>1 DEF GitTypeOK, RebaseReplays, cloneVars, treeVars, rebaseVars
<1>2. CASE RebaseStops(i)
  BY <1>2 DEF GitTypeOK, RebaseStops, cloneVars, treeVars
<1>3. CASE UNCHANGED gitVars
  BY <1>3 DEF GitTypeOK, gitVars, cloneVars, treeVars, devVars, rebaseVars
<1>. QED
  BY <1>1, <1>2, <1>3 DEF BeginRebaseEmpty, BeginRebaseConflicts,
       RebaseRefused, RebaseAlreadyOpen

LEMMA ContinueTypes ==
  ASSUME NEW i \in Index, GitTypeOK,
         ContinueGivesUp(i) \/ ContinueSucceeds(i)
  PROVE  GitTypeOK'
<1>1. CASE ContinueGivesUp(i)
  BY <1>1 DEF GitTypeOK, ContinueGivesUp, RebaseAbort, cloneVars, treeVars
<1>2. CASE ContinueSucceeds(i)
  BY <1>2 DEF GitTypeOK, ContinueSucceeds, cloneVars, treeVars
<1>. QED BY <1>1, <1>2

LEMMA DividerType ==
  ASSUME NEW i \in Index
  PROVE  Divider(i) \in Content /\ Divider(i) # EdgeMarkers
<1>1. i \in -1..NDevs + 1 /\ i # -1
  BY NDevsAssumption DEF Index
<1>. QED BY <1>1 DEF Divider, EdgeMarkers, Content

LEMMA AgentEditsTypes ==
  ASSUME NEW i \in Index, NEW c \in Content, GitTypeOK, AgentEdits(i, c)
  PROVE  GitTypeOK'
BY DividerType DEF GitTypeOK, AgentEdits, cloneVars, treeVars

LEMMA CommitWorkBranchTypes ==
  ASSUME NEW wrote \in SUBSET Content, GitTypeOK, CommitWorkBranch(wrote)
  PROVE  GitTypeOK'
BY DEF GitTypeOK, CommitWorkBranch, treeVars, devVars, rebaseVars

LEMMA TestCommandTypes ==
  ASSUME NEW d \in BOOLEAN, GitTypeOK, TestCommandLeaves(d)
  PROVE  GitTypeOK'
BY DEF GitTypeOK, TestCommandLeaves, treeVars, devVars, rebaseVars

LEMMA GitUnchangedTypes == GitTypeOK /\ UNCHANGED gitVars => GitTypeOK'
BY DEF GitTypeOK, gitVars, cloneVars, treeVars, devVars, rebaseVars

-----------------------------------------------------------------------------
(* Lines that open or close a conflict.  They are only ever in the files   *)
(* of a worktree whose rebase is open, and nothing that is committed, written by an agent or   *)
(* replayed onto holds any -- provided commit_all never runs while a       *)
(* rebase is open, which is for the caller to see to.                      *)
MarkersContained ==
  /\ EdgeMarkers \notin work
  /\ \A i \in Index : /\ EdgeMarkers \notin branch[i]
                      /\ EdgeMarkers \notin edits[i]
                      /\ EdgeMarkers \notin onto[i]
  /\ marked \subseteq rebasing

LEMMA MarkersInit == GitInit => MarkersContained
BY DEF GitInit, MarkersContained, NoFiles

LEMMA MarkersClone == Clone => MarkersContained'
BY DEF Clone, MarkersContained, NoFiles

LEMMA MarkersCreate ==
  ASSUME GitTypeOK, MarkersContained, NEW i \in Index, CreateWorktree(i)
  PROVE  MarkersContained'
BY DEF GitTypeOK, CreateWorktree, MarkersContained, cloneVars, rebaseVars

LEMMA MarkersAdopt == MarkersContained /\ AdoptExisting => MarkersContained'
BY DEF AdoptExisting, MarkersContained, cloneVars, devVars, rebaseVars

LEMMA MarkersCleanup == MarkersContained /\ Cleanup => MarkersContained'
BY DEF Cleanup, MarkersContained, cloneVars

LEMMA MarkersCommitAll ==
  ASSUME GitTypeOK, MarkersContained, NEW i \in Index, i \notin rebasing,
         CommitAll(i)
  PROVE  MarkersContained'
BY DEF GitTypeOK, CommitAll, MarkersContained, cloneVars, rebaseVars

LEMMA MarkersMerge ==
  ASSUME GitTypeOK, MarkersContained, NEW i \in Index,
         MergeClean(i) \/ MergeStops(i) \/ MergeRefused(i) \/ MergeAborts
           \/ CheckoutFails
  PROVE  MarkersContained'
BY DEF GitTypeOK, MergeClean, MergeStops, MergeRefused, MergeAborts,
       CheckoutFails, MarkersContained, gitVars, cloneVars, treeVars, devVars,
       rebaseVars

LEMMA MarkersBeginRebase ==
  ASSUME GitTypeOK, MarkersContained, NEW i \in Index,
         BeginRebaseEmpty(i) \/ BeginRebaseConflicts(i)
  PROVE  MarkersContained'
BY DEF GitTypeOK, BeginRebaseEmpty, BeginRebaseConflicts, RebaseReplays,
       RebaseRefused, RebaseStops, RebaseAlreadyOpen, MarkersContained,
       gitVars, cloneVars, treeVars, devVars, rebaseVars

LEMMA MarkersContinue ==
  ASSUME GitTypeOK, MarkersContained, NEW i \in Index,
         ContinueGivesUp(i) \/ ContinueSucceeds(i)
  PROVE  MarkersContained'
BY DEF GitTypeOK, ContinueGivesUp, ContinueSucceeds, RebaseAbort,
       MarkersContained, cloneVars, treeVars

LEMMA MarkersAgent ==
  ASSUME GitTypeOK, MarkersContained, NEW i \in Index, NEW c, c # EdgeMarkers,
         AgentEdits(i, c)
  PROVE  MarkersContained'
BY DividerType DEF GitTypeOK, AgentEdits, MarkersContained, cloneVars, treeVars

LEMMA MarkersCommitWork ==
  ASSUME MarkersContained, NEW wrote, EdgeMarkers \notin wrote,
         CommitWorkBranch(wrote)
  PROVE  MarkersContained'
BY DEF CommitWorkBranch, MarkersContained, treeVars, devVars, rebaseVars

LEMMA MarkersTestCommand ==
  ASSUME MarkersContained, NEW d, TestCommandLeaves(d)
  PROVE  MarkersContained'
BY DEF TestCommandLeaves, MarkersContained, treeVars, devVars, rebaseVars

LEMMA MarkersUnchanged ==
  MarkersContained /\ UNCHANGED gitVars => MarkersContained'
BY DEF MarkersContained, gitVars, cloneVars, treeVars, devVars, rebaseVars
=============================================================================
