------------------------------ MODULE Worktrees ------------------------------
(***************************************************************************)
(* The git state one run works on and the operations that change it:       *)
(* vcs/worktrees.py (WorktreeManager), one action per method.              *)
(*                                                                         *)
(* Content is what a branch carries: a change <<author, n>> is the n-th    *)
(* thing an agent wrote.  Of the lines git writes around a conflict the    *)
(* code looks for those that open and close it: EdgeMarkers stands for     *)
(* such lines, committed, and Divider(i) for a line between them, which    *)
(* that dev i left behind when it took them out.                           *)
(* A branch is the set of contents reachable from it, so merging is union  *)
(* and "A..B" is set difference.  Whether two branches that have diverged  *)
(* touch the same lines is the environment's choice: a merge or a rebase   *)
(* of diverged branches may be clean or may conflict.                      *)
(***************************************************************************)
EXTENDS Integers, FiniteSets

CONSTANT NDevs          \* config.dev_count: how many devs a plan may use

ASSUME NDevsAssumption == NDevs \in Nat \ {0}

TesterIndex == 0        \* the worktree of the tester's scaffolding pass
Devs        == 1..NDevs
Index       == 0..NDevs
Verifier    == NDevs + 1  \* author of what the verification pass commits
EdgeMarkers == <<-1, 0>>  \* "<<<<<<< " and ">>>>>>> " lines, committed
Divider(i)  == <<i, 0>>   \* a line git put between the two sides, left by dev i
Content     == (-1..NDevs + 1) \X Nat

VARIABLES
  \* the main clone
  work,       \* contents of the work branch
  dirty,      \* uncommitted changes to tracked files are in the main clone
  merging,    \* a conflicted merge is open in the main clone (MERGE_HEAD)
  \* the worktrees
  branches,   \* indexes whose dev branch exists
  trees,      \* indexes whose worktree directory exists
  adopted,    \* the manager's in-memory _worktrees: gone with the process
  branch,     \* contents of each dev branch
  edits,      \* what is written in each worktree but not committed
  rebasing,   \* indexes with a rebase stopped on a conflict
  onto,       \* the work branch the open rebase replays onto
  marked      \* indexes whose files hold lines that open or close a conflict

cloneVars == <<work, dirty, merging>>
treeVars  == <<branches, trees, adopted>>
rebaseVars == <<rebasing, onto, marked>>
devVars   == <<branch, edits, rebaseVars>>
gitVars   == <<cloneVars, treeVars, devVars>>

GitTypeOK ==
  /\ work \in SUBSET Content
  /\ dirty \in BOOLEAN /\ merging \in BOOLEAN
  /\ branches \in SUBSET Index /\ trees \in SUBSET Index
  /\ adopted \in SUBSET Index
  /\ branch \in [Index -> SUBSET Content]
  /\ edits \in [Index -> SUBSET Content]
  /\ rebasing \in SUBSET Index /\ marked \in SUBSET Index
  /\ onto \in [Index -> SUBSET Content]

NoFiles == [i \in Index |-> {}]

GitInit ==
  /\ work = {} /\ dirty = FALSE /\ merging = FALSE
  /\ branches = {} /\ trees = {} /\ adopted = {}
  /\ branch = NoFiles /\ edits = NoFiles
  /\ rebasing = {} /\ onto = NoFiles /\ marked = {}

-----------------------------------------------------------------------------
(* clone: the previous clone and its worktrees are deleted, the work       *)
(* branch is cut off the base branch.  The in-memory map is not touched.   *)
Clone ==
  /\ work' = {} /\ dirty' = FALSE /\ merging' = FALSE
  /\ branches' = {} /\ trees' = {}
  /\ branch' = NoFiles /\ edits' = NoFiles
  /\ rebasing' = {} /\ onto' = NoFiles /\ marked' = {}
  /\ UNCHANGED adopted

(* create_worktree: `git worktree add -b` refuses a branch that exists.    *)
CanCreate(i) == i \notin branches

CreateWorktree(i) ==
  /\ CanCreate(i)
  /\ branches' = branches \cup {i}
  /\ trees' = trees \cup {i}
  /\ adopted' = adopted \cup {i}
  /\ branch' = [branch EXCEPT ![i] = work]
  /\ UNCHANGED <<cloneVars, edits, rebaseVars>>

(* adopt_existing in a fresh manager: `git worktree list --porcelain` has  *)
(* a "branch" line only for a worktree on a branch; one stopped in a       *)
(* rebase is listed as detached, and is passed over.  (What the main clone *)
(* holds uncommitted is not its doing: see InterruptAndResume.)            *)
Adoptable == trees \ rebasing

AdoptExisting ==
  /\ adopted' = Adoptable
  /\ UNCHANGED <<work, merging, branches, trees, devVars>>

(* cleanup: the worktrees the manager knows are removed by force; the      *)
(* branches stay.                                                          *)
Cleanup ==
  /\ trees' = trees \ adopted
  /\ edits' = [i \in Index |-> IF i \in adopted THEN {} ELSE edits[i]]
  /\ rebasing' = rebasing \ adopted
  /\ marked' = marked \ adopted
  /\ UNCHANGED <<cloneVars, branches, adopted, branch, onto>>

-----------------------------------------------------------------------------
(* commit_all *)
CommitAll(i) ==
  /\ branch' = [branch EXCEPT ![i] =
                  @ \cup edits[i]
                    \cup (IF i \in marked THEN {EdgeMarkers} ELSE {})]
  /\ edits' = [edits EXCEPT ![i] = {}]
  /\ UNCHANGED <<cloneVars, treeVars, rebaseVars>>

(* commits_on: whether work_branch..branch lists anything. *)
HasCommits(i) == ~ (branch[i] \subseteq work)

Diverged(i) == ~ (branch[i] \subseteq work) /\ ~ (work \subseteq branch[i])

(* merge_into_work.  The merge goes through; or it stops on a conflict and *)
(* is aborted by a second git command; or git refuses to start it because  *)
(* it would overwrite uncommitted changes in the main clone (the unchecked *)
(* abort then does nothing).  `git checkout` of the work branch, the first *)
(* command, fails when a conflicted merge is still open.                   *)
MergeClean(i) ==
  /\ ~merging
  /\ work' = work \cup branch[i]
  /\ UNCHANGED <<dirty, merging, treeVars, devVars>>

MergeStops(i) ==
  /\ ~merging /\ Diverged(i)
  /\ merging' = TRUE
  /\ UNCHANGED <<work, dirty, treeVars, devVars>>

MergeAborts ==
  /\ merging
  /\ merging' = FALSE
  /\ UNCHANGED <<work, dirty, treeVars, devVars>>

MergeRefused(i) ==
  /\ ~merging /\ dirty /\ HasCommits(i)
  /\ UNCHANGED gitVars

CheckoutFails == merging /\ UNCHANGED gitVars

-----------------------------------------------------------------------------
(* begin_rebase, by what it returns.  An empty tuple: the commits were     *)
(* replayed, or git refused because tracked files are uncommitted, which   *)
(* leaves no unmerged path to list either.  Conflicted paths: the rebase   *)
(* stopped and stays open, or one was open already.                        *)
RebaseReplays(i) ==
  /\ i \notin rebasing
  /\ branch' = [branch EXCEPT ![i] = @ \cup work]
  /\ UNCHANGED <<cloneVars, treeVars, edits, rebaseVars>>

RebaseRefused(i) ==
  /\ i \notin rebasing /\ edits[i] # {}
  /\ UNCHANGED gitVars

RebaseStops(i) ==
  /\ i \notin rebasing /\ Diverged(i)
  /\ rebasing' = rebasing \cup {i}
  /\ marked' = marked \cup {i}
  /\ onto' = [onto EXCEPT ![i] = work]
  /\ UNCHANGED <<cloneVars, treeVars, branch, edits>>

RebaseAlreadyOpen(i) ==
  /\ i \in rebasing
  /\ UNCHANGED gitVars

BeginRebaseEmpty(i)     == RebaseReplays(i) \/ RebaseRefused(i)
BeginRebaseConflicts(i) == RebaseStops(i) \/ RebaseAlreadyOpen(i)

(* continue_rebase.  False, after an abort that resets tracked files, a    *)
(* leftover divider with them (new files may survive it): a line opening   *)
(* or closing a conflict remains, or a later commit of the branch          *)
(* conflicts in its turn.  True: the resolution is committed, with any     *)
(* other marker line left in it; it may have kept the dev's own commits or *)
(* dropped them.                                                           *)
RebaseAbort(i) ==
  /\ rebasing' = rebasing \ {i}
  /\ marked' = marked \ {i}
  /\ \E left \in {{}, edits[i] \ {Divider(i)}} :
       edits' = [edits EXCEPT ![i] = left]
  /\ UNCHANGED <<cloneVars, treeVars, branch, onto>>

SeveralCommits(i) == \E c, d \in branch[i] \ onto[i] : c # d

ContinueGivesUp(i) ==
  /\ i \in marked \/ SeveralCommits(i)
  /\ RebaseAbort(i)

\* A bug for the checks: nothing looks for leftover markers.
ContinueSucceeds_NoMarkerCheck(i) ==
  /\ \E kept \in {{}, branch[i]} :
       branch' = [branch EXCEPT ![i] =
                    onto[i] \cup kept \cup edits[i]
                      \cup (IF i \in marked THEN {EdgeMarkers} ELSE {})]
  /\ edits' = [edits EXCEPT ![i] = {}]
  /\ rebasing' = rebasing \ {i}
  /\ marked' = marked \ {i}
  /\ UNCHANGED <<cloneVars, treeVars, onto>>

ContinueSucceeds(i) ==
  /\ i \notin marked
  /\ \E kept \in {{}, branch[i]} :
       branch' = [branch EXCEPT ![i] = onto[i] \cup kept \cup edits[i]]
  /\ edits' = [edits EXCEPT ![i] = {}]
  /\ rebasing' = rebasing \ {i}
  /\ UNCHANGED <<cloneVars, treeVars, onto, marked>>

-----------------------------------------------------------------------------
(* Not the manager's doing but on the same files: what an agent's turn may *)
(* leave in its worktree -- its change c, or nothing; a conflict it was    *)
(* shown resolved, or not, or all of it but a divider.                     *)
AgentEdits(i, c) ==
  /\ marked' \in {marked, marked \ {i}}
  /\ \E wrote \in SUBSET {c}, left \in SUBSET {Divider(i)} :
       /\ left # {} => i \in marked \ marked' \/ left \subseteq edits[i]
       /\ edits' =
            [edits EXCEPT ![i] = (@ \ {Divider(i)}) \cup wrote \cup left]
  /\ UNCHANGED <<cloneVars, treeVars, branch, rebasing, onto>>

(* tester_final's agent works in the main clone, and _commit_work_branch   *)
(* commits what it left there, with whatever was uncommitted before.       *)
\* A bug for the checks: what it left is not committed.
CommitWorkBranch_Forgotten(wrote) ==
  /\ dirty' = (dirty \/ wrote # {})
  /\ UNCHANGED <<work, merging, treeVars, devVars>>

CommitWorkBranch(wrote) ==
  /\ work' = work \cup wrote
  /\ dirty' = FALSE
  /\ UNCHANGED <<merging, treeVars, devVars>>

(* run_test_command may leave tracked files modified. *)
TestCommandLeaves(isDirty) ==
  /\ dirty' = isDirty
  /\ UNCHANGED <<work, merging, treeVars, devVars>>
=============================================================================
