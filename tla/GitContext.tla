---------------------------- MODULE GitContext ----------------------------
(***************************************************************************)
(* GitContextPreparer.prepare_context for many write tasks at once, on one *)
(* base repository that nothing locks: every git command is a step of its  *)
(* own, may be killed after its timeout, and may meet what the others did. *)
(*                                                                         *)
(* What git does is external and modelled as far as the code depends on    *)
(* it.  A task stands for its own branch and its own worktree.  A branch   *)
(* is known by the tasks whose agents' commits its history contains.       *)
(* One worker at a time prepares a task (GrantsAreExclusive).              *)
(***************************************************************************)
CONSTANTS
    Task,
    Main      \* the branch the base repository starts on

ASSUME MainAssumption == Main \notin Task

VARIABLES
    base,      \* the branch that is HEAD of the base repository
    branches,  \* the branches that exist
    work,      \* the agents whose commits a branch contains
    tree,      \* the directory at worktree_path
    pc,        \* how far the preparation of a task is
    sha,       \* what the commit that was read contains
    before     \* commit_sha_before of the row: what that commit contains

git == <<base, branches, work>>
vars == <<git, tree, pc, sha, before>>

Branch == Task \cup {Main}

\* A broken directory is one that git does not know as a worktree.
Trees == {"absent", "broken", "clean", "dirty"}
Linked(t) == tree[t] \in {"clean", "dirty"}

Steps == {"find", "create", "checkout", "head", "tree", "add"}
NoCommit == Branch

Init ==
    /\ base = Main
    /\ branches = {Main}
    /\ work = [b \in Branch |-> {}]
    /\ tree = [t \in Task |-> "absent"]
    /\ pc = [t \in Task |-> "backlog"]
    /\ sha = [t \in Task |-> {}]
    /\ before = [t \in Task |-> NoCommit]

Goto(t, step) == pc' = [pc EXCEPT ![t] = step]

\* The task is locked and its preparation begins.
Begin(t) ==
    /\ pc[t] = "backlog"
    /\ Goto(t, "find")
    /\ UNCHANGED <<git, tree, sha, before>>

\* _branch_exists: a command that timed out counts as no.
FindBranch(t) ==
    /\ pc[t] = "find"
    /\ \/ t \in branches /\ Goto(t, "head")
       \/ Goto(t, "create")
    /\ UNCHANGED <<git, tree, sha, before>>

\* git checkout -b: the branch starts at HEAD and becomes HEAD.
MakeBranch(t) ==
    /\ t \notin branches
    /\ branches' = branches \cup {t}
    /\ work' = [work EXCEPT ![t] = work[base]]
    /\ base' = t

\* Creating the branch.  After an error, or a timeout with or without effect,
\* the branch is checked out instead.
CreateBranch(t) ==
    /\ pc[t] = "create"
    /\ \/ MakeBranch(t) /\ (Goto(t, "head") \/ Goto(t, "checkout"))
       \/ UNCHANGED git /\ Goto(t, "checkout")
    /\ UNCHANGED <<tree, sha, before>>

\* git checkout succeeds at most if no worktree has the branch; if it does
\* not, or is killed, there is a CONFLICT and the task returns to backlog.
CheckoutBranch(t) ==
    /\ pc[t] = "checkout"
    /\ \/ /\ t \in branches /\ ~Linked(t)
          /\ base' = t
          /\ Goto(t, "head") \/ Goto(t, "backlog")
       \/ UNCHANGED base /\ Goto(t, "backlog")
    /\ UNCHANGED <<branches, work, tree, sha, before>>

\* Mutant of ReadHead: an existing worktree is asked for its HEAD.
ReadHeadOfTheTree(t) ==
    /\ pc[t] = "head"
    /\ \/ /\ sha' = [sha EXCEPT ![t] = work[IF Linked(t) THEN t ELSE base]]
          /\ Goto(t, "tree")
       \/ UNCHANGED sha /\ (Goto(t, "backlog") \/ Goto(t, "failed"))
    /\ UNCHANGED <<git, tree, before>>

\* rev-parse HEAD in the base repository, whatever branch it is on by now.  A
\* timeout is RECOVERABLE, an error of git is NON_RECOVERABLE.
ReadHead(t) ==
    /\ pc[t] = "head"
    /\ \/ /\ sha' = [sha EXCEPT ![t] = work[base]]
          /\ Goto(t, "tree")
       \/ UNCHANGED sha /\ (Goto(t, "backlog") \/ Goto(t, "failed"))
    /\ UNCHANGED <<git, tree, before>>

\* prepare_context returns and the context is valid: the row is committed.
Prepared(t) ==
    /\ Goto(t, "prepared")
    /\ before' = [before EXCEPT ![t] = sha[t]]

\* An existing directory is used if git status prints nothing, which is also
\* what it does where there is no worktree.  Dirty, or a timeout: CONFLICT.
CheckTree(t) ==
    /\ pc[t] = "tree"
    /\ \/ tree[t] = "absent" /\ Goto(t, "add") /\ UNCHANGED before
       \/ tree[t] \in {"clean", "broken"} /\ Prepared(t)
       \/ tree[t] # "absent" /\ Goto(t, "backlog") /\ UNCHANGED before
    /\ UNCHANGED <<git, tree, sha>>

\* Mutant of AddTree: the worktree is added with --force, so that git gives a
\* branch out twice.
AddTreeForced(t) ==
    /\ pc[t] = "add"
    /\ \/ /\ tree' = [tree EXCEPT ![t] = "clean"]
          /\ Prepared(t)
       \/ \E left \in Trees \ {"clean"} :
            /\ tree' = [tree EXCEPT ![t] = left]
            /\ IF left = "absent" THEN Goto(t, "backlog") /\ UNCHANGED before
                                  ELSE Prepared(t)
    /\ UNCHANGED <<git, sha>>

\* git worktree add.  It refuses a branch that is HEAD of the base repository,
\* and may fail for another reason; without a directory that is
\* NON_RECOVERABLE.  A command that is killed may leave one, and a directory
\* that is there after an error is used.
AddTree(t) ==
    /\ pc[t] = "add"
    /\ \/ /\ base # t
          /\ tree' = [tree EXCEPT ![t] = "clean"]
          /\ Prepared(t)
       \/ Goto(t, "failed") /\ UNCHANGED <<tree, before>>
       \/ \E left \in Trees \ {"clean"} :
            /\ base = t => left = "absent"
            /\ tree' = [tree EXCEPT ![t] = left]
            /\ IF left = "absent" THEN Goto(t, "backlog") /\ UNCHANGED before
                                  ELSE Prepared(t)
    /\ UNCHANGED <<git, sha>>

\* The process dies, or the cycle ends on an exception: the recovery returns
\* the task to backlog, as it may do with a task a runner has claimed.  After
\* the last attempt, or for a recorded error that is NON_RECOVERABLE, the task
\* is failed, whatever its worktree holds.
Again(t) ==
    /\ pc[t] \in Steps \cup {"prepared"}
    /\ Goto(t, "backlog") \/ Goto(t, "failed")
    /\ UNCHANGED <<git, tree, sha, before>>
---------------------------------------------------------------------------
(* The others at work on the repository *)

\* The agent of a task edits and commits in the task's worktree, from the
\* first time the task was prepared, also while it is prepared once more.
AgentEdits(t) ==
    /\ before[t] # NoCommit /\ Linked(t)
    /\ tree' = [tree EXCEPT ![t] = "dirty"]
    /\ UNCHANGED <<git, pc, sha, before>>

AgentCommits(t) ==
    /\ before[t] # NoCommit /\ tree[t] = "dirty"
    /\ tree' = [tree EXCEPT ![t] = "clean"]
    /\ work' = [work EXCEPT ![t] = @ \cup {t}]
    /\ UNCHANGED <<base, branches, pc, sha, before>>

\* Somebody puts the base repository on another branch, where git lets him.
\* Nothing in src/ does: a base repository stays on the last new branch.
OperatorSwitches ==
    /\ \E b \in branches : (b \in Task => ~Linked(b)) /\ base' = b
    /\ UNCHANGED <<branches, work, tree, pc, sha, before>>
---------------------------------------------------------------------------
PrepareStep(t) ==
    \/ Begin(t)
    \/ FindBranch(t)
    \/ CreateBranch(t)
    \/ CheckoutBranch(t)
    \/ ReadHead(t)
    \/ CheckTree(t)
    \/ AddTree(t)
    \/ Again(t)

Next ==
    \/ \E t \in Task : PrepareStep(t) \/ AgentEdits(t) \/ AgentCommits(t)
    \/ OperatorSwitches

Spec == Init /\ [][Next]_vars
---------------------------------------------------------------------------
(* Properties *)

\* The variables have their types.
TypeOK ==
    /\ branches \in SUBSET Branch
    /\ base \in branches
    /\ work \in [Branch -> SUBSET Task]
    /\ tree \in [Task -> Trees]
    /\ pc \in [Task -> Steps \cup {"backlog", "prepared", "failed"}]
    /\ sha \in [Task -> SUBSET Task]
    /\ before \in [Task -> (SUBSET Task) \cup {NoCommit}]

\* A branch holds no work of another task's agent, although every branch is
\* made from whatever HEAD the base repository has at that moment, and the
\* preparations of other tasks move HEAD between any two commands.
BranchesAreIsolated == \A b \in branches : work[b] \subseteq {b} \cap Task

\* commit_sha_before never covers a commit of an agent, so that the
\* inspection and the adoption, which look at what came after it, see all of
\* it: also when a task is prepared again after its agent has committed.
BaselineHidesNoWork ==
    \A t \in Task : before[t] # NoCommit => before[t] = {}
===========================================================================
