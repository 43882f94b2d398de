------------------------- MODULE GitContext_proofs -------------------------
(***************************************************************************)
(* Proofs about GitContext, for any set of tasks.                          *)
(*                                                                         *)
(* The argument: git gives a branch to one checkout at a time, an agent    *)
(* commits only in its task's worktree, and a worktree never goes away.    *)
(* So a branch that is HEAD of the base repository has no worktree, hence  *)
(* no work of an agent, and whatever is made or read from HEAD has none.   *)
(***************************************************************************)
EXTENDS GitContext, TLAPS

\* From the step that needs the branch on, the branch exists.
BranchIsThere ==
    \A t \in Task : pc[t] \in {"head", "tree", "add"} => t \in branches

\* One checkout per branch: a worktree has a branch, and not that of HEAD.
OneCheckout == \A t \in Task : Linked(t) => t \in branches /\ base # t

\* Work is where a worktree is, and only the owner's.
WorkNeedsATree ==
    /\ work[Main] = {}
    /\ \A t \in Task : /\ work[t] \subseteq {t}
                       /\ ~Linked(t) => work[t] = {}

\* What was read from HEAD, and what was recorded, has no work.
BaselinesAreBare ==
    \A t \in Task : sha[t] = {} /\ before[t] \in {{}, NoCommit}

\* A directory that the checks have not found is not there.
AbsentBeforeAdd == \A t \in Task : pc[t] = "add" => tree[t] = "absent"

IInv ==
    /\ TypeOK
    /\ BranchIsThere
    /\ OneCheckout
    /\ WorkNeedsATree
    /\ BaselinesAreBare
    /\ AbsentBeforeAdd

LEMMA InitIInv == Init => IInv
<1> SUFFICES ASSUME Init PROVE IInv
  OBVIOUS
<1>1. TypeOK
  <2>1. branches \in SUBSET Branch /\ base \in branches
    BY DEF Init, Branch
  <2>2. work \in [Branch -> SUBSET Task] /\ sha \in [Task -> SUBSET Task]
    BY DEF Init
  <2>3. before \in [Task -> (SUBSET Task) \cup {NoCommit}]
    BY DEF Init
  <2>4. tree \in [Task -> Trees]
    BY DEF Init, Trees
  <2>5. pc \in [Task -> Steps \cup {"backlog", "prepared", "failed"}]
    BY DEF Init
  <2> QED
    BY <2>1, <2>2, <2>3, <2>4, <2>5 DEF TypeOK
<1>2. BranchIsThere /\ OneCheckout /\ AbsentBeforeAdd
  BY DEF Init, BranchIsThere, OneCheckout, Linked, AbsentBeforeAdd
<1>3. WorkNeedsATree /\ BaselinesAreBare
  BY DEF Init, WorkNeedsATree, BaselinesAreBare, Branch
<1> QED
  BY <1>1, <1>2, <1>3 DEF IInv

\* The branch of HEAD holds no work.
LEMMA HeadIsBare == IInv => work[base] = {}
BY DEF IInv, TypeOK, OneCheckout, WorkNeedsATree, Branch

LEMMA StepIInv == IInv /\ [Next]_vars => IInv'
<1> SUFFICES ASSUME IInv, [Next]_vars PROVE IInv'
  OBVIOUS
<1> USE MainAssumption DEF IInv, TypeOK, BranchIsThere, OneCheckout, Linked,
    WorkNeedsATree, BaselinesAreBare, AbsentBeforeAdd, Goto, git
<1>1. ASSUME NEW t \in Task, Begin(t) PROVE IInv'
  BY <1>1 DEF Begin, Steps
<1>2. ASSUME NEW t \in Task, FindBranch(t) PROVE IInv'
  BY <1>2 DEF FindBranch, Steps
<1>3. ASSUME NEW t \in Task, CreateBranch(t) PROVE IInv'
  BY <1>3, HeadIsBare DEF CreateBranch, MakeBranch, Branch, Steps
<1>4. ASSUME NEW t \in Task, CheckoutBranch(t) PROVE IInv'
  BY <1>4 DEF CheckoutBranch, Steps
<1>5. ASSUME NEW t \in Task, ReadHead(t) PROVE IInv'
  BY <1>5, HeadIsBare DEF ReadHead, Steps
<1>6. ASSUME NEW t \in Task, CheckTree(t) PROVE IInv'
  BY <1>6 DEF CheckTree, Prepared, Steps, Trees
<1>7. ASSUME NEW t \in Task, AddTree(t) PROVE IInv'
  BY <1>7 DEF AddTree, Prepared, Steps, Trees
<1>8. ASSUME NEW t \in Task, Again(t) PROVE IInv'
  BY <1>8 DEF Again, Steps
<1>9. ASSUME NEW t \in Task, AgentEdits(t) PROVE IInv'
  BY <1>9 DEF AgentEdits, Trees
<1>10. ASSUME NEW t \in Task, AgentCommits(t) PROVE IInv'
  BY <1>10 DEF AgentCommits, Trees, Branch
<1>11. ASSUME OperatorSwitches PROVE IInv'
  BY <1>11 DEF OperatorSwitches, Branch
<1>12. CASE UNCHANGED vars
  BY <1>12 DEF vars
<1> QED
  BY <1>1, <1>2, <1>3, <1>4, <1>5, <1>6, <1>7, <1>8, <1>9, <1>10, <1>11, <1>12
     DEF Next, PrepareStep

LEMMA AlwaysIInv == Spec => []IInv
BY InitIInv, StepIInv, PTL DEF Spec

\* The repository, the worktrees and the preparations are well typed.
THEOREM GitTypeCorrect == Spec => []TypeOK
<1>1. IInv => TypeOK
  BY DEF IInv
<1> QED
  BY <1>1, AlwaysIInv, PTL

\* No branch holds the work of another task's agent, however the preparations
\* of many tasks interleave (GitContextPreparer.prepare_context).
THEOREM IsolatedBranches == Spec => []BranchesAreIsolated
<1>1. IInv => BranchesAreIsolated
  BY DEF IInv, TypeOK, WorkNeedsATree, BranchesAreIsolated, Branch
<1> QED
  BY <1>1, AlwaysIInv, PTL

\* No recorded commit_sha_before covers a commit of an agent.
THEOREM NoHiddenWork == Spec => []BaselineHidesNoWork
<1>1. IInv => BaselineHidesNoWork
  BY DEF IInv, BaselinesAreBare, BaselineHidesNoWork
<1> QED
  BY <1>1, AlwaysIInv, PTL
============================================================================
