--------------------------- MODULE CommitAdoption ---------------------------
(***************************************************************************)
(* CommitAdopter.adopt: the commit of a task is cherry-picked to the       *)
(* target branch.  A runner is a process that adopts; the runners share    *)
(* the worktree of the target branch and nothing locks it, so the commands *)
(* of two of them interleave.  A git command is one step.                  *)
(*                                                                         *)
(* A version of the branch is the length of its history: nobody rewrites   *)
(* it.  An entry of the history is the commit of a task itself, merged by  *)
(* somebody else, or a copy of it, which a cherry-pick makes.              *)
(***************************************************************************)
EXTENDS Naturals, Sequences, FiniteSets

CONSTANTS
    Commit,      \* the commits of the tasks
    Runner,
    NoCommit,
    MaxPulls,    \* bounds, for model checking only
    MaxCalls,
    MaxFailures

ASSUME AdoptionAssumption ==
    /\ NoCommit \notin Commit
    /\ Runner \cap {"clean", "merging", "left"} = {}
    /\ {MaxPulls, MaxCalls, MaxFailures} \subseteq Nat

VARIABLES
    branch,  \* the history of the target branch in its worktree
    tree,    \* "clean", the runner whose cherry-pick stopped at a conflict,
             \* "left" by one that died, or "merging": a pull that stopped
    pc,      \* where the runner is in adopt
    commit,  \* task_commit_sha
    before,  \* target_head_before; 0 for None
    sha,     \* adopted_commit_sha, as the version it stands for; 0 for None
    result,  \* what the last call of a runner returned
    pulls, calls, failures

call == <<pc, commit, before, sha, result>>
bounds == <<pulls, calls, failures>>
adoptionVars == <<branch, tree, call, bounds>>

Original(c) == [of |-> c, copy |-> FALSE]
Copy(c) == [of |-> c, copy |-> TRUE]
Other == [of |-> NoCommit, copy |-> FALSE]

NoResult == [success |-> FALSE, review |-> FALSE, of |-> NoCommit, head |-> 0, sha |-> 0]

HEAD == Len(branch)
HasChange(c, version) == \E i \in 1..version : branch[i].of = c
HasOriginal(c) == \E i \in DOMAIN branch : branch[i] = Original(c)

AdoptionInit ==
    /\ branch = <<Other>>
    /\ tree = "clean"
    /\ pc = [r \in Runner |-> "idle"]
    /\ commit = [r \in Runner |-> NoCommit]
    /\ before = [r \in Runner |-> 0]
    /\ sha = [r \in Runner |-> 0]
    /\ result = [r \in Runner |-> NoResult]
    /\ pulls = 0
    /\ calls = 0
    /\ failures = 0

Goto(r, next) == pc' = [pc EXCEPT ![r] = next]

Return(r, success, head) ==
    /\ Goto(r, "idle")
    /\ result' = [result EXCEPT ![r] =
          [success |-> success, review |-> ~success, of |-> commit[r],
           head |-> head, sha |-> sha[r]]]
    /\ UNCHANGED <<commit, before, sha>>

Review(r) == Return(r, FALSE, 0)
---------------------------------------------------------------------------
Adopt(r, c) ==
    /\ pc[r] = "idle"
    /\ calls < MaxCalls
    /\ calls' = calls + 1
    /\ Goto(r, "status")
    /\ commit' = [commit EXCEPT ![r] = c]
    /\ before' = [before EXCEPT ![r] = 0]
    /\ sha' = [sha EXCEPT ![r] = 0]
    /\ UNCHANGED <<branch, tree, result, pulls, failures>>

\* Mutant of CheckClean: git status --untracked-files, read for "??" only.
CheckCleanOfUntracked(r) ==
    /\ pc[r] = "status"
    /\ \/ Goto(r, "ancestor") /\ UNCHANGED <<commit, before, sha, result>>
       \/ Review(r)
    /\ UNCHANGED <<branch, tree, bounds>>

\* Step 1: anything in git status ends the call.
CheckClean(r) ==
    /\ pc[r] = "status"
    /\ IF tree = "clean"
       THEN Goto(r, "ancestor") /\ UNCHANGED <<commit, before, sha, result>>
       ELSE Review(r)
    /\ UNCHANGED <<branch, tree, bounds>>

\* Mutant of AlreadyAdopted: the arguments of --is-ancestor are swapped; all
\* tasks start from the first version.
AlreadyAdoptedSwapped(c) == HEAD = 1

\* git merge-base --is-ancestor.  The search in git log for eight digits of
\* the sha finds nothing more: a copy has a sha of its own.
AlreadyAdopted(c) == HasOriginal(c)

\* Step 2.
CheckAdopted(r) ==
    /\ pc[r] = "ancestor"
    /\ IF AlreadyAdopted(commit[r])
       THEN /\ Goto(r, "adopted")
            /\ sha' = [sha EXCEPT ![r] = HEAD]
       ELSE /\ Goto(r, "checkout")
            /\ UNCHANGED sha
    /\ UNCHANGED <<branch, tree, commit, before, result, bounds>>

ReturnAdopted(r) ==
    /\ pc[r] = "adopted"
    /\ Return(r, TRUE, HEAD)
    /\ UNCHANGED <<branch, tree, bounds>>

\* Step 3: the checkout fails.
CheckoutFails(r) ==
    /\ pc[r] = "checkout"
    /\ Review(r)
    /\ UNCHANGED <<branch, tree, bounds>>

\* Step 3: the pull may bring commits, among them the commit itself, may stop
\* in a merge conflict, or may fail: its exit code is not looked at.
Checkout(r) ==
    /\ pc[r] = "checkout"
    /\ Goto(r, "head")
    /\ \/ UNCHANGED <<branch, tree, pulls>>
       \/ /\ pulls < MaxPulls
          /\ tree = "clean"
          /\ pulls' = pulls + 1
          /\ \/ tree' = "merging" /\ UNCHANGED branch
             \/ /\ \E e \in {Other} \cup {Original(c) : c \in Commit} :
                      /\ e = Other \/ ~HasOriginal(e.of)
                      /\ branch' = Append(branch, e)
                /\ UNCHANGED tree
    /\ UNCHANGED <<commit, before, sha, result, calls, failures>>

\* Step 4.
ReadHead(r) ==
    /\ pc[r] = "head"
    /\ before' = [before EXCEPT ![r] = HEAD]
    /\ Goto(r, "pick")
    /\ UNCHANGED <<branch, tree, commit, sha, result, bounds>>
---------------------------------------------------------------------------
\* Step 5: the change is copied, once more if it was but has been reverted or
\* overwritten since: what the files hold decides, and is left out.
CherryPick(r) ==
    /\ pc[r] = "pick"
    /\ tree = "clean"
    /\ branch' = Append(branch, Copy(commit[r]))
    /\ Goto(r, "picked")
    /\ UNCHANGED <<tree, commit, before, sha, result, bounds>>

\* A conflict, or a copy that would be empty, stops the cherry-pick in the
\* middle; an unclean worktree, or another git command at the same time,
\* refuses it.  Every exit code but 0 counts as a conflict.
CherryPickFails(r) ==
    /\ pc[r] = "pick"
    /\ \/ tree = "clean" /\ tree' = r
       \/ UNCHANGED tree
    /\ Goto(r, "abort")
    /\ UNCHANGED <<branch, commit, before, sha, result, bounds>>

\* git cherry-pick --abort ends whatever cherry-pick there is.  It fails if
\* there is none, or if another git command holds the lock of the index; its
\* exit code is not looked at.
Abort(r) ==
    /\ pc[r] = "abort"
    /\ \/ tree \in Runner \cup {"left"} /\ tree' = "clean"
       \/ UNCHANGED tree
    /\ Review(r)
    /\ UNCHANGED <<branch, bounds>>

\* Step 6.
ReadAdopted(r) ==
    /\ pc[r] = "picked"
    /\ sha' = [sha EXCEPT ![r] = HEAD]
    /\ Goto(r, "validate")
    /\ UNCHANGED <<branch, tree, commit, before, result, bounds>>

\* Step 7: the commit stays when a validation command fails.
Validate(r) ==
    /\ pc[r] = "validate"
    /\ \/ Goto(r, "verify") /\ UNCHANGED <<commit, before, sha, result>>
       \/ Review(r)
    /\ UNCHANGED <<branch, tree, bounds>>

\* Step 8: the branch has moved since step 4.
Verify(r) ==
    /\ pc[r] = "verify"
    /\ IF HEAD # before[r] THEN Return(r, TRUE, HEAD) ELSE Review(r)
    /\ UNCHANGED <<branch, tree, bounds>>

\* The process dies; or the cherry-pick or its abort outlasts the timeout of
\* 60 s, and the exception leaves adopt.
Crash(r) ==
    /\ pc[r] # "idle"
    /\ failures < MaxFailures
    /\ failures' = failures + 1
    /\ \/ tree' = IF tree = r THEN "left" ELSE tree
       \/ pc[r] = "pick" /\ tree = "clean" /\ tree' = "left"
    /\ Goto(r, "idle")
    /\ UNCHANGED <<branch, commit, before, sha, result, pulls, calls>>

\* A command that only reads outlasts it: the exception is caught, for None or
\* for the answer no.
TimesOut(r) ==
    /\ failures < MaxFailures
    /\ failures' = failures + 1
    /\ \/ pc[r] \in {"status", "verify"} /\ Review(r)
       \/ pc[r] = "adopted" /\ Return(r, TRUE, 0)
       \/ /\ \/ pc[r] = "ancestor" /\ Goto(r, "checkout")
             \/ pc[r] = "head" /\ Goto(r, "pick")
             \/ pc[r] = "picked" /\ Goto(r, "validate")
          /\ UNCHANGED <<commit, before, sha, result>>
    /\ UNCHANGED <<branch, tree, pulls, calls>>

\* Somebody who reviews resolves what is left in the worktree.
Resolve ==
    /\ \/ tree \in {"merging", "left"}
       \/ tree \in Runner /\ pc[tree] # "abort"
    /\ tree' = "clean"
    /\ UNCHANGED <<branch, call, bounds>>

Step(r) ==
    \/ CheckClean(r)
    \/ CheckAdopted(r)
    \/ ReturnAdopted(r)
    \/ CheckoutFails(r)
    \/ Checkout(r)
    \/ ReadHead(r)
    \/ CherryPick(r)
    \/ CherryPickFails(r)
    \/ Abort(r)
    \/ ReadAdopted(r)
    \/ Validate(r)
    \/ Verify(r)

AdoptionNext ==
    \/ \E r \in Runner : \E c \in Commit : Adopt(r, c)
    \/ \E r \in Runner : Step(r)
    \/ \E r \in Runner : Crash(r) \/ TimesOut(r)
    \/ Resolve

AdoptionSpec == AdoptionInit /\ [][AdoptionNext]_adoptionVars
---------------------------------------------------------------------------
(* Properties *)

\* success = True: the commit or a copy is in the history of the branch, and of
\* the two versions the result names unless their commands failed, whatever
\* other runners and the remote added to the branch between the steps.
SuccessIsInBranch ==
    \A r \in Runner : LET x == result[r] IN
        x.success => \A version \in {HEAD} \cup ({x.sha, x.head} \ {0}) :
                        version <= HEAD /\ HasChange(x.of, version)

\* "Abort cherry-pick to leave clean state": a cherry-pick that stopped is about
\* to be aborted; or, if the abort was refused, its runner has reported it for
\* review and its later calls get no further than the look at the worktree,
\* although runners abort each other's picks.
StoppedPicksAreReported ==
    tree \in Runner =>
        \/ pc[tree] = "abort"
        \/ pc[tree] \in {"idle", "status"} /\ result[tree].review
===========================================================================
