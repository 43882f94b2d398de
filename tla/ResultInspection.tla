-------------------------- MODULE ResultInspection --------------------------
(***************************************************************************)
(* ResultInspector.inspect: what an agent has left in the worktree of its  *)
(* task, as git tells it.  The agent is outside of src/: it edits, moves   *)
(* and removes files, stages and commits.  The inspection reads the        *)
(* worktree when the agent has stopped, so it is a function of the state.  *)
(*                                                                         *)
(* Files are numbered in the order of their names.  A version of the tree  *)
(* maps each file to its content, 0 if it is absent.                       *)
(***************************************************************************)
EXTENDS Naturals, FiniteSets

CONSTANTS
    FileCount,
    Tracked,     \* the files the baseline has
    InScope,     \* those in allowed_paths
    CutInScope,  \* those whose name would be if it had no first letter
    MaxCommits,  \* bounds, for model checking only
    MaxEdits

ASSUME InspectionAssumption ==
    /\ FileCount \in Nat \ {0}
    /\ Tracked \cup InScope \cup CutInScope \subseteq 1..FileCount
    /\ {MaxCommits, MaxEdits} \subseteq Nat

File == 1..FileCount

VARIABLES
    head,    \* the tree of HEAD
    index,
    work,    \* the files in the worktree
    commits, \* how many commits the agent has made
    edits    \* how many changes to files

worktree == <<head, index, work, commits, edits>>

Baseline == [f \in File |-> IF f \in Tracked THEN f ELSE 0]

WorktreeInit ==
    /\ head = Baseline
    /\ index = Baseline
    /\ work = Baseline
    /\ commits = 0
    /\ edits = 0
---------------------------------------------------------------------------
(* What git reports *)

\* d became n: a content that is gone from d is found again in a new file.
Renamed(from, to, d, n) ==
    /\ from[d] # 0 /\ to[d] = 0
    /\ from[n] = 0 /\ to[n] = from[d]

\* git diff --name-only: of a file that was renamed only the new name.
DiffNames(from, to) ==
    {f \in File : /\ from[f] # to[f]
                  /\ \A n \in File : ~Renamed(from, to, f, n)}

Untracked == {f \in File : index[f] = 0 /\ work[f] # 0}

\* The lines of git status --porcelain but for the untracked files; a line
\* for a renamed file stands where its new name belongs.
Unstaged == {f \in File : index[f] # 0 /\ work[f] # index[f]}
Lines == DiffNames(head, index) \cup Unstaged

\* The name before the arrow, for a renamed file.
FirstName(f) ==
    IF \E d \in File : Renamed(head, index, d, f)
    THEN CHOOSE d \in File : Renamed(head, index, d, f)
    ELSE f

\* strip() takes the blank at the beginning of the first line if nothing of
\* its file is staged, and line[3:] then takes a letter of the name.
IsCut(f) ==
    /\ f \in Lines
    /\ \A g \in Lines : f <= g
    /\ f \notin DiffNames(head, index)

StatusNames ==
    {[file |-> FirstName(f), cut |-> IsCut(f)] : f \in Lines}
    \cup {[file |-> f, cut |-> FALSE] : f \in Untracked}
---------------------------------------------------------------------------
(* inspect.  "answered" are the git commands whose answer it gets: one that  *)
(* fails or outlasts its 30 seconds is taken for one that printed nothing,   *)
(* and without commit_sha_before rev-list and diff are not even run.  A      *)
(* read-only task is prepared with commit_sha_before = None.                 *)

Command == {"rev-list", "diff", "status", "status again"}

If(condition, set) == IF condition THEN set ELSE {}

\* Mutant of ChangedFiles: the commits of the agent are not looked at.
ChangedFilesUncommitted(answered) == If("status" \in answered, StatusNames)

\* _get_changed_files
ChangedFiles(answered) ==
    If("diff" \in answered,
       {[file |-> f, cut |-> FALSE] : f \in DiffNames(Baseline, head)})
    \cup If("status" \in answered, StatusNames)

\* git status is run a second time.
HasUncommitted(answered) ==
    "status again" \in answered /\ Lines \cup Untracked # {}

IsPathAllowed(name) == name.file \in IF name.cut THEN CutInScope ELSE InScope

\* Mutant of OutOfScope: one file in scope is enough.
OutOfScopeAltogether(answered) ==
    \A name \in ChangedFiles(answered) : ~IsPathAllowed(name)

\* _check_out_of_scope_changes; without allowed paths everything is allowed.
OutOfScope(answered) ==
    InScope # {} /\ \E name \in ChangedFiles(answered) : ~IsPathAllowed(name)

NewCommits(answered) == "rev-list" \in answered /\ commits > 0

InspectionStatus(mode, answered) ==
    CASE mode = "read_only" ->
           IF ChangedFiles(answered) # {} \/ HasUncommitted(answered)
           THEN "failed" ELSE "passed"
      [] mode = "write" ->
           IF \/ OutOfScope(answered)
              \/ ~NewCommits(answered) /\ ChangedFiles(answered) = {}
           THEN "review" ELSE "passed"
---------------------------------------------------------------------------
(* The agent *)

Change(newWork) ==
    /\ edits < MaxEdits
    /\ edits' = edits + 1
    /\ work' = newWork
    /\ UNCHANGED <<head, index, commits>>

Edit(f) == Change([work EXCEPT ![f] = FileCount + f])
Revert(f) == Change([work EXCEPT ![f] = Baseline[f]])
Remove(f) == Change([work EXCEPT ![f] = 0])

Move(f, g) ==
    /\ work[f] # 0 /\ work[g] = 0
    /\ Change([work EXCEPT ![f] = 0, ![g] = work[f]])

Add(f) ==
    /\ index' = [index EXCEPT ![f] = work[f]]
    /\ UNCHANGED <<head, work, commits, edits>>

AddAll ==
    /\ index' = work
    /\ UNCHANGED <<head, work, commits, edits>>

CommitIndex ==
    /\ index # head
    /\ commits < MaxCommits
    /\ head' = index
    /\ commits' = commits + 1
    /\ UNCHANGED <<index, work, edits>>

WorktreeNext ==
    \/ \E f \in File : Edit(f)
    \/ \E f \in File : Revert(f)
    \/ \E f \in File : Remove(f)
    \/ \E f, g \in File : Move(f, g)
    \/ \E f \in File : Add(f)
    \/ AddAll
    \/ CommitIndex

WorktreeSpec == WorktreeInit /\ [][WorktreeNext]_worktree
---------------------------------------------------------------------------
(* Properties *)

\* "Detect read-only violations": commits that differ from the baseline fail
\* the task if git diff answered, and an index or a worktree that differs from
\* HEAD if git status did once; nothing else fails it, whatever the agent did
\* and undid, and however git words it.
ReadOnlyViolationIsFound ==
    \A answered \in SUBSET Command :
        InspectionStatus("read_only", answered) = "failed"
            <=> \/ "diff" \in answered /\ head # Baseline
                \/ /\ {"status", "status again"} \cap answered # {}
                   /\ index # head \/ work # index

\* A change of a file out of scope that the parser of git status takes for
\* one in scope: moved from there, or in the first line, which lost a letter.
Disguised(f) ==
    \/ \E d \in InScope : Renamed(head, index, d, f)
    \/ IsCut(f) /\ f \in CutInScope

\* "Validate changes against allowed paths": in the worktree of a write task
\* that passes, the commits added or changed nothing out of scope if git diff
\* answered, and nothing out of scope is staged, changed or new if the first
\* git status did, but for disguised changes and files the index has lost.
\* Without allowed paths there is no scope.
PassedChangesAreInScope ==
    InScope # {} =>
        \A answered \in SUBSET Command :
            InspectionStatus("write", answered) = "passed" =>
                \A f \in File \ InScope :
                    /\ "diff" \in answered => head[f] \in {0, Baseline[f]}
                    /\ "status" \in answered /\ ~Disguised(f) =>
                           index[f] \in {0, head[f]} /\ work[f] = index[f]
===========================================================================
