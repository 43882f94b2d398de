------------------------- MODULE TaskIntake_proofs -------------------------
(***************************************************************************)
(* The safety of the intake, for any clients, keys and number of failures. *)
(* Two facts strengthen them.  What an open transaction has inserted is    *)
(* neither in the table nor in another open transaction; and the number a  *)
(* request has drawn is its own, so that a refused INSERT is refused for   *)
(* its key.                                                                *)
(***************************************************************************)
EXTENDS TaskIntake, TLAPS

\* Every INSERT that went through is still admissible at its commit.
InsertedIsFree ==
    \A c \in Client : pc[c] = "inserted" => ~Taken(c) /\ ~Contested(c)

\* A request that inserts has a number of its own, new to the table.
NumberIsDrawn ==
    \A c \in Client : pc[c] \in {"insert", "inserted"} =>
        /\ number[c] \in 1..last
        /\ \A t \in tasks : t.number # number[c]
        /\ \A d \in Client \ {c} :
              pc[d] \in {"insert", "inserted"} => number[d] # number[c]

IntakeInv ==
    /\ TypeOK
    /\ NumberIsDrawn
    /\ InsertedIsFree
    /\ OneTaskPerKey
    /\ RequirementsHaveTasks
    /\ ConflictMeansDone
    /\ AcceptedIsStored

LEMMA InitInv == Init => IntakeInv
BY IntakeAssumption
   DEF Init, IntakeInv, TypeOK, NumberIsDrawn, InsertedIsFree, OneTaskPerKey,
       RequirementsHaveTasks, ConflictMeansDone, AcceptedIsStored

\* Steps that end a request or leave the tables and the open transactions alone.
LEMMA AnswerKeepsInv ==
    ASSUME NEW c \in Client, NEW code \in {"201", "409", "500", "lost"},
           IntakeInv, Answer(c, code),
           code = "409" => \E t \in tasks : t.key = Key[c],
           code = "201" => pc[c] = "committed",
           UNCHANGED <<tasks, requirements, last>>,
           faults' \in 0..MaxFaults
    PROVE  IntakeInv'
<1> USE DEF IntakeInv
<1>1. TypeOK'
  BY DEF TypeOK, Answer, Goto
<1>2. NumberIsDrawn'
  BY DEF TypeOK, Answer, Goto, NumberIsDrawn
<1>3. InsertedIsFree'
  BY DEF TypeOK, Answer, Goto, InsertedIsFree, Taken, Contested, Keyed, Numbers
<1>4. OneTaskPerKey' /\ RequirementsHaveTasks'
  BY DEF OneTaskPerKey, RequirementsHaveTasks
<1>5. ConflictMeansDone'
  BY DEF TypeOK, Answer, Goto, ConflictMeansDone
<1>6. AcceptedIsStored'
  BY DEF TypeOK, Answer, Goto, AcceptedIsStored, Keyed
<1> QED
  BY <1>1, <1>2, <1>3, <1>4, <1>5, <1>6

\* Steps within a request, up to the INSERT of the task.
LEMMA WorkKeepsInv ==
    ASSUME NEW c \in Client, NEW next \in {"requirement", "task", "insert"},
           IntakeInv, pc[c] # "inserted", Goto(c, next),
           UNCHANGED <<tasks, requirements, answer, faults>>,
           \/ UNCHANGED <<number, last>> /\ next # "insert"
           \/ last' = last + 1 /\ number' = [number EXCEPT ![c] = last + 1]
    PROVE  IntakeInv'
<1> USE DEF IntakeInv
<1>1. TypeOK'
  BY DEF TypeOK, Goto
<1>2. NumberIsDrawn'
  BY DEF TypeOK, Goto, NumberIsDrawn
<1>3. InsertedIsFree'
  BY DEF TypeOK, Goto, InsertedIsFree, Taken, Contested, Keyed, Numbers
<1>4. OneTaskPerKey' /\ RequirementsHaveTasks' /\ ConflictMeansDone'
  BY DEF OneTaskPerKey, RequirementsHaveTasks, ConflictMeansDone
<1>5. AcceptedIsStored'
  BY DEF TypeOK, Goto, AcceptedIsStored, Keyed
<1> QED
  BY <1>1, <1>2, <1>3, <1>4, <1>5

LEMMA InsertKeepsInv ==
    ASSUME NEW c \in Client, IntakeInv, InsertTask(c)
    PROVE  IntakeInv'
<1> USE DEF IntakeInv, InsertTask, Goto
<1>1. TypeOK' /\ NumberIsDrawn'
  BY DEF TypeOK, NumberIsDrawn
<1>2. InsertedIsFree'
  BY DEF TypeOK, InsertedIsFree, Taken, Contested, Keyed, Numbers
<1>3. OneTaskPerKey' /\ RequirementsHaveTasks' /\ ConflictMeansDone'
  BY DEF OneTaskPerKey, RequirementsHaveTasks, ConflictMeansDone
<1>4. AcceptedIsStored'
  BY DEF TypeOK, AcceptedIsStored, Keyed
<1> QED
  BY <1>1, <1>2, <1>3, <1>4

\* The one step that writes: its key and its number are new to the table, and
\* no other open transaction has them.
LEMMA CommitKeepsInv ==
    ASSUME NEW c \in Client, IntakeInv, Commit(c)
    PROVE  IntakeInv'
<1> DEFINE row == [number |-> number[c], key |-> Key[c], linked |-> c \in Requirement]
<1> USE DEF IntakeInv, Commit, Goto
<1>0. /\ number[c] \in 1..last
      /\ ~Taken(c) /\ ~Contested(c)
  BY DEF NumberIsDrawn, InsertedIsFree
<1>1. TypeOK'
  <2>1. (c \in Requirement) \in BOOLEAN
    OBVIOUS
  <2>2. row \in [number : 1..last, key : {Key[d] : d \in Client}, linked : BOOLEAN]
    BY <1>0, <2>1
  <2> QED
    BY <1>0, <2>2 DEF TypeOK
<1>2. NumberIsDrawn'
  BY DEF TypeOK, NumberIsDrawn
<1>3. InsertedIsFree'
  <2> SUFFICES ASSUME NEW d \in Client, pc'[d] = "inserted"
               PROVE  ~Taken(d)' /\ ~Contested(d)'
    BY DEF InsertedIsFree
  <2>1. d # c /\ pc[d] = "inserted"
    BY DEF TypeOK
  <2>2. ~Taken(d) /\ ~Contested(d)
    BY <2>1 DEF InsertedIsFree
  <2>3. number[c] # number[d] /\ ~(Keyed(d) /\ Key[c] = Key[d])
    BY <2>1, <2>2 DEF Contested
  <2>4. ~Taken(d)'
    BY <2>2, <2>3 DEF Taken, Keyed, Numbers
  <2>5. ~Contested(d)'
    BY <2>2 DEF Contested, Keyed, TypeOK
  <2> QED
    BY <2>4, <2>5
<1>4. OneTaskPerKey'
  BY <1>0 DEF OneTaskPerKey, Taken, Keyed
<1>5. RequirementsHaveTasks'
  <2> HIDE DEF row
  <2>1. tasks' = tasks \cup {row} /\ row.number = number[c]
        /\ (row.linked <=> c \in Requirement)
    BY DEF row
  <2>2. requirements' = {t.number : t \in {u \in tasks' : u.linked}}
    BY <2>1 DEF RequirementsHaveTasks
  <2> QED
    BY <2>2 DEF RequirementsHaveTasks
<1>6. ConflictMeansDone'
  BY DEF ConflictMeansDone
<1>7. AcceptedIsStored'
  <2>1. row \in tasks' /\ row.key = Key[c] /\ (c \in Requirement => row.linked)
    OBVIOUS
  <2>2. ASSUME NEW d \in Client, d # c, pc'[d] = "committed" \/ answer'[d] = "201"
        PROVE  pc[d] = "committed" \/ answer[d] = "201"
    BY <2>2 DEF TypeOK
  <2> HIDE DEF row
  <2> QED
    BY <2>1, <2>2 DEF AcceptedIsStored, Keyed
<1> QED
  BY <1>1, <1>2, <1>3, <1>4, <1>5, <1>6, <1>7

LEMMA NextKeepsInv == IntakeInv /\ [Next]_intakeVars => IntakeInv'
<1> SUFFICES ASSUME IntakeInv, [Next]_intakeVars
             PROVE  IntakeInv'
    OBVIOUS
<1> USE IntakeAssumption
<1>1. CASE UNCHANGED intakeVars
  BY <1>1 DEF intakeVars, session, IntakeInv, TypeOK, NumberIsDrawn, InsertedIsFree,
              Taken, Contested, Keyed, Numbers, OneTaskPerKey,
              RequirementsHaveTasks, ConflictMeansDone, AcceptedIsStored
<1>2. ASSUME NEW c \in Client, Post(c)
      PROVE  IntakeInv'
  <2>1. PICK next \in {"requirement", "task"} : Goto(c, next)
    BY <1>2 DEF Post
  <2> QED
    BY <1>2, <2>1, WorkKeepsInv DEF Post
<1>3. ASSUME NEW c \in Client, FlushRequirement(c)
      PROVE  IntakeInv'
  BY <1>3, WorkKeepsInv DEF FlushRequirement
<1>4. ASSUME NEW c \in Client, DrawNumber(c)
      PROVE  IntakeInv'
  BY <1>4, WorkKeepsInv DEF DrawNumber, NextNumber
<1>5. ASSUME NEW c \in Client, InsertTask(c)
      PROVE  IntakeInv'
  BY <1>5, InsertKeepsInv
<1>6. ASSUME NEW c \in Client, RejectDuplicate(c)
      PROVE  IntakeInv'
  <2>1. faults' \in 0..MaxFaults
    BY <1>6 DEF RejectDuplicate, IntakeInv, TypeOK
  <2>2. Keyed(c) /\ \E t \in tasks : t.key = Key[c]
    BY <1>6 DEF RejectDuplicate, IntakeInv, NumberIsDrawn, Taken, Numbers
  <2> QED
    BY <1>6, <2>1, <2>2, AnswerKeepsInv DEF RejectDuplicate
<1>7. ASSUME NEW c \in Client, Commit(c)
      PROVE  IntakeInv'
  BY <1>7, CommitKeepsInv
<1>8. ASSUME NEW c \in Client, Accept(c)
      PROVE  IntakeInv'
  BY <1>8, AnswerKeepsInv DEF Accept, IntakeInv, TypeOK
<1>9. ASSUME NEW c \in Client, Fault(c)
      PROVE  IntakeInv'
  <2>1. faults' \in 0..MaxFaults
    BY <1>9 DEF Fault, IntakeInv, TypeOK
  <2> QED
    BY <1>9, <2>1, AnswerKeepsInv DEF Fault
<1> QED
  BY <1>1, <1>2, <1>3, <1>4, <1>5, <1>6, <1>7, <1>8, <1>9 DEF Next, Step

\* The variables of the intake keep their types, whatever fails and whenever.
THEOREM IntakeTypeCorrect == Spec => []TypeOK
BY InitInv, NextKeepsInv, PTL DEF Spec, IntakeInv

\* Requests with one idempotency key, overlapping, failing or sent again, leave
\* at most one task.
THEOREM TaskPerKey == Spec => []OneTaskPerKey
BY InitInv, NextKeepsInv, PTL DEF Spec, IntakeInv

\* A requirement and its planning task are stored together or not at all.
THEOREM RequirementsAreLinked == Spec => []RequirementsHaveTasks
BY InitInv, NextKeepsInv, PTL DEF Spec, IntakeInv

\* With numbers from a sequence, 409 always stands for a task with the key.
THEOREM ConflictsAreDuplicates == Spec => []ConflictMeansDone
BY InitInv, NextKeepsInv, PTL DEF Spec, IntakeInv

\* A client that was told 201 has its task in the table, and linked to its
\* requirement if it sent one without a key, whatever fails between the commit
\* and the answer.
THEOREM AcceptedTasksAreStored == Spec => []AcceptedIsStored
BY InitInv, NextKeepsInv, PTL DEF Spec, IntakeInv
===========================================================================
