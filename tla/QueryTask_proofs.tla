--------------------------- MODULE QueryTask_proofs ---------------------------
(***************************************************************************)
(* For any number of approvers, cancels, statements, edits, approvals,     *)
(* crashes and failed transactions: what a run sends is the revision its   *)
(* approver read, each statement of it at most once and in order; a cancel *)
(* that is acknowledged follows the query; and a task that has settled     *)
(* explains itself by its statements and is announced as it ended.         *)
(***************************************************************************)
EXTENDS QueryTask, FiniteSetTheorems, WellFoundedInduction, TLAPS

\* The run variable keeps the shape the steps below read and update.
RunShape ==
  /\ run = [pc |-> run.pc, at |-> run.at, of |-> run.of, pick |-> run.pick]
  /\ run.pc \in RunPc /\ run.at \in Nat

\* A run that has been claimed and has not ended.
Engaged == run.pc \notin {"off", "claim", "over"}

\* The approval in force, and the one a run was claimed under, is of the revision now in the rows;
\* an engaged run keeps every edit and every decision out, because the row has left both statuses.
Approved ==
  /\ status = "APPROVED" => revision = endorsed
  /\ Engaged => revision = endorsed /\ status \notin {"PENDING", "APPROVED"}

\* The statements from n on have not left the control plane.
UnsentFrom(n) == \A i \in Ordinal : i >= n => sentCount[i] = 0

\* Nothing of a revision that never ran was sent, and a run is ahead of what it has sent.
Ahead ==
  /\ sentCount \in [Ordinal -> 0..1]
  /\ status \in {"PENDING", "APPROVED"} => UnsentFrom(1)
  /\ run.pc \in {"open", "start", "flip", "gate", "send"} => UnsentFrom(run.at)
  /\ run.pc \in {"wait", "save", "commit"} => UnsentFrom(run.at + 1)

IInv == RunShape /\ Approved /\ Ahead

LEMMA InitIInv == Init => IInv
<1> SUFFICES ASSUME Init PROVE IInv
  OBVIOUS
<1>1. RunShape
  BY DEF Init, RunShape, RunPc
<1>2. Approved
  BY DEF Init, Approved, Engaged
<1>3. Ahead
  BY DEF Init, Ahead, UnsentFrom
<1> QED BY <1>1, <1>2, <1>3 DEF IInv

\* A step that leaves the run, the approval and the sends alone, or moves the task between states
\* in which no run can start from what it holds.
LEMMA QuietIInv ==
  ASSUME IInv, UNCHANGED <<run, revision, endorsed, sentCount>>,
         status' = status \/ status' \notin {"PENDING", "APPROVED"}
                 \/ (status = "APPROVED" /\ status' = "PENDING")
  PROVE  IInv'
<1>1. RunShape'
  BY DEF IInv, RunShape
<1>2. Approved'
  BY DEF IInv, Approved, Engaged
<1>3. Ahead'
  BY DEF IInv, Ahead, UnsentFrom
<1> QED BY <1>1, <1>2, <1>3 DEF IInv

\* The run leaves the stream, or moves on without sending anything.
LEMMA LeaveIInv ==
  ASSUME IInv, Engaged, NEW pc \in {"fail", "publish", "failCommit", "over"}, NEW p,
         run' = [run EXCEPT !.pc = pc, !.pick = p],
         UNCHANGED <<revision, endorsed, sentCount>>,
         status' = status \/ status' \notin {"PENDING", "APPROVED"}
  PROVE  IInv'
<1>1. run' = [pc |-> pc, at |-> run.at, of |-> run.of, pick |-> p]
  BY ZenonT(60) DEF IInv, RunShape
<1>2. RunShape'
  BY ZenonT(60), <1>1 DEF IInv, RunShape, RunPc
<1>3. Approved'
  BY <1>1 DEF IInv, Approved, Engaged
<1>4. Ahead'
  BY <1>1 DEF IInv, Ahead, UnsentFrom, Approved
<1> QED BY <1>2, <1>3, <1>4 DEF IInv

\* The run moves on towards the send of the same statement, or past it.
LEMMA MoveIInv ==
  ASSUME IInv, Engaged, NEW pc \in RunPc, NEW p,
         run' = [run EXCEPT !.pc = pc, !.pick = p],
         UNCHANGED <<status, revision, endorsed, sentCount>>,
         \/ run.pc \in {"open", "start", "flip", "gate"} /\ pc \in {"flip", "gate", "send"}
         \/ run.pc \in {"wait", "save"} /\ pc \in {"save", "commit"}
  PROVE  IInv'
<1>1. run' = [pc |-> pc, at |-> run.at, of |-> run.of, pick |-> p]
  BY ZenonT(60) DEF IInv, RunShape
<1>2. RunShape'
  BY ZenonT(60), <1>1 DEF IInv, RunShape
<1>3. Approved'
  BY <1>1 DEF IInv, Approved, Engaged
<1>4. Ahead'
  BY <1>1 DEF IInv, Ahead, UnsentFrom
<1> QED BY <1>2, <1>3, <1>4 DEF IInv

\* Every step preserves the invariant.
LEMMA StepIInv == IInv /\ [Next]_vars => IInv'
<1> SUFFICES ASSUME IInv, [Next]_vars PROVE IInv'
  OBVIOUS
<1>1. ASSUME NEW a \in Approver, View(a) PROVE IInv'
  BY <1>1, QuietIInv DEF View, row, control
<1>2. ASSUME NEW a \in Approver, Approve(a) PROVE IInv'
  <2>1. RunShape' /\ ~Engaged /\ ~Engaged'
    BY <1>2 DEF Approve, IInv, RunShape, control, Approved, Engaged
  <2>2. Approved'
    BY <1>2, <2>1 DEF Approve, Approved
  <2>3. Ahead'
    BY <1>2 DEF Approve, IInv, Ahead, UnsentFrom, control
  <2> QED BY <2>1, <2>2, <2>3 DEF IInv
<1>3. ASSUME NEW s \in {"REJECTED", "CANCELLED"}, Refuse(s) PROVE IInv'
  BY <1>3, QuietIInv DEF Refuse, people, control
<1>4. CASE Unapprove
  BY <1>4, QuietIInv DEF Unapprove, Reopened, people, control
<1>5. ASSUME NEW n \in Ordinal, Edit(n) PROVE IInv'
  <2>1. RunShape' /\ ~Engaged /\ ~Engaged'
    BY <1>5 DEF Edit, IInv, RunShape, control, Approved, Engaged
  <2>2. Approved'
    BY <1>5, <2>1 DEF Edit, Approved
  <2>3. sentCount' \in [Ordinal -> 0..1] /\ \A i \in Ordinal : sentCount'[i] = 0
    BY <1>5 DEF Edit
  <2>4. Ahead'
    BY <2>3 DEF Ahead, UnsentFrom
  <2> QED BY <2>1, <2>2, <2>4 DEF IInv
<1>6. CASE Age
  BY <1>6, QuietIInv DEF Age, people, control
<1>7. CASE ExpireSelect
  BY <1>7, QuietIInv DEF ExpireSelect, row, control
<1>8. CASE ExpireReopen
  BY <1>8, QuietIInv DEF ExpireReopen, Reopened, row, control
<1>9. CASE Execute
  <2>1. /\ run'.pc = "open" /\ run'.at = 1 /\ RunShape'
        /\ status = "APPROVED" /\ status' = "EXECUTING"
        /\ UNCHANGED <<revision, endorsed, sentCount>>
    BY <1>9 DEF Execute, RunShape, RunPc, people
  <2>2. Approved'
    BY <2>1 DEF IInv, Approved, Engaged
  <2>3. Ahead'
    BY <2>1 DEF IInv, Ahead, UnsentFrom
  <2> QED BY <2>1, <2>2, <2>3 DEF IInv
<1>10. CASE ClaimLost
  <2>1. run' = [pc |-> "over", at |-> run.at, of |-> run.of, pick |-> run.pick]
    BY <1>10 DEF ClaimLost, IInv, RunShape
  <2>2. RunShape' /\ UNCHANGED <<status, revision, endorsed, sentCount>>
    BY <1>10, <2>1 DEF ClaimLost, IInv, RunShape, RunPc, row, people
  <2>3. Approved'
    BY <2>1, <2>2 DEF IInv, Approved, Engaged
  <2>4. Ahead'
    BY <2>1, <2>2 DEF IInv, Ahead, UnsentFrom
  <2> QED BY <2>2, <2>3, <2>4 DEF IInv
<1>11. CASE Open
  <2>1. Engaged /\ UNCHANGED <<status, revision, endorsed, sentCount>>
    BY <1>11 DEF Open, Engaged, row, people
  <2>2. CASE run' = [run EXCEPT !.pc = "gate"]
    <3>1. run' = [run EXCEPT !.pc = "gate", !.pick = run.pick]
      BY ZenonT(60), <2>2 DEF IInv, RunShape
    <3> QED BY ZenonT(60), <1>11, <2>1, <3>1, MoveIInv DEF Open, RunPc
  <2>3. CASE LeaveTo("fail")
    BY ZenonT(60), <2>1, <2>3, LeaveIInv DEF LeaveTo
  <2> QED BY <1>11, <2>2, <2>3 DEF Open
<1>12. CASE StartNext
  <2>1. Engaged /\ UNCHANGED <<status, revision, endorsed, sentCount>>
    BY <1>12 DEF StartNext, Engaged, row, people
  <2>2. CASE LeaveTo("publish")
    BY ZenonT(60), <2>1, <2>2, LeaveIInv DEF LeaveTo
  <2>3. CASE run' = [run EXCEPT !.pc = "flip", !.pick = Lowest(InState("PENDING"))]
    BY ZenonT(60), <1>12, <2>1, <2>3, MoveIInv DEF StartNext, RunPc
  <2> QED BY <1>12, <2>2, <2>3 DEF StartNext
<1>13. CASE Flip
  <2>1. Engaged /\ UNCHANGED <<status, revision, endorsed, sentCount>>
    BY <1>13 DEF Flip, Engaged, people
  <2>2. CASE LeaveTo("publish")
    BY ZenonT(60), <2>1, <2>2, LeaveIInv DEF LeaveTo
  <2>3. CASE run' = [run EXCEPT !.pc = "gate", !.pick = None]
    BY ZenonT(60), <1>13, <2>1, <2>3, MoveIInv DEF Flip, RunPc
  <2> QED BY <1>13, <2>2, <2>3 DEF Flip
<1>14. CASE Gate
  <2>1. Engaged /\ UNCHANGED <<status, revision, endorsed, sentCount>>
    BY <1>14 DEF Gate, Engaged, row, people
  <2>2. CASE LeaveTo("publish")
    BY ZenonT(60), <2>1, <2>2, LeaveIInv DEF LeaveTo
  <2>3. CASE run' = [run EXCEPT !.pc = "send"]
    <3>1. run' = [run EXCEPT !.pc = "send", !.pick = run.pick]
      BY ZenonT(60), <2>3 DEF IInv, RunShape
    <3> QED BY ZenonT(60), <1>14, <2>1, <3>1, MoveIInv DEF Gate, RunPc
  <2> QED BY <1>14, <2>2, <2>3 DEF Gate
<1>15. CASE Send
  <2>1. Engaged /\ run.pc = "send" /\ UNCHANGED <<status, revision, endorsed>>
    BY <1>15 DEF Send, Engaged, row, people
  <2>2. CASE LeaveTo("fail") /\ UNCHANGED sentCount
    BY ZenonT(60), <2>1, <2>2, LeaveIInv DEF LeaveTo
  <2>3. CASE /\ run' = [run EXCEPT !.pc = "wait"]
             /\ sentCount' = [sentCount EXCEPT ![run.at] = @ + 1]
    <3>1. run' = [pc |-> "wait", at |-> run.at, of |-> run.of, pick |-> run.pick]
      BY <2>3 DEF IInv, RunShape
    <3>2. RunShape'
      BY <3>1 DEF IInv, RunShape, RunPc
    <3>3. Approved'
      BY <2>1, <3>1 DEF IInv, Approved, Engaged
    <3>4. sentCount \in [Ordinal -> 0..1] /\ UnsentFrom(run.at) /\ run.at \in Nat
      BY <2>1 DEF IInv, Ahead, RunShape
    <3>5. sentCount' \in [Ordinal -> 0..1]
      <4>1. \A i \in Ordinal : sentCount'[i] \in 0..1
        BY <2>3, <3>4 DEF UnsentFrom, Ordinal
      <4> QED BY ZenonT(60), <2>3, <3>4, <4>1
    <3>6. UnsentFrom(run.at + 1)'
      BY <2>3, <3>1, <3>4 DEF UnsentFrom, Ordinal
    <3>7. status \notin {"PENDING", "APPROVED"}
      BY <2>1 DEF IInv, Approved
    <3>8. Ahead'
      BY <2>1, <3>1, <3>5, <3>6, <3>7 DEF Ahead
    <3> QED BY <3>2, <3>3, <3>8 DEF IInv
  <2> QED BY <1>15, <2>2, <2>3 DEF Send
<1>16. CASE Answered
  <2>1. Engaged /\ UNCHANGED <<status, revision, endorsed, sentCount>>
    BY <1>16 DEF Answered, Engaged, row, people
  <2>2. CASE LeaveTo("fail")
    BY ZenonT(60), <2>1, <2>2, LeaveIInv DEF LeaveTo
  <2>3. CASE run' = [run EXCEPT !.pc = "save"]
    <3>1. run' = [run EXCEPT !.pc = "save", !.pick = run.pick]
      BY ZenonT(60), <2>3 DEF IInv, RunShape
    <3> QED BY ZenonT(60), <1>16, <2>1, <3>1, MoveIInv DEF Answered, RunPc
  <2> QED BY <1>16, <2>2, <2>3 DEF Answered
<1>17. CASE Save
  <2>1. Engaged /\ UNCHANGED <<status, revision, endorsed, sentCount>>
    BY <1>17 DEF Save, Engaged, row, people
  <2>2. CASE LeaveTo("fail")
    BY ZenonT(60), <2>1, <2>2, LeaveIInv DEF LeaveTo
  <2>3. CASE run' = [run EXCEPT !.pc = "commit", !.pick = Lowest(InState("RUNNING"))]
    BY ZenonT(60), <1>17, <2>1, <2>3, MoveIInv DEF Save, RunPc
  <2> QED BY <1>17, <2>2, <2>3 DEF Save
<1>18. CASE Commit
  <2>1. /\ Engaged /\ run.pc = "commit" /\ UNCHANGED <<revision, endorsed, sentCount>>
        /\ status' = status \/ status' = "EXECUTED"
    BY <1>18 DEF Commit, Engaged, people
  <2>2. CASE LeaveTo("publish") \/ LeaveTo("fail")
    BY ZenonT(60), <2>1, <2>2, LeaveIInv DEF LeaveTo
  <2>3. CASE run' = [run EXCEPT !.pc = "start", !.at = @ + 1, !.pick = None]
    <3>1. run' = [pc |-> "start", at |-> run.at + 1, of |-> run.of, pick |-> None]
      BY ZenonT(60), <2>3 DEF IInv, RunShape
    <3>2. RunShape'
      BY <3>1 DEF IInv, RunShape, RunPc
    <3>3. Approved'
      BY <2>1, <3>1 DEF IInv, Approved, Engaged
    <3>4. Ahead'
      BY <2>1, <3>1 DEF IInv, Ahead, UnsentFrom, Approved
    <3> QED BY <3>2, <3>3, <3>4 DEF IInv
  <2> QED BY <1>18, <2>2, <2>3 DEF Commit
<1>19. CASE Fail
  <2>1. Engaged /\ UNCHANGED <<status, revision, endorsed, sentCount>>
    BY <1>19 DEF Fail, Engaged, row, people
  <2> DEFINE pc == IF InState("RUNNING") = {} THEN "publish" ELSE "failCommit"
  <2>2. pc \in {"fail", "publish", "failCommit", "over"}
    OBVIOUS
  <2>3. run' = [run EXCEPT !.pc = pc, !.pick = Lowest(InState("RUNNING"))]
    BY <1>19 DEF Fail
  <2> HIDE DEF pc
  <2> QED BY ZenonT(60), <2>1, <2>2, <2>3, LeaveIInv
<1>20. CASE FailCommit
  <2>1. /\ Engaged /\ UNCHANGED <<revision, endorsed, sentCount>>
        /\ status' = status \/ status' = "FAILED"
        /\ run' = [run EXCEPT !.pc = "publish", !.pick = None]
    BY <1>20 DEF FailCommit, Engaged, people
  <2> QED BY ZenonT(60), <2>1, LeaveIInv
<1>21. CASE Publish
  <2>1. Engaged /\ UNCHANGED <<status, revision, endorsed, sentCount>>
    BY <1>21 DEF Publish, Engaged, row, people
  <2>2. run' = [run EXCEPT !.pc = "over", !.pick = run.pick]
    BY ZenonT(60), <1>21 DEF Publish, IInv, RunShape
  <2> QED BY ZenonT(60), <2>1, <2>2, LeaveIInv
<1>22. CASE ProxyReceive \/ ProxyDecide \/ ProxyAnswer \/ ProxyReport \/ ProxyDrain
  BY <1>22, QuietIInv DEF ProxyReceive, ProxyDecide, ProxyAnswer, ProxyReport, ProxyDrain, row, people, control
<1>23. ASSUME NEW c \in Canceller, CancelRunning(c) \/ CancelSelect(c) \/ CancelCommit(c) \/ CancelSignal(c)
       PROVE  IInv'
  <2>1. CASE CancelRunning(c)
    BY <2>1, QuietIInv DEF CancelRunning, row, people, control
  <2>2. CASE CancelSelect(c)
    BY <2>2, QuietIInv DEF CancelSelect, row, people, control
  <2>3. CASE CancelCommit(c)
    BY <2>3, QuietIInv DEF CancelCommit, people, control
  <2>4. CASE CancelSignal(c)
    BY <2>4, QuietIInv DEF CancelSignal, row, people
  <2> QED BY <1>23, <2>1, <2>2, <2>3, <2>4
<1>24. CASE DeleteSignal
  BY <1>24, QuietIInv DEF DeleteSignal, row, people
<1>25. CASE DeleteRows
  BY <1>25, QuietIInv DEF DeleteRows, people, control
<1>26. CASE DeleteTask
  BY <1>26, QuietIInv DEF DeleteTask, people, control
<1>27. CASE Crash
  <2>1. /\ run' = [pc |-> "over", at |-> 0, of |-> 0, pick |-> None]
        /\ UNCHANGED <<status, revision, endorsed, sentCount>>
    BY <1>27 DEF Crash, row
  <2>2. RunShape'
    BY <2>1 DEF RunShape, RunPc
  <2>3. Approved'
    BY <2>1 DEF IInv, Approved, Engaged
  <2>4. Ahead'
    BY <2>1 DEF IInv, Ahead, UnsentFrom
  <2> QED BY <2>2, <2>3, <2>4 DEF IInv
<1>28. CASE Boot
  <2>1. /\ UNCHANGED <<revision, endorsed, sentCount>>
        /\ status' = IF status = "EXECUTING" THEN "FAILED" ELSE status
        /\ \/ run' = run
           \/ /\ status \in {"PENDING", "APPROVED"}
              /\ run' = [run EXCEPT !.pc = "off"]
    BY <1>28 DEF Boot, Reconcile, people
  <2>2. CASE run' = run
    BY <2>1, <2>2, QuietIInv
  <2>3. CASE status \in {"PENDING", "APPROVED"} /\ run' = [run EXCEPT !.pc = "off"]
    <3>1. run' = [pc |-> "off", at |-> run.at, of |-> run.of, pick |-> run.pick] /\ status' = status
      BY <2>1, <2>3 DEF IInv, RunShape
    <3>2. RunShape'
      BY <3>1 DEF IInv, RunShape, RunPc
    <3>3. Approved'
      BY <2>1, <3>1 DEF IInv, Approved, Engaged
    <3>4. Ahead'
      BY <2>1, <3>1 DEF IInv, Ahead, UnsentFrom
    <3> QED BY <3>2, <3>3, <3>4 DEF IInv
  <2> QED BY <2>1, <2>2, <2>3
<1>29. CASE RollingBoot
  BY <1>29, QuietIInv DEF RollingBoot, Reconcile, people, control
<1>30. CASE UNCHANGED vars
  BY <1>30, QuietIInv DEF vars
<1> QED
  BY <1>1, <1>2, <1>3, <1>4, <1>5, <1>6, <1>7, <1>8, <1>9, <1>10, <1>11, <1>12, <1>13, <1>14, <1>15,
     <1>16, <1>17, <1>18, <1>19, <1>20, <1>21, <1>22, <1>23, <1>24, <1>25, <1>26, <1>27, <1>28, <1>29,
     <1>30 DEF Next, RunStep, CancelStep

\* The strengthening of RunsWhatWasApproved holds in every reachable state.
THEOREM TaskInvariant == Spec => []IInv
BY InitIInv, StepIInv, PTL DEF Spec

\* What a run sends is the revision its approver read, each statement at most once, however edits,
\* approvals, expiry, cancels, deletions, crashes and rolling restarts interleave.
THEOREM ApprovedIsWhatRuns == Spec => []RunsWhatWasApproved
<1>1. IInv => RunsWhatWasApproved
  BY DEF IInv, Approved, Ahead, Engaged, Running, RunsWhatWasApproved
<1> QED BY <1>1, TaskInvariant, PTL

-----------------------------------------------------------------------------
\* How a run, its cancels and the restarts settle a task.

CancelPc == {"idle", "running", "pending", "locked", "signal"}
CancelRow == [pc : CancelPc, row : Pick, rest : SUBSET Ordinal]
Message == {"query", "cancel", "close"}

Shape ==
  /\ status \in Status
  /\ child \in [Ordinal -> ChildStatus]
  /\ cancel \in [Canceller -> CancelRow]
  /\ run.of \in Pick
  /\ run.pc \in {"flip", "commit", "failCommit"} => run.pick \in Ordinal

\* The rows as insertStatements wrote them, or deleted; and no run has begun on them.
Fresh == (\A i \in Ordinal : child[i] = "ABSENT") \/ \E n \in Ordinal : child = FreshChildren(n)
Untouched == Fresh /\ ~Engaged

\* A cancel took statement j: nothing after it was reached, or will be.
Cut(j) == child[j] = "CANCELLED" /\ \A i \in Ordinal : i > j => child[i] \in {"SKIPPED", "ABSENT"}
Struck == (\A i \in Ordinal : child[i] = "ABSENT") \/ \E j \in Ordinal : Cut(j)

\* What the rows can be under each status of the task.
Stage ==
  /\ status \in {"PENDING", "APPROVED", "REJECTED"} => Untouched
  /\ status = "EXECUTING" => /\ \A i \in Ordinal : child[i] \in {"ABSENT", "PENDING", "RUNNING", "DONE"}
                             /\ \/ \A i \in Ordinal : child[i] = "ABSENT"
                                \/ \E i \in Ordinal : child[i] \in {"PENDING", "RUNNING"}
  /\ status = "EXECUTED" => \A i \in Ordinal : child[i] \in {"DONE", "ABSENT"}
  /\ status = "FAILED" => /\ \A i \in Ordinal : child[i] \notin {"PENDING", "RUNNING"}
                          /\ \/ \A i \in Ordinal : child[i] = "ABSENT"
                             \/ \E i \in Ordinal : child[i] = "FAILED"
  /\ status = "CANCELLED" => \/ Untouched
                             \/ Struck /\ \A i \in Ordinal : child[i] # "PENDING"
  /\ status = "GONE" => \A i \in Ordinal : child[i] = "ABSENT"

\* The batch is DONE up to a point, then at most one statement RUNNING, then what has not begun.
Order ==
  \A i \in Ordinal, j \in Ordinal : j < i =>
    /\ child[i] \in {"RUNNING", "DONE"} => child[j] = "DONE"
    /\ child[i] = "PENDING" => child[j] \in {"PENDING", "RUNNING", "DONE"}

\* The run's own count of statements agrees with the rows it never reads it from.
OnStatement == {"open", "gate", "send", "wait", "save", "commit"}
Position ==
  /\ Engaged => /\ run.at >= 1
                /\ \/ \A i \in Ordinal : child[i] = "ABSENT"
                   \/ \A i \in Ordinal : child[i] # "ABSENT" <=> i <= run.of
  /\ run.pc \in OnStatement => \A i \in Ordinal : child[i] = "RUNNING" => i = run.at
  /\ run.pc \in {"start", "flip"} =>
       \A i \in Ordinal : /\ child[i] # "RUNNING"
                          /\ child[i] = "DONE" => i < run.at
                          /\ child[i] = "PENDING" => i >= run.at
  /\ run.pc = "flip" => \A i \in Ordinal : i < run.pick => child[i] # "PENDING"

\* While the task is EXECUTING, a cancel that holds a row holds it as it found it.
Holds ==
  \A c \in Canceller :
    /\ status \in {"PENDING", "APPROVED"} => cancel[c].pc = "idle"
    /\ cancel[c].pc = "locked" /\ status = "EXECUTING" =>
         cancel[c].row \in Ordinal /\ child[cancel[c].row] \in {"PENDING", "RUNNING"}

\* A cancel that committed has struck the rows for good, and what was announced is how the task ended.
Signalled ==
  /\ (landed \/ \E c \in Canceller : cancel[c].pc = "signal") => Struck /\ status \in {"CANCELLED", "GONE"}
  /\ announced \subseteq Terminal
  /\ AnnouncedAsEnded

\* Only a registered run that has sent can have a query on its way with nothing behind it.
Followed == \A i \in Queries : \E j \in DOMAIN stream : j > i /\ stream[j] # "query"
Streaming == run.pc \in {"start", "flip", "gate", "send", "wait", "save", "commit"}
Wired ==
  /\ stream \in Seq(Message)
  /\ active \in [registered : BOOLEAN, canceled : BOOLEAN, sent : BOOLEAN]
  /\ active.registered <=> Streaming
  /\ ~(active.registered /\ active.sent) => Followed
  /\ landed => Followed /\ run.pc # "send"

SInv == Shape /\ Stage /\ Order /\ Position /\ Holds /\ Signalled /\ Wired

\* A cancel or a close goes behind every query already sent.
LEMMA AppendFollowed ==
  ASSUME stream \in Seq(Message), NEW x \in {"cancel", "close"}, stream' = Append(stream, x)
  PROVE  stream' \in Seq(Message) /\ Followed'
<1>1. stream' \in Seq(Message) /\ Len(stream') = Len(stream) + 1 /\ stream'[Len(stream) + 1] = x
  BY DEF Message
<1>2. DOMAIN stream' = 1..(Len(stream) + 1) /\ Len(stream) \in Nat
  BY <1>1
<1>3. ASSUME NEW i \in Queries' PROVE \E j \in DOMAIN stream' : j > i /\ stream'[j] # "query"
  <2>1. i \in DOMAIN stream' /\ stream'[i] = "query"
    BY <1>3, Zenon DEF Queries
  <2>2. i # Len(stream) + 1
    BY <1>1, <2>1, Zenon
  <2>3. Len(stream) + 1 > i /\ Len(stream) + 1 \in DOMAIN stream'
    BY <1>2, <2>1, <2>2
  <2> QED BY <1>1, <2>3, Zenon
<1> QED BY <1>1, <1>3, Zenon DEF Followed

\* The proxy takes the first message; what follows a query stays behind it.
LEMMA TailFollowed ==
  ASSUME stream \in Seq(Message), stream # <<>>, stream' = Tail(stream), Followed
  PROVE  Followed'
<1>1. /\ stream' \in Seq(Message) /\ Len(stream') = Len(stream) - 1 /\ Len(stream) \in Nat
      /\ \A i \in 1..Len(stream') : stream'[i] = stream[i + 1]
  OBVIOUS
<1>2. DOMAIN stream' = 1..Len(stream') /\ DOMAIN stream = 1..Len(stream)
  BY <1>1
<1>3. ASSUME NEW i \in Queries' PROVE \E j \in DOMAIN stream' : j > i /\ stream'[j] # "query"
  <2>1. i \in 1..Len(stream') /\ stream'[i] = "query"
    BY <1>2, <1>3, Zenon DEF Queries
  <2>2. i + 1 \in DOMAIN stream /\ stream[i + 1] = "query"
    BY <1>1, <1>2, <2>1
  <2>3. PICK k \in DOMAIN stream : k > i + 1 /\ stream[k] # "query"
    BY <2>2, Zenon DEF Followed, Queries
  <2>4. k - 1 \in 1..Len(stream') /\ k - 1 > i /\ (k - 1) + 1 = k
    BY <1>1, <1>2, <2>1, <2>3
  <2>5. stream'[k - 1] # "query"
    BY <1>1, <2>3, <2>4, Zenon
  <2> QED BY <1>2, <2>4, <2>5, Zenon
<1> QED BY <1>3, Zenon DEF Followed

\* The preflight of sendEditorQuery reads the statement the cancel took, and vetoes the send.
LEMMA StruckVetoes ==
  ASSUME child \in [Ordinal -> ChildStatus], Struck
  PROVE  child[ActiveOrdinal] # "RUNNING"
<1> DEFINE reached == {i \in Rows : child[i] \notin {"PENDING", "SKIPPED"}}
<1>1. CASE \A i \in Ordinal : child[i] = "ABSENT"
  <2>1. reached = {} /\ 1 \in Ordinal
    BY <1>1, StatementBound DEF Rows, Ordinal
  <2>2. ActiveOrdinal = 1
    BY <2>1, Zenon DEF ActiveOrdinal
  <2> QED BY <1>1, <2>1, <2>2, Zenon
<1>2. ASSUME NEW j \in Ordinal, Cut(j) PROVE child[ActiveOrdinal] # "RUNNING"
  <2>1. j \in reached /\ \A y \in reached : y \in Ordinal /\ j >= y
    BY <1>2 DEF Rows, Cut, Ordinal
  <2>2. ActiveOrdinal = Max(reached) /\ reached # {}
    BY <2>1, Zenon DEF ActiveOrdinal
  <2> DEFINE m == Max(reached)
  <2> HIDE DEF reached
  <2>3. m \in reached /\ m >= j
    BY <2>1, Zenon DEF Max
  <2> HIDE DEF m
  <2>4. m \in Int /\ j \in Int /\ j >= m
    BY <2>1, <2>3 DEF Ordinal
  <2>5. m = j
    BY <2>3, <2>4
  <2> QED BY <1>2, <2>2, <2>5, Zenon DEF Cut, m
<1> QED BY <1>1, <1>2, Zenon DEF Struck

\* Lowest takes the least member.
LEMMA LowestIs ==
  ASSUME NEW S, S \subseteq Int, NEW m \in S, \A y \in S : m <= y
  PROVE  Lowest(S) = m
<1> DEFINE x == Min(S)
<1>1. x \in S /\ \A y \in S : x <= y
  BY Zenon DEF Min
<1> HIDE DEF x
<1>2. x = m
  BY <1>1
<1> QED BY <1>2, Zenon DEF Lowest, x

\* There is one.
LEMMA LeastIn ==
  ASSUME NEW S, S \subseteq Ordinal, S # {}
  PROVE  \E x \in S : \A y \in S : x <= y
<1>1. S \subseteq Nat
  BY DEF Ordinal
<1> DEFINE R == OpToRel(<, Nat)
<1>2. IsWellFoundedOn(R, Nat)
  BY NatLessThanWellFounded, Zenon
<1>3. \A x \in Nat, y \in Nat : y < x => <<y, x>> \in R
  BY Zenon DEF OpToRel
<1> HIDE DEF R
<1>4. PICK x \in S : \A y \in S : ~(<<y, x>> \in R)
  BY <1>1, <1>2, WFMin, Zenon
<1>5. ASSUME NEW y \in S PROVE x <= y
  <2>1. x \in Nat /\ y \in Nat /\ ~(y < x)
    BY <1>1, <1>3, <1>4, Zenon
  <2> QED BY <2>1
<1> QED BY <1>5, Zenon

LEMMA LowestIn ==
  ASSUME NEW S, S \subseteq Ordinal, S # {}
  PROVE  Lowest(S) \in S /\ \A y \in S : Lowest(S) <= y
<1>1. PICK x \in S : \A y \in S : x <= y
  BY LeastIn, Zenon
<1>2. S \subseteq Int
  BY DEF Ordinal
<1>3. Lowest(S) = x
  BY <1>1, <1>2, LowestIs, Zenon
<1> QED BY <1>1, <1>3, Zenon

\* The record after a move of the run.
LEMMA RunMoves ==
  ASSUME IInv
  PROVE  /\ \A pc, p : run' = [run EXCEPT !.pc = pc, !.pick = p] =>
                       run' = [pc |-> pc, at |-> run.at, of |-> run.of, pick |-> p]
         /\ \A pc : run' = [run EXCEPT !.pc = pc] =>
                    run' = [pc |-> pc, at |-> run.at, of |-> run.of, pick |-> run.pick]
  BY Zenon DEF IInv, RunShape

\* The rows, the cancels and what was announced are as they were.
LEMMA RowsKept ==
  ASSUME SInv, UNCHANGED <<status, child, cancel, landed, announced>>, Engaged' => Engaged
  PROVE  Stage' /\ Order' /\ Holds' /\ Signalled'
<1>1. Fresh' = Fresh /\ Struck' = Struck
  BY Zenon DEF Fresh, Struck, Cut
<1>2. Stage'
  BY <1>1, Zenon DEF SInv, Stage, Untouched
<1>3. Order'
  BY Zenon DEF SInv, Order
<1>4. Holds'
  BY Zenon DEF SInv, Holds
<1>5. Signalled'
  BY <1>1, Zenon DEF SInv, Signalled, AnnouncedAsEnded
<1> QED BY <1>2, <1>3, <1>4, <1>5, Zenon

\* The run leaves the stream with a close.
LEMMA LeaveSInv ==
  ASSUME IInv, SInv, NEW pc \in {"fail", "publish"}, LeaveTo(pc), UNCHANGED landed
  PROVE  /\ run' = [pc |-> pc, at |-> run.at, of |-> run.of, pick |-> None]
         /\ Wired'
<1>1. run' = [pc |-> pc, at |-> run.at, of |-> run.of, pick |-> None]
  BY RunMoves, Zenon DEF LeaveTo
<1>2. stream' \in Seq(Message) /\ Followed'
  BY AppendFollowed, Zenon DEF LeaveTo, SInv, Wired
<1>3. active' \in [registered : BOOLEAN, canceled : BOOLEAN, sent : BOOLEAN] /\ active'.registered = FALSE
  BY Zenon DEF LeaveTo, SInv, Wired
<1>4. ~Streaming' /\ run'.pc # "send"
  BY <1>1, Zenon DEF Streaming
<1>5. Wired'
  BY <1>2, <1>3, <1>4, Zenon DEF Wired
<1> QED BY <1>1, <1>5, Zenon

\* A step none of whose changes the invariant is about.
LEMMA SameSInv ==
  ASSUME SInv, UNCHANGED <<status, child, run, cancel, active, stream, landed, announced>>
  PROVE  SInv'
<1>1. Stage' /\ Order' /\ Holds' /\ Signalled'
  BY RowsKept, Zenon DEF Engaged
<1>2. Shape'
  BY Zenon DEF SInv, Shape
<1>3. Position'
  BY Zenon DEF SInv, Position, Engaged
<1>4. Wired'
  BY Zenon DEF SInv, Wired, Streaming, Followed, Queries
<1> QED BY <1>1, <1>2, <1>3, <1>4, Zenon DEF SInv

\* The run moves on within a statement, or away from it.
LEMMA MoveSInv ==
  ASSUME SInv, UNCHANGED <<status, child, cancel, landed, announced>>, Wired',
         NEW pc, NEW p, run' = [pc |-> pc, at |-> run.at, of |-> run.of, pick |-> p],
         Engaged, pc # "flip", pc \in {"commit", "failCommit"} => p \in Ordinal,
         \/ run.pc \in OnStatement /\ pc \in OnStatement
         \/ pc \in {"fail", "publish", "failCommit", "over"}
  PROVE  SInv'
<1>1. Stage' /\ Order' /\ Holds' /\ Signalled'
  BY RowsKept, Zenon
<1>2. Shape'
  BY Zenon DEF SInv, Shape
<1>3. Position'
  BY Zenon DEF SInv, Position, Engaged, OnStatement
<1> QED BY <1>1, <1>2, <1>3, Zenon DEF SInv

\* It does so without having changed a row.
LEMMA LeaveMoveSInv ==
  ASSUME IInv, SInv, NEW pc \in {"fail", "publish"}, LeaveTo(pc), Engaged,
         UNCHANGED <<status, child, cancel, landed, announced>>
  PROVE  SInv'
<1>1. run' = [pc |-> pc, at |-> run.at, of |-> run.of, pick |-> None] /\ Wired'
  BY LeaveSInv, Zenon
<1> QED BY <1>1, MoveSInv, Zenon

\* An approval, its withdrawal, a refusal or an edit: no run has begun.
LEMMA DecideSInv ==
  ASSUME IInv, SInv, UNCHANGED <<run, cancel, active, stream, landed, announced>>,
         status \in {"PENDING", "APPROVED"},
         status' \in {"PENDING", "APPROVED", "REJECTED", "CANCELLED"},
         child' = child \/ \E n \in Ordinal : child' = FreshChildren(n)
  PROVE  SInv'
<1>1. ~Engaged' /\ ~Engaged
  BY Zenon DEF IInv, Approved, Engaged
<1>2. Fresh' /\ child' \in [Ordinal -> ChildStatus]
  <2>1. CASE child' = child
    BY <2>1, Zenon DEF SInv, Stage, Untouched, Fresh, Shape
  <2>2. ASSUME NEW n \in Ordinal, child' = FreshChildren(n) PROVE Fresh' /\ child' \in [Ordinal -> ChildStatus]
    <3>1. child' \in [Ordinal -> ChildStatus]
      BY <2>2, Zenon DEF FreshChildren, ChildStatus
    <3> QED BY <2>2, <3>1, Zenon DEF Fresh, FreshChildren
  <2> QED BY <2>1, <2>2, Zenon
<1>3. Shape'
  BY <1>2, Zenon DEF SInv, Shape, Status
<1>4. Stage'
  BY <1>1, <1>2, Zenon DEF Stage, Untouched
<1>5. Order'
  BY <1>2 DEF Order, Fresh, FreshChildren, Ordinal
<1>6. Position'
  BY <1>1, Zenon DEF SInv, Position, Engaged, OnStatement
<1>7. \A c \in Canceller : cancel[c].pc = "idle"
  BY Zenon DEF SInv, Holds
<1>8. Holds'
  BY <1>7, Zenon DEF Holds
<1>9. landed = FALSE /\ announced = {}
  BY DEF SInv, Signalled, AnnouncedAsEnded, Terminal
<1>10. Signalled'
  BY <1>7, <1>9, Zenon DEF Signalled, AnnouncedAsEnded
<1>11. Wired'
  BY Zenon DEF SInv, Wired, Streaming, Followed, Queries
<1> QED BY <1>3, <1>4, <1>5, <1>6, <1>8, <1>10, <1>11, Zenon DEF SInv

\* claimAndStartRun starts the first statement of a batch nothing has touched.
LEMMA ExecuteSInv ==
  ASSUME IInv, SInv, Execute
  PROVE  SInv'
<1>1. /\ status = "APPROVED" /\ status' = "EXECUTING" /\ InState("PENDING") # {}
      /\ child' = [child EXCEPT ![Lowest(InState("PENDING"))] = "RUNNING"]
      /\ run' = [pc |-> "open", at |-> 1, of |-> Cardinality(Rows), pick |-> None]
      /\ UNCHANGED <<cancel, active, stream, landed, announced>>
  BY Zenon DEF Execute, others, wire
<1>2. PICK n \in Ordinal : child = FreshChildren(n)
  BY <1>1, Zenon DEF SInv, Stage, Untouched, Fresh, InState
<1>3. InState("PENDING") = 1..n /\ Rows = 1..n /\ n \in Nat /\ 1 <= n /\ 1 \in Ordinal
  BY <1>2, StatementBound DEF InState, Rows, FreshChildren, Ordinal
<1>4. Lowest(InState("PENDING")) = 1
  BY <1>3, LowestIs
<1>5. Cardinality(Rows) = n
  BY <1>3, FS_Interval
<1>6. /\ child' \in [Ordinal -> ChildStatus]
      /\ \A i \in Ordinal : child'[i] = IF i = 1 THEN "RUNNING" ELSE IF i <= n THEN "PENDING" ELSE "ABSENT"
  BY <1>1, <1>2, <1>4, Zenon DEF FreshChildren, ChildStatus
<1>7. Shape'
  BY <1>1, <1>3, <1>5, <1>6 DEF SInv, Shape, Status, Pick, Ordinal
<1>8. Stage'
  BY <1>1, <1>3, <1>6, Zenon DEF Stage
<1>9. Order'
  BY <1>3, <1>6 DEF Order, Ordinal
<1>10. Position'
  BY <1>1, <1>3, <1>5, <1>6 DEF Position, OnStatement, Ordinal
<1>11. \A c \in Canceller : cancel[c].pc = "idle"
  BY <1>1, Zenon DEF SInv, Holds
<1>12. Holds'
  BY <1>1, <1>11, Zenon DEF Holds
<1>13. landed = FALSE /\ announced = {}
  BY <1>1 DEF SInv, Signalled, AnnouncedAsEnded, Terminal
<1>14. Signalled'
  BY <1>1, <1>11, <1>13, Zenon DEF Signalled, AnnouncedAsEnded
<1>15. ~Streaming
  BY <1>1, Zenon DEF IInv, Approved, Engaged, Streaming
<1>16. Wired'
  BY <1>1, <1>13, <1>15, Zenon DEF SInv, Wired, Streaming, Followed, Queries
<1> QED BY <1>7, <1>8, <1>9, <1>10, <1>12, <1>14, <1>16, Zenon DEF SInv

\* startNextRun picks the statement the run has come to.
LEMMA StartNextSInv ==
  ASSUME IInv, SInv, StartNext
  PROVE  SInv'
<1>1. run.pc = "start" /\ Engaged /\ UNCHANGED <<status, child, cancel, landed, announced>>
  BY Zenon DEF StartNext, row, others, Engaged
<1>2. CASE InState("PENDING") = {}
  BY <1>1, <1>2, LeaveMoveSInv, Zenon DEF StartNext
<1>3. CASE InState("PENDING") # {}
  <2> DEFINE p == Lowest(InState("PENDING"))
  <2>1. run' = [pc |-> "flip", at |-> run.at, of |-> run.of, pick |-> p] /\ UNCHANGED <<active, stream>>
    BY <1>3, RunMoves, Zenon DEF StartNext, wire
  <2>2. InState("PENDING") \subseteq Ordinal /\ Ordinal \subseteq Int
    BY DEF InState, Ordinal
  <2>3. p \in InState("PENDING") /\ \A i \in InState("PENDING") : p <= i
    BY <1>3, <2>2, LowestIn, Zenon
  <2> HIDE DEF p
  <2>5. p \in Ordinal /\ \A i \in Ordinal : i < p => child[i] # "PENDING"
    BY <2>2, <2>3, StatementBound DEF InState, Ordinal
  <2>6. Stage' /\ Order' /\ Holds' /\ Signalled'
    BY <1>1, RowsKept, Zenon
  <2>7. Shape'
    BY <1>1, <2>1, <2>5, Zenon DEF SInv, Shape
  <2>8. Position'
    BY <1>1, <2>1, <2>5, Zenon DEF SInv, Position, Engaged, OnStatement
  <2>9. Wired'
    BY <1>1, <2>1 DEF SInv, Wired, Streaming, Followed, Queries
  <2> QED BY <2>6, <2>7, <2>8, <2>9, Zenon DEF SInv
<1> QED BY <1>2, <1>3, Zenon

\* No cancel has committed and nothing is announced while the task is EXECUTING.
LEMMA NothingYet ==
  ASSUME SInv, status = "EXECUTING"
  PROVE  landed = FALSE /\ announced = {} /\ \A c \in Canceller : cancel[c].pc # "signal"
  BY DEF SInv, Signalled, AnnouncedAsEnded, Terminal

\* The statement flipped is the one after those that are DONE.
LEMMA FlipSInv ==
  ASSUME IInv, SInv, Flip
  PROVE  SInv'
<1>1. /\ run.pc = "flip" /\ Engaged /\ run.pick \in Ordinal /\ ~Locked(run.pick)
      /\ UNCHANGED <<status, cancel, landed, announced>>
  BY Zenon DEF Flip, others, Engaged, SInv, Shape
<1>2. CASE child[run.pick] # "PENDING"
  BY <1>1, <1>2, LeaveMoveSInv, Zenon DEF Flip
<1>3. CASE child[run.pick] = "PENDING"
  <2>1. /\ child' = [child EXCEPT ![run.pick] = "RUNNING"] /\ UNCHANGED <<active, stream>>
        /\ run' = [pc |-> "gate", at |-> run.at, of |-> run.of, pick |-> None]
    BY <1>3, RunMoves, Zenon DEF Flip, wire
  <2>2. child \in [Ordinal -> ChildStatus] /\ Order /\ Position /\ Stage /\ Holds /\ Wired
    BY Zenon DEF SInv, Shape
  <2>3. status = "EXECUTING"
    BY <1>1, <1>3, <2>2, Zenon DEF Stage, Untouched, SInv, Shape, Status
  <2>4. /\ child' \in [Ordinal -> ChildStatus]
        /\ child'[run.pick] = "RUNNING"
        /\ \A i \in Ordinal : i # run.pick => child'[i] = child[i]
    BY <1>1, <2>1, <2>2, Zenon DEF ChildStatus
  <2>5. run.at \in Nat /\ run.at >= 1 /\ run.pick >= run.at
    BY <1>1, <1>3, <2>2, Zenon DEF Position, IInv, RunShape
  <2>6. \A i \in Ordinal : i < run.pick => child[i] = "DONE"
    BY <1>1, <1>3, <2>2, Zenon DEF Order, Position
  <2>7. run.pick = run.at
    <3>1. run.at # run.pick => run.at < run.pick /\ run.at \in Ordinal
      BY <1>1, <2>5, StatementBound DEF Ordinal
    <3>2. run.at \in Ordinal => child[run.at] # "DONE"
      BY <1>1, <2>2, <2>5 DEF Position
    <3> QED BY <2>6, <3>1, <3>2, Zenon
  <2>8. \A i \in Ordinal : child[i] # "RUNNING" /\ (child[i] = "DONE" => i < run.pick)
    BY <1>1, <2>2, <2>7, Zenon DEF Position
  <2>9. Shape'
    BY <1>1, <2>1, <2>4, Zenon DEF SInv, Shape
  <2>10. Stage'
    BY <1>1, <2>2, <2>3, <2>4, Zenon DEF Stage
  <2>11. Order'
    BY <1>1, <2>2, <2>4, <2>6, <2>8 DEF Order, Ordinal
  <2>12. Position'
    BY <1>1, <1>3, <2>1, <2>2, <2>4, <2>7, <2>8, Zenon DEF Position, OnStatement, Engaged
  <2>13. Holds'
    BY <1>1, <2>2, <2>3, <2>4, Zenon DEF Holds, Locked
  <2>14. Signalled'
    BY <1>1, <2>3, NothingYet, Zenon DEF Signalled, AnnouncedAsEnded
  <2>15. Wired'
    BY <1>1, <2>1, <2>2, Zenon DEF Wired, Streaming, Followed, Queries
  <2> QED BY <2>9, <2>10, <2>11, <2>12, <2>13, <2>14, <2>15, Zenon DEF SInv
<1> QED BY <1>2, <1>3, Zenon

\* What a step makes of rows that were PENDING or RUNNING leaves a cancel's mark where it is.
LEMMA StruckKept ==
  ASSUME Struck, \A i \in Ordinal : child'[i] = child[i] \/ child[i] \in {"PENDING", "RUNNING"}
  PROVE  Struck'
<1>1. CASE \A i \in Ordinal : child[i] = "ABSENT"
  BY <1>1, Zenon DEF Struck
<1>2. ASSUME NEW j \in Ordinal, Cut(j) PROVE Cut(j)'
  BY <1>2, Zenon DEF Cut
<1> QED BY <1>1, <1>2, Zenon DEF Struck

\* The statement completed is the one the run is on, and the last one ends the task.
LEMMA CommitSInv ==
  ASSUME IInv, SInv, Commit
  PROVE  SInv'
<1>1. /\ run.pc = "commit" /\ Engaged /\ run.pick \in Ordinal /\ ~Locked(run.pick)
      /\ UNCHANGED <<cancel, landed, announced>>
  BY Zenon DEF Commit, others, Engaged, SInv, Shape
<1>2. CASE LeaveTo("fail") /\ UNCHANGED <<status, child>>
  BY <1>1, <1>2, LeaveMoveSInv, Zenon
<1>3. CASE /\ child[run.pick] = "RUNNING" /\ (IsLast => status = "EXECUTING")
           /\ child' = [child EXCEPT ![run.pick] = "DONE"]
           /\ IF IsLast
              THEN status' = "EXECUTED" /\ LeaveTo("publish")
              ELSE /\ run' = [run EXCEPT !.pc = "start", !.at = @ + 1, !.pick = None]
                   /\ UNCHANGED <<status, active, wire>>
  <2>1. child \in [Ordinal -> ChildStatus] /\ Order /\ Position /\ Stage /\ Holds /\ Wired /\ Signalled
    BY Zenon DEF SInv, Shape
  <2>2. /\ child' \in [Ordinal -> ChildStatus]
        /\ child'[run.pick] = "DONE"
        /\ \A i \in Ordinal : i # run.pick => child'[i] = child[i]
    BY <1>1, <1>3, <2>1, Zenon DEF ChildStatus
  <2>3. run.pick = run.at /\ run.at \in Nat /\ run.at >= 1 /\ run.of \in Pick /\ run.at <= run.of
    BY <1>1, <1>3, <2>1, Zenon DEF Position, OnStatement, IInv, RunShape, SInv, Shape
  <2>4. \A i \in Ordinal : /\ i < run.pick => child[i] = "DONE"
                           /\ i > run.pick => child[i] \notin {"RUNNING", "DONE"}
    BY <1>1, <1>3, <2>1, Zenon DEF Order, Ordinal
  <2>5. Order'
    BY <1>1, <2>1, <2>2, <2>4, Zenon DEF Order, Ordinal
  <2>6. Struck => Struck'
    BY <1>1, <1>3, <2>2, StruckKept, Zenon
  <2>7. status \in {"EXECUTING", "CANCELLED"}
    BY <1>1, <1>3, <2>1, Zenon DEF Stage, Untouched, SInv, Shape, Status, Fresh, FreshChildren
  <2>8. CASE IsLast
    <3>1. status = "EXECUTING" /\ status' = "EXECUTED" /\ LeaveTo("publish")
      BY <1>3, <2>8, Zenon
    <3>2. run' = [pc |-> "publish", at |-> run.at, of |-> run.of, pick |-> None] /\ Wired'
      BY <1>1, <3>1, LeaveSInv, Zenon
    <3>3. Shape'
      BY <1>1, <2>2, <3>1, <3>2, Zenon DEF SInv, Shape, Status
    <3>4. \A i \in Ordinal : child'[i] \in {"DONE", "ABSENT"}
      BY <1>1, <1>3, <2>1, <2>2, <2>3, <2>4, <2>8 DEF Position, IsLast, Ordinal
    <3>5. Stage'
      BY <3>1, <3>4, Zenon DEF Stage
    <3>6. Position'
      BY <1>1, <1>3, <2>1, <2>2, <3>2, Zenon DEF Position, OnStatement, Engaged
    <3>7. Holds'
      BY <1>1, <3>1, Zenon DEF Holds
    <3>8. Signalled'
      BY <1>1, <3>1, NothingYet, Zenon DEF Signalled, AnnouncedAsEnded
    <3> QED BY <2>5, <3>2, <3>3, <3>5, <3>6, <3>7, <3>8 DEF SInv
  <2>9. CASE ~IsLast
    <3>1. /\ run' = [pc |-> "start", at |-> run.at + 1, of |-> run.of, pick |-> None]
          /\ UNCHANGED <<status, active, stream>>
      BY <1>3, <2>9, Zenon DEF wire, IInv, RunShape
    <3>2. Shape'
      BY <1>1, <2>2, <3>1, Zenon DEF SInv, Shape
    <3>3. run.of \in Ordinal /\ run.of > run.pick /\ run.of # run.pick /\ run.of <= run.of
      BY <2>3, <2>9, StatementBound DEF IsLast, Pick, Ordinal
    <3>4. ASSUME status = "EXECUTING" PROVE \E i \in Ordinal : child'[i] = "PENDING"
      <4>1. child[run.of] # "ABSENT"
        BY <1>1, <1>3, <2>1, <3>3, Zenon DEF Position
      <4>2. child[run.of] = "PENDING"
        BY <2>1, <2>4, <3>3, <3>4, <4>1, Zenon DEF Stage
      <4>3. child'[run.of] = "PENDING"
        BY <2>2, <3>3, <4>2, Zenon
      <4> QED BY <3>3, <4>3, Zenon
    <3>5. Stage'
      BY <1>1, <1>3, <2>1, <2>2, <2>6, <2>7, <3>1, <3>4 DEF Stage, Untouched
    <3>6. Position'
      BY <1>1, <1>3, <2>1, <2>2, <2>3, <2>4, <3>1 DEF Position, OnStatement, Engaged, Ordinal
    <3>7. Holds'
      BY <1>1, <2>1, <2>2, <3>1, Zenon DEF Holds, Locked
    <3>8. Signalled'
      BY <1>1, <2>1, <2>6, <3>1, Zenon DEF Signalled, AnnouncedAsEnded
    <3>9. Wired'
      BY <1>1, <2>1, <3>1, Zenon DEF Wired, Streaming, Followed, Queries
    <3> QED BY <2>5, <3>2, <3>5, <3>6, <3>7, <3>8, <3>9, Zenon DEF SInv
  <2> QED BY <2>8, <2>9, Zenon
<1> QED BY <1>2, <1>3, Zenon DEF Commit

\* Statements that had not ended end, all of those not begun with them.
LEMMA EndedOrder ==
  ASSUME Order,
         \A i \in Ordinal : /\ child'[i] # "PENDING"
                           /\ \/ child'[i] = child[i]
                              \/ /\ child[i] \in {"PENDING", "RUNNING"}
                                 /\ child'[i] \in {"FAILED", "CANCELLED", "SKIPPED"}
  PROVE  Order'
  BY Zenon DEF Order

\* failRun ends the one statement that is RUNNING and skips those after it.
LEMMA FailCommitSInv ==
  ASSUME IInv, SInv, FailCommit
  PROVE  SInv'
<1>1. /\ run.pc = "failCommit" /\ Engaged /\ run.pick \in Ordinal
      /\ run' = [pc |-> "publish", at |-> run.at, of |-> run.of, pick |-> None]
      /\ UNCHANGED <<cancel, active, stream, landed, announced>>
  BY RunMoves, Zenon DEF FailCommit, others, wire, Engaged, SInv, Shape
<1>2. Wired'
  BY <1>1, Zenon DEF SInv, Wired, Streaming, Followed, Queries
<1>3. CASE UNCHANGED <<status, child>>
  BY <1>1, <1>2, <1>3, MoveSInv
<1>4. CASE /\ child[run.pick] = "RUNNING" /\ child' = Skipped([child EXCEPT ![run.pick] = "FAILED"])
           /\ status' = IF status = "EXECUTING" THEN "FAILED" ELSE status
  <2>1. child \in [Ordinal -> ChildStatus] /\ Order /\ Position /\ Stage /\ Signalled
    BY Zenon DEF SInv, Shape
  <2>2. \A i \in Ordinal : child'[i] = IF i = run.pick THEN "FAILED"
                                       ELSE IF child[i] = "PENDING" THEN "SKIPPED" ELSE child[i]
    BY <1>1, <1>4, <2>1, Zenon DEF Skipped
  <2>3. child' \in [Ordinal -> ChildStatus]
    <3>1. \A i \in Ordinal : child'[i] \in ChildStatus
      BY <2>1, <2>2, Zenon DEF ChildStatus
    <3> QED BY <1>4, <3>1, Zenon DEF Skipped
  <2>p. child[run.pick] = "RUNNING" /\ status' = IF status = "EXECUTING" THEN "FAILED" ELSE status
    BY <1>4, Zenon
  <2>4. \A i \in Ordinal : i # run.pick => child[i] # "RUNNING"
    BY <1>1, <2>p, <2>1 DEF Order, Ordinal
  <2>5. Order'
    <3>1. \A i \in Ordinal : /\ child'[i] # "PENDING"
                             /\ \/ child'[i] = child[i]
                                \/ /\ child[i] \in {"PENDING", "RUNNING"}
                                   /\ child'[i] \in {"FAILED", "CANCELLED", "SKIPPED"}
      BY <2>p, <2>2
    <3> QED BY <2>1, <3>1, EndedOrder, Zenon
  <2>6. Struck => Struck'
    BY <2>p, <2>2, StruckKept, Zenon
  <2>7. status \in {"EXECUTING", "CANCELLED"} /\ (status = "CANCELLED" => Struck)
    BY <1>1, <2>p, <2>1, Zenon DEF Stage, Untouched, SInv, Shape, Status, Fresh, FreshChildren
  <2>8. Shape'
    BY <1>1, <2>p, <2>3, Zenon DEF SInv, Shape, Status
  <2>9. Stage'
    BY <1>1, <2>p, <2>2, <2>4, <2>6, <2>7, Zenon DEF Stage
  <2>10. Position'
    BY <1>1, <2>p, <2>1, <2>2 DEF Position, OnStatement, Engaged
  <2>11. Holds'
    BY <1>1, <2>p, <2>7, Zenon DEF Holds
  <2>12. Signalled'
    BY <1>1, <2>p, <2>1, <2>6, <2>7, NothingYet, Zenon DEF Signalled, AnnouncedAsEnded
  <2> QED BY <1>2, <2>5, <2>8, <2>9, <2>10, <2>11, <2>12, Zenon DEF SInv
<1> QED BY <1>3, <1>4, Zenon DEF FailCommit

\* The other steps of the run.
LEMMA RunSInv ==
  ASSUME IInv, SInv, ClaimLost \/ Open \/ Gate \/ Send \/ Answered \/ Save \/ Fail \/ Publish
  PROVE  SInv'
<1> USE DEF OnStatement
<1>1. CASE ClaimLost
  <2>1. /\ run' = [pc |-> "over", at |-> run.at, of |-> run.of, pick |-> run.pick]
        /\ run.pc = "claim" /\ UNCHANGED <<status, child, cancel, active, stream, landed, announced>>
    BY <1>1, RunMoves, Zenon DEF ClaimLost, row, others, wire
  <2>2. Stage' /\ Order' /\ Holds' /\ Signalled'
    BY <2>1, RowsKept, Zenon DEF Engaged
  <2>3. Shape' /\ Position'
    BY <2>1, Zenon DEF SInv, Shape, Position, Engaged
  <2>4. Wired'
    BY <2>1, Zenon DEF SInv, Wired, Streaming, Followed, Queries
  <2> QED BY <2>2, <2>3, <2>4, Zenon DEF SInv
<1>2. CASE Open
  <2>1. run.pc = "open" /\ Engaged /\ UNCHANGED <<status, child, cancel, landed, announced>>
    BY <1>2, Zenon DEF Open, row, others, Engaged
  <2>2. CASE LeaveTo("fail")
    BY <2>1, <2>2, LeaveMoveSInv, Zenon
  <2>3. CASE run' = [run EXCEPT !.pc = "gate"] /\ active' = [NoRun EXCEPT !.registered = TRUE] /\ UNCHANGED wire
    <3>1. run' = [pc |-> "gate", at |-> run.at, of |-> run.of, pick |-> run.pick]
      BY <2>3, RunMoves, Zenon
    <3>2. /\ active' \in [registered : BOOLEAN, canceled : BOOLEAN, sent : BOOLEAN]
          /\ active'.registered = TRUE /\ active'.sent = FALSE /\ stream' = stream
      BY <2>3, Zenon DEF NoRun, wire
    <3>3. Wired'
      BY <2>1, <3>1, <3>2, Zenon DEF SInv, Wired, Streaming, Followed, Queries
    <3> QED BY <2>1, <3>1, <3>3, MoveSInv
  <2> QED BY <1>2, <2>2, <2>3, Zenon DEF Open
<1>3. CASE Gate
  <2>1. run.pc = "gate" /\ Engaged /\ UNCHANGED <<status, child, cancel, landed, announced>>
    BY <1>3, Zenon DEF Gate, row, others, Engaged
  <2>2. CASE LeaveTo("publish")
    BY <2>1, <2>2, LeaveMoveSInv, Zenon
  <2>3. CASE child[ActiveOrdinal] = "RUNNING" /\ run' = [run EXCEPT !.pc = "send"] /\ UNCHANGED <<active, wire>>
    <3>1. run' = [pc |-> "send", at |-> run.at, of |-> run.of, pick |-> run.pick]
      BY <2>3, RunMoves, Zenon
    <3>2. ~landed
      BY <2>3, StruckVetoes, Zenon DEF SInv, Signalled, Shape
    <3>3. Wired'
      BY <2>1, <2>3, <3>1, <3>2 DEF SInv, Wired, Streaming, Followed, Queries, wire
    <3> QED BY <2>1, <3>1, <3>3, MoveSInv
  <2> QED BY <1>3, <2>2, <2>3, Zenon DEF Gate
<1>4. CASE Send
  <2>1. run.pc = "send" /\ Engaged /\ UNCHANGED <<status, child, cancel, landed, announced>>
    BY <1>4, Zenon DEF Send, row, others, Engaged
  <2>2. CASE LeaveTo("fail")
    BY <2>1, <2>2, LeaveMoveSInv, Zenon
  <2>3. CASE /\ stream' = Append(stream, "query") /\ active' = [active EXCEPT !.sent = TRUE]
             /\ run' = [run EXCEPT !.pc = "wait"]
    <3>1. run' = [pc |-> "wait", at |-> run.at, of |-> run.of, pick |-> run.pick]
      BY <2>3, RunMoves, Zenon
    <3>2. ~landed /\ active.registered /\ stream \in Seq(Message)
      BY <2>1, Zenon DEF SInv, Wired, Streaming
    <3>3. /\ active' \in [registered : BOOLEAN, canceled : BOOLEAN, sent : BOOLEAN]
          /\ active'.registered = active.registered /\ active'.sent = TRUE
      BY <2>3, Zenon DEF SInv, Wired
    <3>4. stream' \in Seq(Message)
      BY <2>3, <3>2 DEF Message
    <3>5. Wired'
      BY <2>1, <3>1, <3>2, <3>3, <3>4, Zenon DEF Wired, Streaming
    <3> QED BY <2>1, <3>1, <3>5, MoveSInv
  <2> QED BY <1>4, <2>2, <2>3, Zenon DEF Send
<1>5. CASE Answered
  <2>1. run.pc = "wait" /\ Engaged /\ UNCHANGED <<status, child, cancel, landed, announced>>
    BY <1>5, Zenon DEF Answered, row, others, Engaged
  <2>2. CASE LeaveTo("fail")
    BY <2>1, <2>2, LeaveMoveSInv, Zenon
  <2>3. CASE run' = [run EXCEPT !.pc = "save"] /\ UNCHANGED <<active, stream>>
    <3>1. run' = [pc |-> "save", at |-> run.at, of |-> run.of, pick |-> run.pick]
      BY <2>3, RunMoves, Zenon
    <3>2. Wired'
      BY <2>1, <2>3, <3>1 DEF SInv, Wired, Streaming, Followed, Queries
    <3> QED BY <2>1, <3>1, <3>2, MoveSInv
  <2> QED BY <1>5, <2>2, <2>3, Zenon DEF Answered
<1>6. CASE Save
  <2>1. run.pc = "save" /\ Engaged /\ UNCHANGED <<status, child, cancel, landed, announced>>
    BY <1>6, Zenon DEF Save, row, others, Engaged
  <2>2. CASE InState("RUNNING") = {}
    BY <1>6, <2>1, <2>2, LeaveMoveSInv, Zenon DEF Save
  <2>3. CASE InState("RUNNING") # {}
    <3>1. /\ run' = [pc |-> "commit", at |-> run.at, of |-> run.of, pick |-> Lowest(InState("RUNNING"))]
          /\ UNCHANGED <<active, stream>>
      BY <1>6, <2>3, RunMoves, Zenon DEF Save, wire
    <3>2. Lowest(InState("RUNNING")) \in Ordinal
      BY <2>3, LowestIn, Zenon DEF InState
    <3>3. Wired'
      BY <2>1, <3>1, Zenon DEF SInv, Wired, Streaming, Followed, Queries
    <3> QED BY <2>1, <3>1, <3>2, <3>3, MoveSInv, Zenon
  <2> QED BY <2>2, <2>3, Zenon
<1>7. CASE Fail
  <2>1. /\ run.pc = "fail" /\ Engaged
        /\ UNCHANGED <<status, child, cancel, active, stream, landed, announced>>
    BY <1>7, Zenon DEF Fail, row, others, wire, Engaged
  <2> DEFINE pc == IF InState("RUNNING") = {} THEN "publish" ELSE "failCommit"
             p == Lowest(InState("RUNNING"))
  <2>2. run' = [pc |-> pc, at |-> run.at, of |-> run.of, pick |-> p]
    BY <1>7, RunMoves, Zenon DEF Fail
  <2>3. pc \in {"publish", "failCommit"} /\ (pc = "failCommit" => p \in Ordinal)
    BY LowestIn, Zenon DEF InState
  <2> HIDE DEF pc, p
  <2>4. Wired'
    BY <2>1, <2>2, <2>3, Zenon DEF SInv, Wired, Streaming, Followed, Queries
  <2> QED BY <2>1, <2>2, <2>3, <2>4, MoveSInv, Zenon
<1>8. CASE Publish
  <2>1. /\ run' = [pc |-> "over", at |-> run.at, of |-> run.of, pick |-> run.pick]
        /\ run.pc = "publish" /\ announced' = announced \cup ({status} \cap Terminal)
        /\ UNCHANGED <<status, child, cancel, active, stream, landed>>
    BY <1>8, RunMoves, Zenon DEF Publish, row, others, wire
  <2>2. Fresh' = Fresh /\ Struck' = Struck
    BY <2>1, Zenon DEF Fresh, Struck, Cut
  <2>3. Shape' /\ Position'
    BY <2>1, Zenon DEF SInv, Shape, Position, Engaged
  <2>4. Stage'
    BY <2>1, <2>2, Zenon DEF SInv, Stage, Untouched, Engaged
  <2>5. Order' /\ Holds'
    BY <2>1, Zenon DEF SInv, Order, Holds
  <2>6. Signalled'
    BY <2>1, <2>2, Zenon DEF SInv, Signalled, AnnouncedAsEnded, Terminal
  <2>7. Wired'
    BY <2>1, Zenon DEF SInv, Wired, Streaming, Followed, Queries
  <2> QED BY <2>3, <2>4, <2>5, <2>6, <2>7, Zenon DEF SInv
<1> QED BY <1>1, <1>2, <1>3, <1>4, <1>5, <1>6, <1>7, <1>8, Zenon

\* The values a cancel's variable takes.
LEMMA CancelTypes ==
  /\ None \in Pick /\ Idle \in CancelRow /\ Idle.pc = "idle" /\ [Idle EXCEPT !.pc = "signal"] \in CancelRow
  /\ \A rest \in SUBSET Ordinal : /\ [pc |-> "running", row |-> None, rest |-> rest] \in CancelRow
                                   /\ [pc |-> "pending", row |-> None, rest |-> rest] \in CancelRow
<1>1. None \in Pick
  BY StatementBound DEF None, Pick
<1>2. {"idle", "running", "pending", "signal"} \subseteq CancelPc /\ {} \in SUBSET Ordinal
  BY Zenon DEF CancelPc
<1> QED BY <1>1, <1>2, Zenon DEF Idle, CancelRow

\* A cancel moves between its statements: it comes to hold only a row it found as it looked for it.
LEMMA CancelMoveSInv ==
  ASSUME SInv, NEW c \in Canceller, NEW to \in CancelRow, Moves(c, to),
         UNCHANGED <<status, child, run, active, stream, landed, announced>>,
         status \notin {"PENDING", "APPROVED"} \/ to.pc = "idle",
         to.pc # "signal",
         to.pc = "locked" => to.row \in Ordinal /\ child[to.row] \in {"PENDING", "RUNNING"}
  PROVE  SInv'
<1>1. cancel \in [Canceller -> CancelRow]
  BY Zenon DEF SInv, Shape, CancelRow
<1>2. cancel' \in [Canceller -> CancelRow] /\ \A d \in Canceller : cancel'[d] = IF d = c THEN to ELSE cancel[d]
  BY <1>1, Zenon DEF Moves
<1>3. Fresh' = Fresh /\ Struck' = Struck
  BY Zenon DEF Fresh, Struck, Cut
<1>4. Shape'
  BY <1>2, Zenon DEF SInv, Shape, CancelRow
<1>5. Stage' /\ Order'
  BY <1>3, Zenon DEF SInv, Stage, Untouched, Engaged, Order
<1>6. Position'
  BY Zenon DEF SInv, Position, Engaged
<1>7. Holds'
  BY <1>2, Zenon DEF SInv, Holds
<1>8. Signalled'
  BY <1>2, <1>3, Zenon DEF SInv, Signalled, AnnouncedAsEnded
<1>9. Wired'
  BY DEF SInv, Wired, Streaming, Followed, Queries
<1> QED BY <1>4, <1>5, <1>6, <1>7, <1>8, <1>9 DEF SInv

\* The two SELECT ... FOR UPDATE of cancelRun.
LEMMA CancelSelectSInv ==
  ASSUME SInv, NEW c \in Canceller, CancelRunning(c) \/ CancelSelect(c)
  PROVE  SInv'
<1>1. UNCHANGED <<status, child, run, active, stream, landed, announced>>
  BY Zenon DEF CancelRunning, CancelSelect, row, control, wire
<1>2. \A s : InState(s) \in SUBSET Ordinal
  BY Zenon DEF InState
<1>3. cancel[c] \in CancelRow /\ (cancel[c].pc # "idle" => status \notin {"PENDING", "APPROVED"})
  BY Zenon DEF SInv, Shape, CancelRow, Holds
<1>4. CASE CancelRunning(c)
  <2> DEFINE to == [pc |-> "running", row |-> None, rest |-> InState("RUNNING")]
  <2>1. to \in CancelRow /\ to.pc = "running"
    BY <1>2, CancelTypes, Zenon
  <2>2. Moves(c, to) /\ status = "EXECUTING"
    BY <1>4, Zenon DEF CancelRunning
  <2> HIDE DEF to
  <2> QED BY <1>1, <2>1, <2>2, CancelMoveSInv, Zenon
<1>5. ASSUME NEW pc \in {"running", "pending"}, NEW s \in {"RUNNING", "PENDING"}, CancelLock(c, pc, s)
      PROVE  SInv'
  <2> DEFINE i == Lowest(cancel[c].rest)
             to == IF child[i] = s THEN [pc |-> "locked", row |-> i, rest |-> {}]
                                   ELSE [cancel[c] EXCEPT !.rest = @ \ {i}]
  <2>1. Moves(c, to) /\ cancel[c].pc = pc /\ cancel[c].rest # {}
    BY <1>5, Zenon DEF CancelLock
  <2>2. cancel[c].rest \in SUBSET Ordinal
    BY <1>3, Zenon DEF CancelRow
  <2>3. i \in Ordinal
    BY <2>1, <2>2, LowestIn, Zenon
  <2>4. i \in Pick
    BY <2>3 DEF Ordinal, Pick
  <2> HIDE DEF i
  <2>5. CASE child[i] = s
    <3>1. to \in CancelRow /\ to.pc = "locked" /\ to.row = i
      BY <2>4, <2>5, Zenon DEF CancelRow, CancelPc
    <3> HIDE DEF to
    <3> QED BY <1>1, <1>3, <1>5, <2>1, <2>3, <2>5, <3>1, CancelMoveSInv
  <2>6. CASE child[i] # s
    <3>1. to \in CancelRow /\ to.pc = pc
      BY <1>3, <2>1, <2>6, Zenon DEF CancelRow
    <3> HIDE DEF to
    <3> QED BY <1>1, <1>3, <1>5, <2>1, <3>1, CancelMoveSInv
  <2> QED BY <2>5, <2>6, Zenon
<1>6. CASE CancelPending(c)
  <2> DEFINE to == [pc |-> "pending", row |-> None, rest |-> InState("PENDING")]
  <2>1. to \in CancelRow /\ to.pc = "pending"
    BY <1>2, CancelTypes, Zenon
  <2>2. Moves(c, to) /\ cancel[c].pc = "running"
    BY <1>6, Zenon DEF CancelPending
  <2> HIDE DEF to
  <2> QED BY <1>1, <1>3, <2>1, <2>2, CancelMoveSInv
<1>7. CASE CancelMisses(c)
  <2>1. Idle \in CancelRow /\ Idle.pc = "idle"
    BY CancelTypes, Zenon
  <2> QED BY <1>1, <1>7, <2>1, CancelMoveSInv, Zenon DEF CancelMisses
<1> QED BY <1>4, <1>5, <1>6, <1>7, Zenon DEF CancelSelect

\* cancelRun's commit strikes the row it holds and skips everything after it.
LEMMA CancelCommitSInv ==
  ASSUME IInv, SInv, NEW c \in Canceller, CancelCommit(c)
  PROVE  SInv'
<1>1. /\ cancel[c].pc = "locked" /\ UNCHANGED <<run, active, stream, landed, announced>>
      /\ cancel \in [Canceller -> CancelRow]
  BY Zenon DEF CancelCommit, control, wire, SInv, Shape, CancelRow
<1>2. CASE status # "EXECUTING"
  <2>1. Idle \in CancelRow /\ Idle.pc = "idle"
    BY CancelTypes, Zenon
  <2>2. Moves(c, Idle) /\ UNCHANGED <<status, child>>
    BY <1>2, Zenon DEF CancelCommit
  <2> QED BY <1>1, <2>1, <2>2, CancelMoveSInv, Zenon
<1>3. CASE status = "EXECUTING"
  <2>1. PICK r \in Ordinal : r = cancel[c].row /\ child[r] \in {"PENDING", "RUNNING"}
    BY <1>1, <1>3, Zenon DEF SInv, Holds
  <2>2. child \in [Ordinal -> ChildStatus] /\ Order /\ Position /\ Stage
    BY Zenon DEF SInv, Shape
  <2>3. child' = Skipped([child EXCEPT ![r] = "CANCELLED"]) /\ status' = "CANCELLED"
    BY <1>3, <2>1, Zenon DEF CancelCommit
  <2>4. Moves(c, [Idle EXCEPT !.pc = "signal"])
    BY <1>3, Zenon DEF CancelCommit
  <2>5. cancel' \in [Canceller -> CancelRow]
    BY <1>1, <2>4, CancelTypes, Zenon DEF Moves
  <2>6. \A i \in Ordinal : child'[i] = IF i = r THEN "CANCELLED"
                                       ELSE IF child[i] = "PENDING" THEN "SKIPPED" ELSE child[i]
    BY <2>2, <2>3, Zenon DEF Skipped
  <2>7. child' \in [Ordinal -> ChildStatus]
    <3>1. \A i \in Ordinal : child'[i] \in ChildStatus
      BY <2>2, <2>6, Zenon DEF ChildStatus
    <3> QED BY <2>3, <3>1, Zenon DEF Skipped
  <2>8. Order'
    <3>1. \A i \in Ordinal : /\ child'[i] # "PENDING"
                             /\ \/ child'[i] = child[i]
                                \/ /\ child[i] \in {"PENDING", "RUNNING"}
                                   /\ child'[i] \in {"FAILED", "CANCELLED", "SKIPPED"}
      BY <2>1, <2>6, Zenon
    <3> QED BY <2>2, <3>1, EndedOrder, Zenon
  <2>9. Cut(r)'
    <3>1. \A i \in Ordinal : i > r => child[i] \in {"ABSENT", "PENDING"}
      BY <1>3, <2>1, <2>2, Zenon DEF Stage, Order, Ordinal
    <3> QED BY <2>6, <3>1 DEF Cut, Ordinal
  <2>10. Struck'
    BY <2>9, Zenon DEF Struck
  <2>11. status' = "CANCELLED" /\ landed' = FALSE /\ announced' = {}
    BY <1>1, <1>3, <2>3, NothingYet, Zenon
  <2>12. Shape'
    BY <1>1, <2>5, <2>7, <2>11, Zenon DEF SInv, Shape, CancelRow, Status
  <2>13. Stage'
    BY <2>6, <2>10, <2>11, Zenon DEF Stage
  <2>14. Position'
    BY <1>1, <2>1, <2>2, <2>6 DEF Position, Engaged
  <2>15. Holds'
    BY <2>11, Zenon DEF Holds
  <2>16. Signalled'
    BY <2>10, <2>11, Zenon DEF Signalled, AnnouncedAsEnded
  <2>17. Wired'
    BY <1>1, Zenon DEF SInv, Wired, Streaming, Followed, Queries
  <2> QED BY <2>8, <2>12, <2>13, <2>14, <2>15, <2>16, <2>17 DEF SInv
<1> QED BY <1>2, <1>3, Zenon

\* cancelActiveRun leaves a cancel behind every query on its way.
LEMMA SignalSInv ==
  ASSUME SInv, SignalActiveRun
  PROVE  /\ active' \in [registered : BOOLEAN, canceled : BOOLEAN, sent : BOOLEAN]
         /\ active'.registered = active.registered
         /\ stream' \in Seq(Message) /\ Followed'
<1>1. /\ active \in [registered : BOOLEAN, canceled : BOOLEAN, sent : BOOLEAN]
      /\ stream \in Seq(Message) /\ (~(active.registered /\ active.sent) => Followed)
  BY Zenon DEF SInv, Wired
<1>2. CASE active.registered /\ active.sent
  BY <1>1, <1>2, AppendFollowed, Zenon DEF SignalActiveRun
<1>3. CASE ~(active.registered /\ active.sent)
  <2>1. stream' = stream
    BY <1>3, Zenon DEF SignalActiveRun
  <2>2. Followed'
    BY <1>1, <1>3, <2>1, Zenon DEF Followed, Queries
  <2> QED BY <1>1, <2>1, <2>2, Zenon DEF SignalActiveRun
<1> QED BY <1>2, <1>3, Zenon

\* The signal of a committed cancel.
LEMMA CancelSignalSInv ==
  ASSUME SInv, NEW c \in Canceller, CancelSignal(c)
  PROVE  SInv'
<1>1. /\ cancel[c].pc = "signal" /\ run.pc # "send" /\ SignalActiveRun /\ Moves(c, Idle)
      /\ landed' = TRUE /\ announced' = announced \cup {"CANCELLED"}
      /\ UNCHANGED <<status, child, run>>
  BY Zenon DEF CancelSignal, GateFree, row
<1>2. cancel \in [Canceller -> CancelRow]
  BY Zenon DEF SInv, Shape, CancelRow
<1>3. cancel' \in [Canceller -> CancelRow] /\ \A d \in Canceller : cancel'[d] = IF d = c THEN Idle ELSE cancel[d]
  BY <1>1, <1>2, CancelTypes, Zenon DEF Moves
<1>4. Fresh' = Fresh /\ Struck' = Struck
  BY <1>1, Zenon DEF Fresh, Struck, Cut
<1>5. Struck /\ status \in {"CANCELLED", "GONE"}
  BY <1>1, Zenon DEF SInv, Signalled
<1>6. Shape'
  BY <1>1, <1>3, Zenon DEF SInv, Shape, CancelRow
<1>7. Stage' /\ Order'
  BY <1>1, <1>4, Zenon DEF SInv, Stage, Untouched, Engaged, Order
<1>8. Position'
  BY <1>1, Zenon DEF SInv, Position, Engaged
<1>9. Holds'
  BY <1>1, <1>5, Zenon DEF Holds
<1>10. Signalled'
  BY <1>1, <1>4, <1>5, Zenon DEF SInv, Signalled, AnnouncedAsEnded, Terminal
<1>11. Wired'
  BY <1>1, SignalSInv, Zenon DEF SInv, Wired, Streaming
<1> QED BY <1>6, <1>7, <1>8, <1>9, <1>10, <1>11 DEF SInv

\* The rows of a deleted task go together, and no cancel holds one.
LEMMA DeleteSInv ==
  ASSUME SInv, DeleteSignal \/ DeleteRows \/ DeleteTask
  PROVE  SInv'
<1>1. CASE DeleteSignal
  <2>1. /\ run.pc # "send" /\ UNCHANGED <<status, child, run, cancel, landed, announced>>
        /\ SignalActiveRun \/ UNCHANGED <<active, stream>>
    BY <1>1, Zenon DEF DeleteSignal, GateFree, row
  <2>2. Wired'
    <3>1. CASE SignalActiveRun
      BY <2>1, <3>1, SignalSInv, Zenon DEF SInv, Wired, Streaming
    <3>2. CASE UNCHANGED <<active, stream>>
      BY <2>1, <3>2, Zenon DEF SInv, Wired, Streaming, Followed, Queries
    <3> QED BY <2>1, <3>1, <3>2, Zenon
  <2>3. Stage' /\ Order' /\ Holds' /\ Signalled'
    BY <2>1, RowsKept, Zenon DEF Engaged
  <2>4. Shape' /\ Position'
    BY <2>1, Zenon DEF SInv, Shape, Position, Engaged
  <2> QED BY <2>2, <2>3, <2>4, Zenon DEF SInv
<1>2. CASE DeleteRows \/ DeleteTask
  <2>1. /\ UNCHANGED <<run, cancel, active, stream, landed, announced>>
        /\ status' = status \/ status' = "GONE"
        /\ child' = [i \in Ordinal |-> "ABSENT"] /\ \A i \in Ordinal : ~Locked(i)
    BY <1>2, Zenon DEF DeleteRows, DeleteTask, control, wire
  <2>2. child' \in [Ordinal -> ChildStatus] /\ \A i \in Ordinal : child'[i] = "ABSENT"
    BY <2>1, Zenon DEF ChildStatus
  <2>3. Fresh' /\ Struck'
    BY <2>2, Zenon DEF Fresh, Struck
  <2>4. Shape'
    BY <2>1, <2>2, Zenon DEF SInv, Shape, Status
  <2>5. Stage'
    BY <2>1, <2>2, <2>3, Zenon DEF SInv, Stage, Untouched, Engaged
  <2>6. Order'
    BY <2>2, Zenon DEF Order
  <2>7. Position'
    BY <2>1, <2>2, Zenon DEF SInv, Position, Engaged
  <2>8. Holds'
    BY <2>1, Zenon DEF SInv, Holds, Locked
  <2>9. Signalled'
    BY <2>1, <2>3, Zenon DEF SInv, Signalled, AnnouncedAsEnded
  <2>10. Wired'
    BY <2>1, Zenon DEF SInv, Wired, Streaming, Followed, Queries
  <2> QED BY <2>4, <2>5, <2>6, <2>7, <2>8, <2>9, <2>10, Zenon DEF SInv
<1> QED BY <1>1, <1>2, Zenon

\* A crash leaves the rows and drops everything else.
LEMMA CrashSInv ==
  ASSUME SInv, Crash
  PROVE  SInv'
<1>1. /\ run' = [pc |-> "over", at |-> 0, of |-> 0, pick |-> None]
      /\ active' = NoRun /\ cancel' = [c \in Canceller |-> Idle] /\ stream' = <<"close">>
      /\ UNCHANGED <<status, child, landed, announced>>
  BY Zenon DEF Crash, row
<1>2. Fresh' = Fresh /\ Struck' = Struck
  BY <1>1, Zenon DEF Fresh, Struck, Cut
<1>3. cancel' \in [Canceller -> CancelRow] /\ \A c \in Canceller : cancel'[c].pc = "idle"
  BY <1>1, CancelTypes, Zenon
<1>4. Shape'
  BY <1>1, <1>3, StatementBound DEF SInv, Shape, CancelRow, Pick
<1>5. Stage' /\ Order'
  BY <1>1, <1>2, Zenon DEF SInv, Stage, Untouched, Engaged, Order
<1>6. Position'
  BY <1>1, Zenon DEF Position, Engaged, OnStatement
<1>7. Holds'
  BY <1>3, Zenon DEF Holds
<1>8. Signalled'
  BY <1>1, <1>2, <1>3, Zenon DEF SInv, Signalled, AnnouncedAsEnded
<1>9. stream' \in Seq(Message) /\ Followed'
  BY <1>1 DEF Message, Followed, Queries
<1>10. Wired'
  BY <1>1, <1>9, Zenon DEF Wired, Streaming, NoRun
<1> QED BY <1>4, <1>5, <1>6, <1>7, <1>8, <1>10, Zenon DEF SInv

\* What reconcileOrphanedExecutions makes of the rows.
LEMMA OrphansEnd ==
  ASSUME child \in [Ordinal -> ChildStatus], child' = OrphanedChildren
  PROVE  /\ child' \in [Ordinal -> ChildStatus]
         /\ \A i \in Ordinal : /\ child'[i] # "RUNNING"
                               /\ \/ child'[i] = child[i]
                                  \/ /\ child[i] \in {"PENDING", "RUNNING"}
                                     /\ child'[i] \in {"FAILED", "CANCELLED", "SKIPPED"}
         /\ status \in {"EXECUTING", "FAILED"} =>
              /\ \A i \in Ordinal : child'[i] # "PENDING"
              /\ (\E i \in Ordinal : child[i] \in {"PENDING", "RUNNING", "FAILED"}) =>
                   \E i \in Ordinal : child'[i] = "FAILED"
         /\ status \notin {"EXECUTING", "FAILED"} =>
              \A i \in Ordinal : child'[i] = IF child[i] = "RUNNING" THEN "FAILED" ELSE child[i]
<1> DEFINE running == [i \in Ordinal |-> IF child[i] = "RUNNING" THEN "FAILED" ELSE child[i]]
           next == {i \in Ordinal : running[i] = "PENDING"}
           spared == \A i \in Ordinal : running[i] # "FAILED"
           b == Lowest(next)
           blamed == IF spared /\ next # {} THEN [running EXCEPT ![b] = "FAILED"] ELSE running
<1>1. child' = IF status \in {"EXECUTING", "FAILED"} THEN Skipped(blamed) ELSE running
  BY Zenon DEF OrphanedChildren
<1>2. \A i \in Ordinal : running[i] = IF child[i] = "RUNNING" THEN "FAILED" ELSE child[i]
  OBVIOUS
<1>3. running \in [Ordinal -> ChildStatus]
  BY Zenon DEF ChildStatus
<1>4. next # {} => b \in Ordinal /\ running[b] = "PENDING"
  <2>1. next \subseteq Ordinal
    OBVIOUS
  <2>2. next # {} => b \in next
    BY <2>1, LowestIn, Zenon
  <2> QED BY <2>2, Zenon
<1>5. \A i \in Ordinal : running[i] = "PENDING" => next # {}
  OBVIOUS
<1> HIDE DEF running, next, b
<1>6. CASE status \notin {"EXECUTING", "FAILED"}
  <2>1. child' = running
    BY <1>1, <1>6, Zenon
  <2> QED BY <1>2, <1>3, <1>6, <2>1, Zenon
<1>7. CASE status \in {"EXECUTING", "FAILED"} /\ spared /\ next # {}
  <2>1. child' = Skipped([running EXCEPT ![b] = "FAILED"])
    BY <1>1, <1>7, Zenon
  <2>2. \A i \in Ordinal : child'[i] = IF i = b THEN "FAILED"
                                       ELSE IF running[i] = "PENDING" THEN "SKIPPED" ELSE running[i]
    BY <1>3, <1>4, <1>7, <2>1, Zenon DEF Skipped
  <2>3. child' \in [Ordinal -> ChildStatus]
    <3>1. \A i \in Ordinal : child'[i] \in ChildStatus
      BY <1>3, <2>2, Zenon DEF ChildStatus
    <3> QED BY <2>1, <3>1, Zenon DEF Skipped
  <2>4. b \in Ordinal /\ running[b] = "PENDING"
    BY <1>4, <1>7, Zenon
  <2> HIDE DEF spared
  <2> QED BY <1>2, <1>7, <2>2, <2>3, <2>4, Zenon
<1>8. CASE status \in {"EXECUTING", "FAILED"} /\ ~(spared /\ next # {})
  <2>1. child' = Skipped(running)
    BY <1>1, <1>8, Zenon
  <2>2. \A i \in Ordinal : child'[i] = IF running[i] = "PENDING" THEN "SKIPPED" ELSE running[i]
    BY <2>1, Zenon DEF Skipped
  <2>3. child' \in [Ordinal -> ChildStatus]
    <3>1. \A i \in Ordinal : child'[i] \in ChildStatus
      BY <1>3, <2>2, Zenon DEF ChildStatus
    <3> QED BY <2>1, <3>1, Zenon DEF Skipped
  <2>4. ASSUME NEW i \in Ordinal, child[i] \in {"PENDING", "RUNNING", "FAILED"}
        PROVE  \E k \in Ordinal : child'[k] = "FAILED"
    <3>1. CASE child[i] = "PENDING"
      <4>1. ~spared
        BY <1>2, <1>5, <1>8, <3>1
      <4> QED BY <2>2, <4>1, Zenon
    <3>2. CASE child[i] # "PENDING"
      <4>1. child'[i] = "FAILED"
        BY <1>2, <2>2, <2>4, <3>2
      <4> QED BY <4>1, Zenon
    <3> QED BY <3>1, <3>2, Zenon
  <2> HIDE DEF spared
  <2>5. \A i \in Ordinal : /\ child'[i] # "RUNNING" /\ child'[i] # "PENDING"
                           /\ \/ child'[i] = child[i]
                              \/ /\ child[i] \in {"PENDING", "RUNNING"}
                                 /\ child'[i] \in {"FAILED", "CANCELLED", "SKIPPED"}
    BY <1>2, <2>2, Zenon
  <2> QED BY <1>8, <2>3, <2>4, <2>5
<1> QED BY <1>6, <1>7, <1>8, Zenon

\* A boot, of the next process or of one rolling in beside this one.
LEMMA ReconcileSInv ==
  ASSUME IInv, SInv, Reconcile, UNCHANGED <<cancel, active, stream, landed, announced>>,
         \/ run' = run
         \/ run' = [run EXCEPT !.pc = "off"] /\ status \in {"PENDING", "APPROVED"}
  PROVE  SInv'
<1>1. /\ child' = OrphanedChildren /\ \A i \in Ordinal : ~Locked(i)
      /\ status' = IF status = "EXECUTING" THEN "FAILED" ELSE status
  BY Zenon DEF Reconcile
<1>2. child \in [Ordinal -> ChildStatus] /\ Order /\ Position /\ Stage /\ Holds /\ Signalled /\ status \in Status
  BY Zenon DEF SInv, Shape
<1>3. \/ run' = run
      \/ /\ run' = [pc |-> "off", at |-> run.at, of |-> run.of, pick |-> run.pick]
         /\ status \in {"PENDING", "APPROVED"} /\ ~Engaged
  BY RunMoves, Zenon DEF IInv, Approved
<1>4. Engaged' => Engaged
  BY <1>3, Zenon DEF Engaged
<1>5. Wired'
  BY <1>3 DEF SInv, Wired, Streaming, Followed, Queries, Engaged
<1> DEFINE Ended(i) == /\ child[i] \in {"PENDING", "RUNNING"}
                       /\ child'[i] \in {"FAILED", "CANCELLED", "SKIPPED"}
<1>6. /\ child' \in [Ordinal -> ChildStatus]
      /\ \A i \in Ordinal : child'[i] # "RUNNING" /\ (child'[i] = child[i] \/ Ended(i))
      /\ status \in {"EXECUTING", "FAILED"} =>
           /\ \A i \in Ordinal : child'[i] # "PENDING"
           /\ (\E i \in Ordinal : child[i] \in {"PENDING", "RUNNING", "FAILED"}) =>
                \E i \in Ordinal : child'[i] = "FAILED"
      /\ status \notin {"EXECUTING", "FAILED"} =>
           \A i \in Ordinal : child'[i] = IF child[i] = "RUNNING" THEN "FAILED" ELSE child[i]
  BY <1>1, <1>2, OrphansEnd, Zenon
<1>7. Struck => Struck'
  BY <1>6, StruckKept, Zenon
<1>8. ASSUME status \notin {"EXECUTING", "FAILED"}, \A i \in Ordinal : child[i] # "RUNNING"
      PROVE  child' = child
  BY <1>2, <1>6, <1>8
<1>9. Fresh => \A i \in Ordinal : child[i] # "RUNNING"
  BY Zenon DEF Fresh, FreshChildren
<1>10. Shape'
  BY <1>1, <1>3, <1>6, Zenon DEF SInv, Shape, Status
<1>11. Stage'
  <2>1. CASE status \in {"EXECUTING", "FAILED"}
    BY <1>1, <1>2, <1>6, <2>1 DEF Stage
  <2>2. CASE status \notin {"EXECUTING", "FAILED"} /\ child' = child
    <3>1. Fresh' = Fresh /\ Struck' = Struck
      BY <2>2, Zenon DEF Fresh, Struck, Cut
    <3> QED BY <1>1, <1>2, <1>4, <2>2, <3>1 DEF Stage, Untouched
  <2>3. CASE status \notin {"EXECUTING", "FAILED"} /\ child' # child
    <3>1. status = "CANCELLED" /\ Struck /\ \A i \in Ordinal : child[i] # "PENDING"
      BY <1>2, <1>8, <1>9, <2>3, Zenon DEF Stage, Untouched, Status
    <3> QED BY <1>1, <1>6, <1>7, <3>1, Zenon DEF Stage
  <2> QED BY <2>1, <2>2, <2>3, Zenon
<1>12. Order'
  <2>1. CASE \A i \in Ordinal : child'[i] # "PENDING"
    BY <1>2, <1>6, <2>1, EndedOrder, Zenon
  <2>2. CASE child' = child
    BY <1>2, <2>2, Zenon DEF Order
  <2>3. CASE child' # child /\ status \notin {"EXECUTING", "FAILED"}
    <3>1. \A i \in Ordinal : child[i] # "PENDING"
      BY <1>2, <1>8, <1>9, <2>3, Zenon DEF Stage, Untouched, Status
    <3> QED BY <1>6, <2>1, <2>3, <3>1, Zenon
  <2> QED BY <1>6, <2>1, <2>2, <2>3, Zenon
<1>13. Position'
  BY <1>2, <1>3, <1>6 DEF Position, Engaged, OnStatement
<1>14. Holds'
  BY <1>1, <1>2, Zenon DEF Holds
<1>15. Signalled'
  BY <1>1, <1>2, <1>7, NothingYet, Zenon DEF Signalled, AnnouncedAsEnded
<1> QED BY <1>5, <1>10, <1>11, <1>12, <1>13, <1>14, <1>15 DEF SInv

LEMMA InitSInv == Init => SInv
<1> SUFFICES ASSUME Init PROVE SInv
  OBVIOUS
<1>1. PICK n \in Ordinal : child = FreshChildren(n)
  BY Zenon DEF Init
<1>2. child \in [Ordinal -> ChildStatus] /\ Fresh
  BY <1>1, Zenon DEF FreshChildren, ChildStatus, Fresh
<1>3. status \in {"PENDING", "APPROVED"} /\ run.pc \in {"off", "claim"} /\ run.of = 0
  BY Zenon DEF Init
<1>4. cancel \in [Canceller -> CancelRow] /\ \A c \in Canceller : cancel[c].pc = "idle"
  BY CancelTypes, Zenon DEF Init
<1>5. Shape
  BY <1>2, <1>3, <1>4, StatementBound DEF Shape, CancelRow, Status, Pick
<1>6. Stage
  BY <1>2, <1>3, Zenon DEF Stage, Untouched, Engaged
<1>7. Order
  BY <1>1 DEF Order, FreshChildren, Ordinal
<1>8. Position
  BY <1>3, Zenon DEF Position, Engaged, OnStatement
<1>9. Holds
  BY <1>3, <1>4, Zenon DEF Holds
<1>10. Signalled
  BY <1>4, Zenon DEF Init, Signalled, AnnouncedAsEnded
<1>11. stream \in Seq(Message) /\ Followed /\ active = NoRun /\ landed = FALSE
  BY DEF Init, Followed, Queries
<1>12. Wired
  BY <1>3, <1>11, Zenon DEF Wired, Streaming, NoRun
<1> QED BY <1>5, <1>6, <1>7, <1>8, <1>9, <1>10, <1>12, Zenon DEF SInv

\* Every step preserves the invariant.
LEMMA StepSInv == IInv /\ SInv /\ [Next]_vars => SInv'
<1> SUFFICES ASSUME IInv, SInv, [Next]_vars PROVE SInv'
  OBVIOUS
<1>1. ASSUME NEW a \in Approver, View(a) PROVE SInv'
  BY <1>1, SameSInv, Zenon DEF View, row, control, others, wire
<1>2. ASSUME NEW a \in Approver, Approve(a) PROVE SInv'
  BY <1>2, DecideSInv, Zenon DEF Approve, control, others, wire
<1>3. ASSUME NEW s \in {"REJECTED", "CANCELLED"}, Refuse(s) PROVE SInv'
  BY <1>3, DecideSInv, Zenon DEF Refuse, control, others, wire
<1>4. CASE Unapprove
  BY <1>4, DecideSInv, Zenon DEF Unapprove, Reopened, control, others, wire
<1>5. ASSUME NEW n \in Ordinal, Edit(n) PROVE SInv'
  BY <1>5, DecideSInv, Zenon DEF Edit, control, others, wire
<1>6. CASE Age \/ ExpireSelect
  BY <1>6, SameSInv, Zenon DEF Age, ExpireSelect, row, control, others, wire
<1>7. CASE ExpireReopen
  <2>1. UNCHANGED <<run, cancel, active, stream, landed, announced>>
    BY <1>7, Zenon DEF ExpireReopen, control, others, wire
  <2>2. CASE status = "APPROVED"
    BY <1>7, <2>1, <2>2, DecideSInv, Zenon DEF ExpireReopen, Reopened
  <2>3. CASE status # "APPROVED"
    BY <1>7, <2>1, <2>3, SameSInv, Zenon DEF ExpireReopen, row
  <2> QED BY <2>2, <2>3, Zenon
<1>8. CASE RunStep
  BY <1>8, ExecuteSInv, StartNextSInv, FlipSInv, CommitSInv, FailCommitSInv, RunSInv, Zenon DEF RunStep
<1>9. CASE ProxyReceive
  <2>1. /\ UNCHANGED <<status, child, run, cancel, active, landed, announced>>
        /\ stream # <<>> /\ stream' = Tail(stream)
    BY <1>9, Zenon DEF ProxyReceive, row, control, others
  <2>2. Stage' /\ Order' /\ Holds' /\ Signalled'
    BY <2>1, RowsKept, Zenon DEF Engaged
  <2>3. Shape' /\ Position'
    BY <2>1, Zenon DEF SInv, Shape, Position, Engaged
  <2>4. stream \in Seq(Message)
    BY Zenon DEF SInv, Wired
  <2>5. stream' \in Seq(Message) /\ (Followed => Followed')
    BY <2>1, <2>4, TailFollowed
  <2>6. Wired'
    BY <2>1, <2>5, Zenon DEF SInv, Wired, Streaming
  <2> QED BY <2>2, <2>3, <2>6, Zenon DEF SInv
<1>10. CASE ProxyDecide \/ ProxyAnswer \/ ProxyReport \/ ProxyDrain
  BY <1>10, SameSInv, Zenon DEF ProxyDecide, ProxyAnswer, ProxyReport, ProxyDrain, row, control, others
<1>11. CASE CancelStep
  BY <1>11, CancelSelectSInv, CancelCommitSInv, CancelSignalSInv, Zenon DEF CancelStep
<1>12. CASE DeleteSignal \/ DeleteRows \/ DeleteTask
  BY <1>12, DeleteSInv, Zenon
<1>13. CASE Crash
  BY <1>13, CrashSInv, Zenon
<1>14. CASE Boot
  <2>1. /\ Reconcile /\ UNCHANGED <<cancel, active, stream, landed, announced>>
        /\ \/ run' = run
           \/ run' = [run EXCEPT !.pc = "off"] /\ status \in {"PENDING", "APPROVED"}
    BY <1>14, Zenon DEF Boot, others, wire
  <2> QED BY <2>1, ReconcileSInv, Zenon
<1>15. CASE RollingBoot
  <2>1. Reconcile /\ UNCHANGED <<run, cancel, active, stream, landed, announced>>
    BY <1>15, Zenon DEF RollingBoot, control, others, wire
  <2> QED BY <2>1, ReconcileSInv, Zenon
<1>16. CASE UNCHANGED vars
  BY <1>16, SameSInv, Zenon DEF vars
<1> QED
  BY <1>1, <1>2, <1>3, <1>4, <1>5, <1>6, <1>7, <1>8, <1>9, <1>10, <1>11, <1>12, <1>13, <1>14, <1>15, <1>16, Zenon
  DEF Next

\* The invariant that ties the task row, its statements, the run, the cancels and the stream together
\* holds in every reachable state.
THEOREM SettlementInvariant == Spec => []SInv
<1>1. Init => SInv
  BY InitSInv, Zenon
<1>2. IInv /\ SInv /\ [Next]_vars => SInv'
  BY StepSInv, Zenon
<1> QED BY <1>1, <1>2, TaskInvariant, PTL DEF Spec

\* pendingChild and the compare-and-sets: a batch executes in the order written, for any number of
\* statements, cancels, crashes and rolling restarts.
THEOREM StatementsRunInOrder == Spec => []RunsInOrder
<1>1. SInv => RunsInOrder
  <2> SUFFICES ASSUME SInv, NEW i \in Ordinal, child[i] \in {"RUNNING", "DONE"}, NEW j \in 1..(i - 1)
               PROVE  child[j] = "DONE"
    BY Zenon DEF RunsInOrder
  <2>1. j \in Ordinal /\ j < i
    BY StatementBound DEF Ordinal
  <2> QED BY <2>1, Zenon DEF SInv, Order
<1> QED BY <1>1, SettlementInvariant, PTL

\* sendEditorQuery and cancelActiveRun under the gate: once a cancel is acknowledged no query leaves,
\* and a cancel or a close follows the one on its way.
THEOREM CancelsFollow == Spec => []CancelFollowsQuery
<1>1. SInv => CancelFollowsQuery
  BY Zenon DEF SInv, Wired, Followed, CancelFollowsQuery
<1> QED BY <1>1, SettlementInvariant, PTL

\* markExecuted, markFailed, markCancelled and reconcileOrphanedExecutions: a settled task explains
\* itself by its statements.
THEOREM SettledTasksExplain == Spec => []SettledExplains
<1>1. ASSUME SInv PROVE SettledExplains
  <2>1. Stage
    BY <1>1, Zenon DEF SInv
  <2>2. status = "EXECUTED" => \A i \in Rows : child[i] = "DONE"
    BY <2>1, Zenon DEF Stage, Rows
  <2>3. status = "FAILED" => Rows = {} \/ InState("FAILED") # {}
    BY <2>1, Zenon DEF Stage, Rows, InState
  <2>4. ASSUME status \in Terminal, NEW i \in Rows, child[i] = "RUNNING"
        PROVE  \E j \in Rows : j > i /\ child[j] = "CANCELLED"
    <3>1. i \in Ordinal /\ status = "CANCELLED" /\ Struck
      BY <2>1, <2>4, Zenon DEF Stage, Rows, Terminal, Untouched, Fresh, FreshChildren
    <3>2. PICK j \in Ordinal : Cut(j)
      BY <2>4, <3>1, Zenon DEF Struck
    <3>3. j \in Rows /\ child[j] = "CANCELLED" /\ ~(i > j) /\ i # j
      BY <2>4, <3>1, <3>2, Zenon DEF Cut, Rows
    <3>4. j > i
      BY <3>1, <3>3 DEF Ordinal
    <3> QED BY <3>3, <3>4, Zenon
  <2>5. ASSUME status \in Terminal, NEW i \in Rows, child[i] = "PENDING"
        PROVE  InState("PENDING") = Rows
    <3>1. Fresh
      BY <2>1, <2>5, Zenon DEF Stage, Rows, Terminal, Untouched
    <3> QED BY <3>1, Zenon DEF Fresh, FreshChildren, InState, Rows
  <2> QED BY <2>2, <2>3, <2>4, <2>5, Zenon DEF SettledExplains
<1> QED BY <1>1, SettlementInvariant, PTL

\* The terminal state pushed to the watchers is the one the task ends in.
THEOREM AnnouncementsHold == Spec => []AnnouncedAsEnded
<1>1. SInv => AnnouncedAsEnded
  BY Zenon DEF SInv, Signalled
<1> QED BY <1>1, SettlementInvariant, PTL
=============================================================================
