------------------------------ MODULE QueryTask ------------------------------
(***************************************************************************)
(* One query task of the control plane, from its creation to its terminal  *)
(* state: the access_request row, its query_result children (one per       *)
(* statement of the batch), the coroutine that runs the batch over a       *)
(* proxy-dialed stream, and everyone who acts on the task meanwhile - the  *)
(* requester editing it, approvers, the approval-expiry sweep, cancels,    *)
(* the deletion of an editor task, a crash and the reconcile of the next   *)
(* boot.                                                                   *)
(*                                                                         *)
(* A database transaction is one step, except where it reads rows first    *)
(* and updates them later: QueryResultStore picks a child with one SELECT  *)
(* and moves it with a compare-and-set UPDATE, and READ COMMITTED lets     *)
(* other commits in between. A cancel's SELECT ... FOR UPDATE takes its    *)
(* candidates from the statement's snapshot and re-checks each one when it *)
(* gets the row lock, so it is several steps as well.                      *)
(***************************************************************************)
EXTENDS Integers, Sequences, FiniteSets, FiniteSetsExt

CONSTANTS Approver,         \* principals that may approve
          Canceller,        \* cancel requests that may be in progress at once
          MaxStatements,    \* statements of a batch
          MaxRevision,      \* bound: edits of the request
          MaxDecisions,     \* bound: approvals given
          MaxStops,         \* bound: crashes and rolling boots
          MaxFaults         \* bound: transactions that fail

ASSUME StatementBound == MaxStatements \in Nat \ {0}
ASSUME RevisionBound == MaxRevision \in Nat \ {0}
ASSUME OtherBounds == MaxDecisions \in Nat /\ MaxStops \in Nat /\ MaxFaults \in Nat

VARIABLES
  creator,    \* creator_kind of the row
  status,     \* its status; "GONE" once the row is deleted
  revision,   \* its revision
  aged,       \* approved_at is more than APPROVAL_TTL ago
  child,      \* status of the query_result row of each ordinal; "PENDING" is the SQL NULL
  seen,       \* the revision each approver has on screen, 0 for none
  expiring,   \* the expiry sweep holds the task's id from its SELECT
  run,        \* the run coroutine: pc, ordinal, and the child its last SELECT picked
  active,     \* the ActiveRun: registered, canceled, sent
  cancel,     \* each cancel request: pc, and the rows its FOR UPDATE has yet to lock
  deleting,   \* progress of an editor task's deletion
  up,         \* the control plane's process is alive
  stream,     \* messages to the proxy not yet received
  proxy,      \* the proxy's serve loop: pc, a query held for later, a close received
  answer,     \* its answer not yet received
  decisions, stops, faults,      \* counts under the bounds
  endorsed,   \* history: the revision the approver of the latest approval had read
  sentCount,  \* history: how often each statement of this revision was sent
  landed,     \* history: a cancel committed and its signal was given
  announced   \* history: terminal states pushed to the watchers

row == <<creator, status, revision, aged, child>>
people == <<seen, expiring, decisions, endorsed>>
wire == <<stream, proxy, answer>>
control == <<run, active>>
others == <<cancel, deleting, landed, announced>>
vars == <<creator, status, revision, aged, child, seen, expiring, run, active, cancel, deleting, up,
          stream, proxy, answer, decisions, stops, faults, endorsed, sentCount, landed, announced>>

Ordinal == 1..MaxStatements
None == 0
Pick == 0..MaxStatements
Status == {"PENDING", "APPROVED", "REJECTED", "EXECUTING", "EXECUTED", "FAILED", "CANCELLED", "GONE"}
Terminal == {"EXECUTED", "FAILED", "CANCELLED"}
ChildStatus == {"ABSENT", "PENDING", "RUNNING", "DONE", "FAILED", "CANCELLED", "SKIPPED"}
RunPc == {"off", "claim", "open", "start", "flip", "gate", "send", "wait", "save", "commit",
          "fail", "failCommit", "publish", "over"}

\* The rows of the task in one state; runningChild and pendingChild take the lowest of them.
InState(s) == {i \in Ordinal : child[i] = s}
Lowest(S) == IF S = {} THEN None ELSE Min(S)
Rows == {i \in Ordinal : child[i] # "ABSENT"}

\* insertStatements: one pending row per statement of the batch.
FreshChildren(n) == [i \in Ordinal |-> IF i <= n THEN "PENDING" ELSE "ABSENT"]

\* skipPendingChildren: the statements the batch never reached.
Skipped(ch) == [i \in Ordinal |-> IF ch[i] = "PENDING" THEN "SKIPPED" ELSE ch[i]]

\* meta(taskId): the furthest statement to have run, else the first; what the preflight reads.
ActiveOrdinal ==
  LET reached == {i \in Rows : child[i] \notin {"PENDING", "SKIPPED"}}
  IN IF reached = {} THEN 1 ELSE Max(reached)

\* A cancel transaction between its FOR UPDATE and its commit holds the row it picked.
Locked(i) == \E c \in Canceller : cancel[c].pc = "locked" /\ cancel[c].row = i
GateFree == run.pc # "send"

Idle == [pc |-> "idle", row |-> None, rest |-> {}]
Serving(pc) == [pc |-> pc, held |-> FALSE, closing |-> FALSE]
NoRun == [registered |-> FALSE, canceled |-> FALSE, sent |-> FALSE]

Init ==
  /\ creator \in {"WORKFLOW", "EDITOR"}
  /\ status = IF creator = "EDITOR" THEN "APPROVED" ELSE "PENDING"
  /\ revision = 1
  /\ aged = FALSE
  /\ \E n \in Ordinal : child = FreshChildren(n)
  /\ seen = [a \in Approver |-> 0]
  /\ expiring = FALSE
  /\ run = [pc |-> IF creator = "EDITOR" THEN "claim" ELSE "off", at |-> 0, of |-> 0, pick |-> None]
  /\ active = NoRun
  /\ cancel = [c \in Canceller |-> Idle]
  /\ deleting = "no"
  /\ up = TRUE
  /\ stream = <<>> /\ proxy = Serving("idle") /\ answer = "none"
  /\ decisions = 0 /\ stops = 0 /\ faults = 0
  /\ endorsed = IF creator = "EDITOR" THEN 1 ELSE 0
  /\ sentCount = [i \in Ordinal |-> 0]
  /\ landed = FALSE
  /\ announced = {}

-----------------------------------------------------------------------------
\* The request and its approval.

\* An approver opens the page of a request that can still be decided.
View(a) ==
  /\ up /\ creator = "WORKFLOW" /\ status \in {"PENDING", "APPROVED"} /\ seen[a] # revision
  /\ seen' = [seen EXCEPT ![a] = revision]
  /\ UNCHANGED <<row, control, others, wire, up, expiring, decisions, stops, faults, endorsed, sentCount>>

\* Without the revision check of approve.
ApproveUnread(a) ==
  /\ up /\ creator = "WORKFLOW" /\ decisions < MaxDecisions
  /\ status = "PENDING" /\ seen[a] # 0
  /\ status' = "APPROVED"
  /\ aged' = FALSE
  /\ decisions' = decisions + 1
  /\ endorsed' = seen[a]
  /\ UNCHANGED <<creator, revision, child, seen, expiring, control, others, wire, up, stops, faults, sentCount>>

\* approve: only the revision the approver read.
Approve(a) ==
  /\ up /\ creator = "WORKFLOW" /\ decisions < MaxDecisions
  /\ status = "PENDING" /\ revision = seen[a]
  /\ status' = "APPROVED"
  /\ aged' = FALSE
  /\ decisions' = decisions + 1
  /\ endorsed' = seen[a]
  /\ UNCHANGED <<creator, revision, child, seen, expiring, control, others, wire, up, stops, faults, sentCount>>

\* reject, and close: the same from a pending and from an approved request.
Refuse(s) ==
  /\ up /\ creator = "WORKFLOW" /\ s \in {"REJECTED", "CANCELLED"}
  /\ status \in {"PENDING", "APPROVED"}
  /\ status' = s
  /\ UNCHANGED <<creator, revision, aged, child, people, control, others, wire, up, stops, faults, sentCount>>

\* reopenQueryRequest: APPROVED to PENDING, whoever asks.
Reopened ==
  /\ status' = "PENDING"
  /\ aged' = FALSE
  /\ UNCHANGED <<creator, revision, child>>

\* unapprove.
Unapprove ==
  /\ up /\ creator = "WORKFLOW" /\ status = "APPROVED"
  /\ Reopened
  /\ UNCHANGED <<people, control, others, wire, up, stops, faults, sentCount>>

\* edit with other SQL: a new revision with new children, approval dropped.
Edit(n) ==
  /\ up /\ creator = "WORKFLOW" /\ revision < MaxRevision
  /\ status \in {"PENDING", "APPROVED"}
  /\ status' = "PENDING"
  /\ revision' = revision + 1
  /\ aged' = FALSE
  /\ child' = FreshChildren(n)
  /\ sentCount' = [i \in Ordinal |-> 0]
  /\ UNCHANGED <<creator, people, control, others, wire, up, stops, faults>>

\* APPROVAL_TTL passes.
Age ==
  /\ creator = "WORKFLOW" /\ status = "APPROVED" /\ ~aged
  /\ aged' = TRUE
  /\ UNCHANGED <<creator, status, revision, child, people, control, others, wire, up, stops, faults, sentCount>>

\* expireApprovals: the SELECT of expiredApprovals, then a reopen per id.
ExpireSelect ==
  /\ up /\ ~expiring /\ status = "APPROVED" /\ aged
  /\ expiring' = TRUE
  /\ UNCHANGED <<row, seen, decisions, endorsed, control, others, wire, up, stops, faults, sentCount>>

ExpireReopen ==
  /\ up /\ expiring
  /\ expiring' = FALSE
  /\ IF status = "APPROVED" THEN Reopened ELSE UNCHANGED row
  /\ UNCHANGED <<seen, decisions, endorsed, control, others, wire, up, stops, faults, sentCount>>

-----------------------------------------------------------------------------
\* The run.

\* execute, and the editor's start: claimAndStartRun moves the task and its first child together.
Execute ==
  /\ up /\ run.pc = IF creator = "EDITOR" THEN "claim" ELSE "off"
  /\ status = "APPROVED" /\ ~aged /\ InState("PENDING") # {}
  /\ status' = "EXECUTING"
  /\ child' = [child EXCEPT ![Lowest(InState("PENDING"))] = "RUNNING"]
  /\ run' = [pc |-> "open", at |-> 1, of |-> Cardinality(Rows), pick |-> None]
  /\ UNCHANGED <<creator, revision, aged, people, active, others, wire, up, stops, faults, sentCount>>

\* The task's first claim fails: the editor task was deleted before it.
ClaimLost ==
  /\ up /\ run.pc = "claim" /\ (status # "APPROVED" \/ InState("PENDING") = {})
  /\ run' = [run EXCEPT !.pc = "over"]
  /\ UNCHANGED <<row, people, active, others, wire, up, stops, faults, sentCount>>

\* Leaving the stream: the ActiveRun is unregistered, EditorClose sent and inbound closed.
LeaveTo(pc) ==
  /\ run' = [run EXCEPT !.pc = pc, !.pick = None]
  /\ active' = [active EXCEPT !.registered = FALSE]
  /\ stream' = Append(stream, "close") /\ answer' = "none"
  /\ UNCHANGED proxy

\* runBatch reaches EditorServing and registers the run, or fails before.
Open ==
  /\ up /\ run.pc = "open"
  /\ \/ /\ run' = [run EXCEPT !.pc = "gate"]
        /\ active' = [NoRun EXCEPT !.registered = TRUE]
        /\ UNCHANGED wire
     \/ LeaveTo("fail")
  /\ UNCHANGED <<row, people, others, up, stops, faults, sentCount>>

\* With the highest pending ordinal instead of the lowest.
StartNextHighest ==
  /\ up /\ run.pc = "start"
  /\ IF InState("PENDING") = {}
     THEN LeaveTo("publish")
     ELSE /\ run' = [run EXCEPT !.pc = "flip", !.pick = Max(InState("PENDING"))]
          /\ UNCHANGED <<active, wire>>
  /\ UNCHANGED <<row, people, others, up, stops, faults, sentCount>>

\* startNextRun: the SELECT of the lowest pending child, then its compare-and-set.
StartNext ==
  /\ up /\ run.pc = "start"
  /\ IF InState("PENDING") = {}
     THEN LeaveTo("publish")
     ELSE /\ run' = [run EXCEPT !.pc = "flip", !.pick = Lowest(InState("PENDING"))]
          /\ UNCHANGED <<active, wire>>
  /\ UNCHANGED <<row, people, others, up, stops, faults, sentCount>>

Flip ==
  /\ up /\ run.pc = "flip" /\ ~Locked(run.pick)
  /\ IF child[run.pick] = "PENDING"
     THEN /\ child' = [child EXCEPT ![run.pick] = "RUNNING"]
          /\ run' = [run EXCEPT !.pc = "gate", !.pick = None]
          /\ UNCHANGED <<active, wire>>
     ELSE LeaveTo("publish") /\ UNCHANGED child
  /\ UNCHANGED <<creator, status, revision, aged, people, others, up, stops, faults, sentCount>>

\* Without the preflight read of the row under the gate.
GateWithoutPreflight ==
  /\ up /\ run.pc = "gate"
  /\ IF ~active.canceled
     THEN run' = [run EXCEPT !.pc = "send"] /\ UNCHANGED <<active, wire>>
     ELSE LeaveTo("publish")
  /\ UNCHANGED <<row, people, others, up, stops, faults, sentCount>>

\* sendEditorQuery takes the gate: the preflight and a cancel that came first veto the send.
Gate ==
  /\ up /\ run.pc = "gate"
  /\ IF child[ActiveOrdinal] = "RUNNING" /\ ~active.canceled
     THEN run' = [run EXCEPT !.pc = "send"] /\ UNCHANGED <<active, wire>>
     ELSE LeaveTo("publish")
  /\ UNCHANGED <<row, people, others, up, stops, faults, sentCount>>

\* Still under the gate, the query leaves; or the stream is found closed.
Send ==
  /\ up /\ run.pc = "send"
  /\ \/ /\ stream' = Append(stream, "query")
        /\ active' = [active EXCEPT !.sent = TRUE]
        /\ run' = [run EXCEPT !.pc = "wait"]
        /\ sentCount' = [sentCount EXCEPT ![run.at] = @ + 1]
        /\ UNCHANGED <<proxy, answer>>
     \/ LeaveTo("fail") /\ UNCHANGED sentCount
  /\ UNCHANGED <<row, people, others, up, stops, faults>>

\* collectResponse: a denial, an error or the exchange timeout ends the batch.
Answered ==
  /\ up /\ run.pc = "wait"
  /\ \/ /\ answer = "ok"
        /\ run' = [run EXCEPT !.pc = "save"]
        /\ answer' = "none"
        /\ UNCHANGED <<active, stream, proxy>>
     \/ LeaveTo("fail")
  /\ UNCHANGED <<row, people, others, up, stops, faults, sentCount>>

\* completeRun: the SELECT of the running child.
Save ==
  /\ up /\ run.pc = "save"
  /\ IF InState("RUNNING") = {}
     THEN LeaveTo("fail")
     ELSE /\ run' = [run EXCEPT !.pc = "commit", !.pick = Lowest(InState("RUNNING"))]
          /\ UNCHANGED <<active, wire>>
  /\ UNCHANGED <<row, people, others, up, stops, faults, sentCount>>

\* The last statement of the batch this run set out with.
IsLast == run.at = run.of

\* Its compare-and-set commits, with markExecuted when the statement is the last one.
Commit ==
  /\ up /\ run.pc = "commit" /\ ~Locked(run.pick)
  /\ \/ /\ child[run.pick] = "RUNNING"
        /\ IsLast => status = "EXECUTING"
        /\ child' = [child EXCEPT ![run.pick] = "DONE"]
        /\ IF IsLast
           THEN status' = "EXECUTED" /\ LeaveTo("publish")
           ELSE /\ run' = [run EXCEPT !.pc = "start", !.at = @ + 1, !.pick = None]
                /\ UNCHANGED <<status, active, wire>>
        /\ UNCHANGED faults
     \/ /\ child[run.pick] # "RUNNING" \/ (IsLast /\ status # "EXECUTING")
        /\ LeaveTo("fail")
        /\ UNCHANGED <<status, child, faults>>
     \/ /\ faults < MaxFaults
        /\ faults' = faults + 1
        /\ LeaveTo("fail")
        /\ UNCHANGED <<status, child>>
  /\ UNCHANGED <<creator, revision, aged, people, others, up, stops, sentCount>>

\* failRun: the SELECT of the running child.
Fail ==
  /\ up /\ run.pc = "fail"
  /\ run' = [run EXCEPT !.pc = IF InState("RUNNING") = {} THEN "publish" ELSE "failCommit",
                        !.pick = Lowest(InState("RUNNING"))]
  /\ UNCHANGED <<row, people, active, others, wire, up, stops, faults, sentCount>>

\* With markFailed losing its compare-and-set on EXECUTING.
FailOverCancel ==
  /\ up /\ run.pc = "failCommit" /\ ~Locked(run.pick)
  /\ run' = [run EXCEPT !.pc = "publish", !.pick = None]
  /\ IF child[run.pick] = "RUNNING"
     THEN /\ child' = Skipped([child EXCEPT ![run.pick] = "FAILED"])
          /\ status' = "FAILED"
     ELSE UNCHANGED <<child, status>>
  /\ UNCHANGED <<creator, revision, aged, people, active, others, wire, up, stops, faults, sentCount>>

\* Its compare-and-set commits with the skip of the rest and markFailed; a failed transaction is
\* logged and nothing retries it.
FailCommit ==
  /\ up /\ run.pc = "failCommit" /\ ~Locked(run.pick)
  /\ run' = [run EXCEPT !.pc = "publish", !.pick = None]
  /\ \/ /\ IF child[run.pick] = "RUNNING"
           THEN /\ child' = Skipped([child EXCEPT ![run.pick] = "FAILED"])
                /\ status' = IF status = "EXECUTING" THEN "FAILED" ELSE status
           ELSE UNCHANGED <<child, status>>
        /\ UNCHANGED faults
     \/ /\ faults < MaxFaults
        /\ faults' = faults + 1
        /\ UNCHANGED <<child, status>>
  /\ UNCHANGED <<creator, revision, aged, people, active, others, wire, up, stops, sentCount>>

\* The end of runApprovedTask: the status the row has now is pushed and announced.
Publish ==
  /\ up /\ run.pc = "publish"
  /\ run' = [run EXCEPT !.pc = "over"]
  /\ announced' = announced \cup ({status} \cap Terminal)
  /\ UNCHANGED <<row, people, active, cancel, deleting, landed, wire, up, stops, faults, sentCount>>

-----------------------------------------------------------------------------
\* The proxy end of the stream.

\* The statement's handler is done with it; the serve loop has yet to hear of it.
Ending(reply) ==
  /\ proxy' = [proxy EXCEPT !.pc = "ending"]
  /\ answer' = IF run.pc = "wait" THEN reply ELSE answer

\* Serve takes a message. A query starts, or is held while the one before has not reported back. A
\* cancel goes to the target database: it stops what executes there, may hit a probe of the decision
\* or nothing, and an idle proxy drops it. A close does the same and ends the loop.
ProxyReceive ==
  /\ stream # <<>> /\ proxy.pc # "closed" /\ ~proxy.closing
  /\ stream' = Tail(stream)
  /\ \/ /\ Head(stream) = "query"
        /\ proxy' = IF proxy.pc = "idle" THEN [proxy EXCEPT !.pc = "deciding"]
                                         ELSE [proxy EXCEPT !.held = TRUE]
        /\ UNCHANGED answer
     \/ /\ Head(stream) = "cancel"
        /\ \/ proxy.pc \in {"deciding", "executing"} /\ Ending("error")
           \/ proxy.pc # "executing" /\ UNCHANGED <<proxy, answer>>
     \/ /\ Head(stream) = "close"
        /\ \/ proxy' = Serving("closed")
           \/ proxy.pc = "deciding" /\ proxy' = [proxy EXCEPT !.closing = TRUE]
        /\ UNCHANGED answer
  /\ UNCHANGED <<row, people, control, others, up, stops, faults, sentCount>>

\* handleQuery: the statement is denied, or goes to the target database.
ProxyDecide ==
  /\ proxy.pc = "deciding"
  /\ \/ Ending("error")
     \/ proxy' = [proxy EXCEPT !.pc = "executing"] /\ UNCHANGED answer
  /\ UNCHANGED <<row, people, control, others, stream, up, stops, faults, sentCount>>

\* It ends at the target; once the run has left, nobody reads the answer.
ProxyAnswer ==
  /\ proxy.pc = "executing"
  /\ \E reply \in {"ok", "error"} : Ending(reply)
  /\ UNCHANGED <<row, people, control, others, stream, up, stops, faults, sentCount>>

\* The handler reports back, and a held query is next.
ProxyReport ==
  /\ proxy.pc = "ending"
  /\ proxy' = Serving(IF proxy.closing THEN "closed" ELSE IF proxy.held THEN "deciding" ELSE "idle")
  /\ UNCHANGED <<row, people, control, others, stream, answer, up, stops, faults, sentCount>>

\* A draining proxy leaves between statements.
ProxyDrain ==
  /\ proxy.pc \in {"idle", "ending"}
  /\ proxy' = Serving("closed")
  /\ UNCHANGED <<row, people, control, others, stream, answer, up, stops, faults, sentCount>>

-----------------------------------------------------------------------------
\* A cancel of a running task.

Moves(c, to) == cancel' = [cancel EXCEPT ![c] = to]

\* The handler saw EXECUTING; cancelRun's first SELECT ... FOR UPDATE takes its snapshot.
CancelRunning(c) ==
  /\ up /\ cancel[c].pc = "idle" /\ status = "EXECUTING"
  /\ Moves(c, [pc |-> "running", row |-> None, rest |-> InState("RUNNING")])
  /\ UNCHANGED <<row, people, control, deleting, landed, announced, wire, up, stops, faults, sentCount>>

\* Its row lock: the row is re-checked against the commits that came before.
CancelLock(c, pc, s) ==
  /\ cancel[c].pc = pc /\ cancel[c].rest # {} /\ ~Locked(Lowest(cancel[c].rest))
  /\ LET i == Lowest(cancel[c].rest)
     IN Moves(c, IF child[i] = s THEN [pc |-> "locked", row |-> i, rest |-> {}]
                                 ELSE [cancel[c] EXCEPT !.rest = @ \ {i}])

\* The second SELECT ... FOR UPDATE, of the pending rows.
CancelPending(c) ==
  /\ cancel[c].pc = "running" /\ cancel[c].rest = {}
  /\ Moves(c, [pc |-> "pending", row |-> None, rest |-> InState("PENDING")])

\* No row was found: the cancel changes nothing.
CancelMisses(c) ==
  /\ cancel[c].pc = "pending" /\ cancel[c].rest = {}
  /\ Moves(c, Idle)

CancelSelect(c) ==
  /\ up
  /\ \/ CancelLock(c, "running", "RUNNING")
     \/ CancelPending(c)
     \/ CancelLock(c, "pending", "PENDING")
     \/ CancelMisses(c)
  /\ UNCHANGED <<row, people, control, deleting, landed, announced, wire, up, stops, faults, sentCount>>

\* The transaction commits with markCancelled, or rolls back when the task has left EXECUTING.
CancelCommit(c) ==
  /\ up /\ cancel[c].pc = "locked"
  /\ IF status = "EXECUTING"
     THEN /\ child' = Skipped([child EXCEPT ![cancel[c].row] = "CANCELLED"])
          /\ status' = "CANCELLED"
          /\ Moves(c, [Idle EXCEPT !.pc = "signal"])
     ELSE Moves(c, Idle) /\ UNCHANGED <<child, status>>
  /\ UNCHANGED <<creator, revision, aged, people, control, deleting, landed, announced, wire, up,
                 stops, faults, sentCount>>

\* cancelActiveRun, under the run's gate.
SignalActiveRun ==
  IF active.registered
  THEN /\ active' = [active EXCEPT !.canceled = TRUE]
       /\ stream' = IF active.sent THEN Append(stream, "cancel") ELSE stream
  ELSE UNCHANGED <<active, stream>>

CancelSignal(c) ==
  /\ up /\ cancel[c].pc = "signal" /\ GateFree
  /\ SignalActiveRun
  /\ Moves(c, Idle)
  /\ landed' = TRUE
  /\ announced' = announced \cup {"CANCELLED"}
  /\ UNCHANGED <<row, people, run, deleting, proxy, answer, up, stops, faults, sentCount>>

-----------------------------------------------------------------------------
\* Deleting an editor task: the signal, the result rows, then the task row.

DeleteSignal ==
  /\ up /\ creator = "EDITOR" /\ deleting = "no" /\ status # "GONE" /\ GateFree
  /\ IF status = "EXECUTING" THEN SignalActiveRun ELSE UNCHANGED <<active, stream>>
  /\ deleting' = "rows"
  /\ UNCHANGED <<row, people, run, cancel, landed, announced, proxy, answer, up, stops, faults, sentCount>>

DeleteRows ==
  /\ up /\ deleting = "rows" /\ \A i \in Ordinal : ~Locked(i)
  /\ child' = [i \in Ordinal |-> "ABSENT"]
  /\ deleting' = "task"
  /\ UNCHANGED <<creator, status, revision, aged, people, control, cancel, landed, announced, wire, up,
                 stops, faults, sentCount>>

\* deleteEditorTask, and the session-end seam's deleteEditorResultsForPrincipal, which is one
\* cascading DELETE with no signal before it.
DeleteTask ==
  /\ up /\ creator = "EDITOR" /\ status # "GONE" /\ \A i \in Ordinal : ~Locked(i)
  /\ child' = [i \in Ordinal |-> "ABSENT"]
  /\ status' = "GONE"
  /\ deleting' = IF deleting = "task" THEN "done" ELSE deleting
  /\ UNCHANGED <<creator, revision, aged, people, control, cancel, landed, announced, wire, up,
                 stops, faults, sentCount>>

-----------------------------------------------------------------------------
\* Crash, boot and rolling restart.

\* The process dies: every coroutine and open transaction with it, and the proxy's streams.
Crash ==
  /\ up /\ stops < MaxStops
  /\ stops' = stops + 1
  /\ up' = FALSE
  /\ run' = [pc |-> "over", at |-> 0, of |-> 0, pick |-> None]
  /\ active' = NoRun
  /\ cancel' = [c \in Canceller |-> Idle]
  /\ deleting' = "no"
  /\ seen' = [a \in Approver |-> 0]
  /\ expiring' = FALSE
  /\ stream' = <<"close">> /\ answer' = "none"
  /\ UNCHANGED <<row, decisions, endorsed, proxy, faults, sentCount, landed, announced>>

\* Without blaming the next statement when none was running.
OrphansUnblamed ==
  LET running == [i \in Ordinal |-> IF child[i] = "RUNNING" THEN "FAILED" ELSE child[i]]
  IN IF status \in {"EXECUTING", "FAILED"} THEN Skipped(running) ELSE running

\* reconcileOrphanedExecutions.
OrphanedChildren ==
  LET running == [i \in Ordinal |-> IF child[i] = "RUNNING" THEN "FAILED" ELSE child[i]]
      next == {i \in Ordinal : running[i] = "PENDING"}
      blamed == IF (\A i \in Ordinal : running[i] # "FAILED") /\ next # {}
                THEN [running EXCEPT ![Lowest(next)] = "FAILED"] ELSE running
  IN IF status \in {"EXECUTING", "FAILED"} THEN Skipped(blamed) ELSE running

\* Without failing the parent row.
ReconcileChildrenOnly ==
  /\ \A i \in Ordinal : ~Locked(i)
  /\ child' = OrphanedChildren
  /\ UNCHANGED <<creator, status, revision, aged>>

Reconcile ==
  /\ \A i \in Ordinal : ~Locked(i)
  /\ status' = IF status = "EXECUTING" THEN "FAILED" ELSE status
  /\ child' = OrphanedChildren
  /\ UNCHANGED <<creator, revision, aged>>

Boot ==
  /\ ~up
  /\ up' = TRUE
  /\ Reconcile
  /\ run' = IF creator = "WORKFLOW" /\ status \in {"PENDING", "APPROVED"} THEN [run EXCEPT !.pc = "off"] ELSE run
  /\ UNCHANGED <<people, active, others, wire, stops, faults, sentCount>>

\* A rolling restart: the replacement boots while this process still drains.
RollingBoot ==
  /\ up /\ stops < MaxStops
  /\ stops' = stops + 1
  /\ Reconcile
  /\ UNCHANGED <<people, control, others, wire, up, faults, sentCount>>

-----------------------------------------------------------------------------
RunStep ==
  Execute \/ ClaimLost \/ Open \/ StartNext \/ Flip \/ Gate \/ Send \/ Answered \/ Save \/ Commit
          \/ Fail \/ FailCommit \/ Publish

CancelStep == \E c \in Canceller :
  CancelRunning(c) \/ CancelSelect(c) \/ CancelCommit(c) \/ CancelSignal(c)

Next ==
  \/ \E a \in Approver : View(a) \/ Approve(a)
  \/ \E s \in {"REJECTED", "CANCELLED"} : Refuse(s)
  \/ Unapprove
  \/ \E n \in Ordinal : Edit(n)
  \/ Age \/ ExpireSelect \/ ExpireReopen
  \/ RunStep
  \/ ProxyReceive \/ ProxyDecide \/ ProxyAnswer \/ ProxyReport \/ ProxyDrain
  \/ CancelStep
  \/ DeleteSignal \/ DeleteRows \/ DeleteTask
  \/ Crash \/ Boot \/ RollingBoot

Spec == Init /\ [][Next]_vars

\* A launched coroutine, an accepted cancel or delete, a sweep that has begun and the proxy's side
\* go on; a dead process is started again. Whether anybody asks for anything is not assumed.
FairSpec ==
  /\ Spec
  /\ WF_vars(run.pc # "off" /\ RunStep)
  /\ WF_vars(ProxyReceive \/ ProxyDecide \/ ProxyAnswer \/ ProxyReport)
  /\ \A c \in Canceller : WF_vars(CancelSelect(c) \/ CancelCommit(c) \/ CancelSignal(c))
  /\ WF_vars(DeleteRows) /\ WF_vars(deleting = "task" /\ DeleteTask)
  /\ WF_vars(Boot)

-----------------------------------------------------------------------------
TypeOK ==
  /\ creator \in {"WORKFLOW", "EDITOR"} /\ status \in Status
  /\ revision \in 1..MaxRevision /\ aged \in BOOLEAN
  /\ child \in [Ordinal -> ChildStatus]
  /\ seen \in [Approver -> 0..MaxRevision] /\ expiring \in BOOLEAN
  /\ run \in [pc : RunPc, at : Pick, of : Pick, pick : Pick]
  /\ active \in [registered : BOOLEAN, canceled : BOOLEAN, sent : BOOLEAN]
  /\ cancel \in [Canceller -> [pc : {"idle", "running", "pending", "locked", "signal"},
                              row : Pick, rest : SUBSET Ordinal]]
  /\ deleting \in {"no", "rows", "task", "done"} /\ up \in BOOLEAN
  /\ stream \in Seq({"query", "cancel", "close"})
  /\ proxy \in [pc : {"idle", "deciding", "executing", "ending", "closed"}, held : BOOLEAN, closing : BOOLEAN]
  /\ answer \in {"none", "ok", "error"}
  /\ decisions \in 0..MaxDecisions /\ stops \in 0..MaxStops /\ faults \in 0..MaxFaults
  /\ endorsed \in 0..MaxRevision
  /\ sentCount \in [Ordinal -> Nat]
  /\ landed \in BOOLEAN /\ announced \subseteq Terminal

Running == run.pc \in {"open", "start", "flip", "gate", "send", "wait", "save", "commit"}

\* What runs is what was approved: while a run is in progress the SQL is the revision the approver
\* had read, however edits, withdrawals, expiry and stale pages interleave; and no statement of it
\* leaves the control plane twice, across cancels, failed transactions and restarts.
RunsWhatWasApproved ==
  /\ Running => revision = endorsed
  /\ \A i \in Ordinal : sentCount[i] <= 1

\* pendingChild: "a batch executes in the order written". A statement's row is RUNNING or DONE only
\* when every statement before it is DONE.
RunsInOrder ==
  \A i \in Ordinal : child[i] \in {"RUNNING", "DONE"} =>
    \A j \in 1..(i - 1) : child[j] = "DONE"

Queries == {i \in DOMAIN stream : stream[i] = "query"}

\* cancelActiveRun and sendEditorQuery under the gate: once a cancel is acknowledged no query leaves,
\* and a cancel or a close follows the one on its way.
CancelFollowsQuery ==
  landed => /\ run.pc # "send"
            /\ \A i \in Queries : \E j \in DOMAIN stream : j > i /\ stream[j] # "query"

\* A settled task explains itself: EXECUTED only with every statement DONE, FAILED only with a
\* FAILED statement to show, and no statement is left pending or running under a task whose run is
\* over - except below a CANCELLED one, when a cancel took a later statement than the running one.
SettledExplains ==
  /\ status = "EXECUTED" => \A i \in Rows : child[i] = "DONE"
  /\ status = "FAILED" => Rows = {} \/ InState("FAILED") # {}
  /\ status \in Terminal /\ run.pc = "over" /\ up =>
       \A i \in Rows : /\ child[i] = "RUNNING" => \E j \in Rows : j > i /\ child[j] = "CANCELLED"
                       /\ child[i] = "PENDING" => InState("PENDING") = Rows

\* The terminal state pushed to watchers and notified is the one the task ends in.
AnnouncedAsEnded == announced # {} => announced = {status} \/ status = "GONE"

\* Every started run settles, unless the transaction that should settle it failed.
RunSettles == status = "EXECUTING" ~> status # "EXECUTING" \/ faults > 0

\* ActiveRun: a cancel lands after its query "never before, which an idle proxy would drop, letting a
\* just-canceled query run anyway". Whatever executes once a cancel is acknowledged will be stopped.
CanceledQueryStops ==
  landed /\ proxy.pc = "executing" => \E j \in DOMAIN stream : stream[j] # "query"
=============================================================================
