------------------------------ MODULE HeldSession ------------------------------
(***************************************************************************)
(* A held editor session: one target-database connection that the tasks a  *)
(* principal submits share, each a batch of statements.  runBatchOnSession  *)
(* takes the session's mutex for the whole batch; closeSession, cancels    *)
(* and the proxy's own end take no lock, and a statement that fails or     *)
(* times out leaves frames of its own in the stream.  The session is open  *)
(* and served from the start (EditorDial is about how it gets there).      *)
(*                                                                         *)
(* A statement is <<task, ordinal>>; all the frames that answer it (its    *)
(* decision, rows and EditorDone) are one frame.                           *)
(***************************************************************************)
EXTENDS Integers, Sequences, FiniteSets

CONSTANTS Task,           \* tasks submitted on the session
          NoTask,         \* nobody
          MaxStatements   \* statements of a batch

ASSUME NobodyIsNoTask == NoTask \notin Task
ASSUME BatchLength == MaxStatements \in Nat \ {0}

VARIABLES
  pc,         \* where each task's coroutine is
  ord,        \* the ordinal of its statement
  mutex,      \* EditorSession.mutex: its holder, or NoTask
  open,       \* the session is in openSessions
  closing,    \* closeSession, by whoever removed it: "no", "send", "revoke", "done"
  closer,     \* the task whose failure runs it, or NoTask
  revoked,    \* the session's token is revoked
  cancel,     \* the cancel of each task: "no", "committed" (cancelRun), "found" (its ActiveRun), "done"
  sent,       \* ActiveRun.sent, as the set of tasks
  canceled,   \* ActiveRun.canceled
  down,       \* frames to the proxy: [kind, stmt]
  up,         \* frames to the control plane
  serve,      \* the proxy's Serve: "idle", "exec", "replied", "killed", "ended"
  cur,        \* the statement it executes
  held,       \* the query it read meanwhile, as a sequence of at most one
  order,      \* history: the statements executed, in order
  late        \* history: the statements sent after EditorClose

Stmt == Task \X (1 .. MaxStatements)

task == <<pc, ord, mutex>>
session == <<open, closing, closer, revoked>>
cancels == <<cancel, canceled>>
proxy == <<serve, cur, held, order>>
vars == <<task, session, cancels, sent, down, up, proxy, late>>

Goto(t, l) == pc' = [pc EXCEPT ![t] = l]
Current(t) == <<t, ord[t]>>

Init ==
  /\ pc = [t \in Task |-> "idle"] /\ ord = [t \in Task |-> 1] /\ mutex = NoTask
  /\ open = TRUE /\ closing = "no" /\ closer = NoTask /\ revoked = FALSE
  /\ cancel = [t \in Task |-> "no"] /\ sent = {} /\ canceled = {}
  /\ down = <<>> /\ up = <<>>
  /\ serve = "idle" /\ cur = <<>> /\ held = <<>>
  /\ order = <<>> /\ late = {}

-----------------------------------------------------------------------------
(* runBatchOnSession and runStatements.                                    *)

\* submitOnSession and the lookup of the coroutine it starts.
Submit(t) ==
  /\ pc[t] = "idle"
  /\ Goto(t, IF open THEN "queued" ELSE "over")
  /\ UNCHANGED <<ord, mutex, session, cancels, sent, down, up, proxy, late>>

\* Faulty variant: a task that finds the session gone keeps the mutex.
AcquireKeepingIt(t) ==
  /\ pc[t] = "queued" /\ mutex = NoTask
  /\ mutex' = t /\ Goto(t, IF open THEN "gate" ELSE "over")
  /\ UNCHANGED <<ord, session, cancels, sent, down, up, proxy, late>>

\* mutex.withLock, and the re-check under it: the session may have been closed while the task queued.
\* With it the ActiveRun is registered; it stays until Unlock.
Acquire(t) ==
  /\ pc[t] = "queued" /\ mutex = NoTask
  /\ IF open THEN mutex' = t /\ Goto(t, "gate") ELSE mutex' = mutex /\ Goto(t, "over")
  /\ UNCHANGED <<ord, session, cancels, sent, down, up, proxy, late>>

Registered(t) == pc[t] \in {"gate", "wait", "fail", "failing", "unlock"}

\* A frame that is put into the stream of a proxy that has ended is lost.
ToProxy(f) == down' = IF serve = "ended" THEN down ELSE Append(down, f)

\* sendEditorQuery, under the run's gate: vetoed by a cancel (preflight reads its commit), refused by an
\* ended stream if its end has been noticed.
Send(t) ==
  /\ pc[t] = "gate"
  /\ \/ /\ cancel[t] # "no" \/ t \in canceled
        /\ Goto(t, "unlock") /\ UNCHANGED <<sent, down, late>>
     \/ /\ cancel[t] = "no" /\ serve = "ended"
        /\ Goto(t, "fail") /\ UNCHANGED <<sent, down, late>>
     \/ /\ cancel[t] = "no" /\ t \notin canceled
        /\ Goto(t, "wait") /\ sent' = sent \cup {t}
        /\ ToProxy([kind |-> "query", stmt |-> Current(t)])
        /\ late' = IF closing \in {"revoke", "done"} THEN late \cup {Current(t)} ELSE late
  /\ UNCHANGED <<ord, mutex, session, cancels, up, proxy>>

\* Faulty variant: the mutex is held for one statement at a time.
TakeAnswerUnlocking(t) ==
  /\ pc[t] = "wait" /\ up # <<>> /\ Head(up).kind = "answer"
  /\ up' = Tail(up)
  /\ \/ Goto(t, "unlock") /\ UNCHANGED <<ord, mutex>>
     \/ /\ ord[t] < MaxStatements /\ cancel[t] = "no"
        /\ Goto(t, "queued") /\ ord' = [ord EXCEPT ![t] = @ + 1] /\ mutex' = NoTask
  /\ UNCHANGED <<session, cancels, sent, down, proxy, late>>

\* collectResponse has the answer.  A deny, or a result that cannot be stored because the task was
\* cancelled, ends the batch and leaves the session open; otherwise the next statement follows.
TakeAnswer(t) ==
  /\ pc[t] = "wait" /\ up # <<>> /\ Head(up).kind = "answer"
  /\ up' = Tail(up)
  /\ \/ Goto(t, "unlock") /\ UNCHANGED ord
     \/ /\ ord[t] < MaxStatements /\ cancel[t] = "no"
        /\ Goto(t, "gate") /\ ord' = [ord EXCEPT ![t] = @ + 1]
  /\ UNCHANGED <<mutex, session, cancels, sent, down, proxy, late>>

\* EditorError.
TakeError(t) ==
  /\ pc[t] = "wait" /\ up # <<>> /\ Head(up).kind = "error"
  /\ up' = Tail(up) /\ Goto(t, "fail")
  /\ UNCHANGED <<ord, mutex, session, cancels, sent, down, proxy, late>>

\* The exchange timeout, the end of the stream, or a frame that collectResponse cannot use; the
\* statement may still be answered.
TimeOut(t) ==
  /\ pc[t] = "wait" /\ Goto(t, "fail")
  /\ UNCHANGED <<ord, mutex, session, cancels, sent, down, up, proxy, late>>

\* Faulty variant: the session stays open for the next task.
FailQuietly(t) ==
  /\ pc[t] = "fail" /\ Goto(t, "unlock")
  /\ UNCHANGED <<ord, mutex, session, cancels, sent, down, up, proxy, late>>

\* onStreamFailure: closeSession, a no-op when somebody else has removed the session.
Fail(t) ==
  /\ pc[t] = "fail"
  /\ IF open
     THEN open' = FALSE /\ closing' = "send" /\ closer' = t /\ Goto(t, "failing")
     ELSE Goto(t, "unlock") /\ UNCHANGED <<open, closing, closer>>
  /\ UNCHANGED <<ord, mutex, revoked, cancels, sent, down, up, proxy, late>>

\* activeRuns.remove, and the end of withLock.
Unlock(t) ==
  /\ pc[t] = "unlock"
  /\ mutex' = NoTask /\ Goto(t, "over")
  /\ UNCHANGED <<ord, session, cancels, sent, down, up, proxy, late>>

-----------------------------------------------------------------------------
(* closeSession: lock-free, run by the one caller that removes the session. *)

\* For the owner's DELETE, the end of the owner's web session, or the idle sweep, whose choice of the
\* session may be stale by now.
CloseSession ==
  /\ open /\ open' = FALSE /\ closing' = "send"
  /\ UNCHANGED <<task, closer, revoked, cancels, sent, down, up, proxy, late>>

\* Faulty variant: the proxy is not told.
CloseSendsNothing ==
  /\ closing = "send" /\ closing' = "revoke"
  /\ UNCHANGED <<task, open, closer, revoked, cancels, sent, down, up, proxy, late>>

\* outbound.trySend(EditorClose)
CloseSends ==
  /\ closing = "send" /\ closing' = "revoke"
  /\ ToProxy([kind |-> "close"])
  /\ UNCHANGED <<task, open, closer, revoked, cancels, sent, up, proxy, late>>

\* The token is revoked, and the task that closed the session goes on.
CloseRevokes ==
  /\ closing = "revoke" /\ closing' = "done" /\ revoked' = TRUE
  /\ pc' = [t \in Task |-> IF t = closer THEN "unlock" ELSE pc[t]]
  /\ UNCHANGED <<ord, mutex, open, closer, cancels, sent, down, up, proxy, late>>

-----------------------------------------------------------------------------
(* The cancel of a task.                                                   *)

\* cancelRun commits: the task's rows are CANCELLED.
CancelCommits(t) ==
  /\ cancel[t] = "no" /\ pc[t] \notin {"idle", "over"}
  /\ cancel' = [cancel EXCEPT ![t] = "committed"]
  /\ UNCHANGED <<task, session, canceled, sent, down, up, proxy, late>>

\* cancelActiveRun: the lookup ...
CancelFinds(t) ==
  /\ cancel[t] = "committed"
  /\ cancel' = [cancel EXCEPT ![t] = IF Registered(t) THEN "found" ELSE "done"]
  /\ UNCHANGED <<task, session, canceled, sent, down, up, proxy, late>>

\* ... and the signal, under the gate of the run it found, which may be over by now.
CancelSignals(t) ==
  /\ cancel[t] = "found" /\ cancel' = [cancel EXCEPT ![t] = "done"]
  /\ canceled' = canceled \cup {t}
  /\ IF t \in sent THEN ToProxy([kind |-> "cancel"]) ELSE UNCHANGED down
  /\ UNCHANGED <<task, session, sent, up, proxy, late>>

-----------------------------------------------------------------------------
(* The proxy's Serve, after EditorServing.                                 *)

\* Serve returns; what still comes in is discarded.
End == serve' = "ended" /\ down' = <<>> /\ held' = <<>>

\* A query: its Decide re-validates the token; a refusal ends the session.
Begin(q) ==
  IF revoked
  THEN /\ serve' = "ended" /\ up' = Append(up, [kind |-> "error", stmt |-> q])
       /\ UNCHANGED <<cur, order>>
  ELSE /\ serve' = "exec" /\ cur' = q /\ order' = Append(order, q)
       /\ UNCHANGED up

\* Between statements: the query held back comes first.
NextHeld ==
  /\ serve = "idle" /\ held # <<>>
  /\ Begin(Head(held)) /\ held' = <<>>
  /\ down' = IF revoked THEN <<>> ELSE down
  /\ UNCHANGED <<task, session, cancels, sent, late>>

\* Between statements: a query is begun, EditorClose ends the session, a cancel finds nothing to cancel.
NextFrame ==
  /\ serve = "idle" /\ held = <<>> /\ down # <<>>
  /\ LET f == Head(down)
     IN \/ f.kind = "close" /\ End /\ UNCHANGED <<up, cur, order>>
        \/ f.kind = "cancel" /\ down' = Tail(down) /\ UNCHANGED <<up, proxy>>
        \/ /\ f.kind = "query" /\ Begin(f.stmt)
           /\ down' = IF revoked THEN <<>> ELSE Tail(down)
           /\ UNCHANGED held
  /\ UNCHANGED <<task, session, cancels, sent, late>>

\* Faulty variant: EditorClose cancels the statement and no more.
FrameMeanwhileNoClose ==
  /\ serve \in {"exec", "replied"} /\ down # <<>>
  /\ down' = Tail(down)
  /\ held' = IF Head(down).kind = "query" /\ held = <<>> THEN <<Head(down).stmt>> ELSE held
  /\ UNCHANGED <<task, session, cancels, sent, up, serve, cur, order, late>>

\* While handleQuery runs: EditorClose cancels the statement and ends the session after it, a query is
\* held back, a cancel makes the statement fail if it comes in time.
FrameMeanwhile ==
  /\ serve \in {"exec", "replied"} /\ down # <<>>
  /\ LET f == Head(down)
     IN \/ f.kind = "close" /\ serve = "replied" /\ End
        \/ f.kind = "close" /\ serve = "exec" /\ serve' = "killed" /\ down' = Tail(down) /\ UNCHANGED held
        \/ f.kind = "cancel" /\ down' = Tail(down) /\ UNCHANGED <<serve, held>>
        \/ /\ f.kind = "query" /\ down' = Tail(down)
           /\ held' = (IF held = <<>> THEN <<f.stmt>> ELSE held) /\ UNCHANGED serve
  /\ UNCHANGED <<task, session, cancels, sent, up, cur, order, late>>

\* handleQuery sends its answer ...
Reply ==
  /\ serve \in {"exec", "killed"}
  /\ up' = Append(up, [kind |-> "answer", stmt |-> cur])
  /\ IF serve = "exec" THEN serve' = "replied" /\ UNCHANGED <<down, held>> ELSE End
  /\ UNCHANGED <<task, session, cancels, sent, cur, order, late>>

\* ... or an error, with which Serve returns ...
ReplyError ==
  /\ serve \in {"exec", "killed"}
  /\ up' = Append(up, [kind |-> "error", stmt |-> cur]) /\ End
  /\ UNCHANGED <<task, session, cancels, sent, cur, order, late>>

\* ... and reports back to the loop.
Report ==
  /\ serve = "replied" /\ serve' = "idle"
  /\ UNCHANGED <<task, session, cancels, sent, down, up, cur, held, order, late>>

\* The proxy drains between statements, or the process or the stream is lost at any time.
ProxyGone ==
  /\ serve # "ended" /\ End
  /\ UNCHANGED <<task, session, cancels, sent, up, cur, order, late>>

-----------------------------------------------------------------------------
Run(t) == Acquire(t) \/ Send(t) \/ TakeAnswer(t) \/ TakeError(t) \/ TimeOut(t) \/ Fail(t) \/ Unlock(t)
Cancelling(t) == CancelFinds(t) \/ CancelSignals(t)
Serving == NextHeld \/ NextFrame \/ FrameMeanwhile \/ Reply \/ ReplyError \/ Report

Next ==
  \/ \E t \in Task : Submit(t) \/ Run(t) \/ CancelCommits(t) \/ Cancelling(t)
  \/ CloseSession \/ CloseSends \/ CloseRevokes
  \/ Serving \/ ProxyGone

Spec == Init /\ [][Next]_vars

\* Coroutines and goroutines run, an exchange has a timeout and a statement a deadline.  Nobody has to
\* submit, cancel or close anything, and the proxy need not go away.
FairSpec ==
  /\ Spec
  /\ \A t \in Task : WF_vars(Run(t))
  /\ WF_vars(CloseSends) /\ WF_vars(CloseRevokes)
  /\ WF_vars(Serving)

-----------------------------------------------------------------------------
(* Properties.                                                             *)

Label == {"idle", "queued", "gate", "wait", "fail", "failing", "unlock", "over"}
DownFrame == [kind : {"query"}, stmt : Stmt] \cup [kind : {"close", "cancel"}]
UpFrame == [kind : {"answer", "error"}, stmt : Stmt]

\* The frames of the stream and the values of the variables are the ones the code can produce.
TypeOK ==
  /\ pc \in [Task -> Label]
  /\ ord \in [Task -> 1 .. MaxStatements] /\ mutex \in Task \cup {NoTask}
  /\ open \in BOOLEAN /\ closing \in {"no", "send", "revoke", "done"}
  /\ closer \in Task \cup {NoTask} /\ revoked \in BOOLEAN
  /\ cancel \in [Task -> {"no", "committed", "found", "done"}]
  /\ sent \subseteq Task /\ canceled \subseteq Task
  /\ down \in Seq(DownFrame) /\ up \in Seq(UpFrame)
  /\ serve \in {"idle", "exec", "replied", "killed", "ended"}
  /\ cur \in Stmt \cup {<<>>} /\ held \in Seq(Stmt)
  /\ order \in Seq(Stmt) /\ late \subseteq Stmt

\* A task that waits for a response finds only frames of the statement it sent: runBatchOnSession never
\* hands a task the rows, or the error, of a statement that an earlier task has given up on.
AnswersMatch ==
  \A t \in Task : pc[t] = "wait" => \A i \in DOMAIN up : up[i].stmt = Current(t)

\* "One mutex hold for the batch, so a concurrent submit cannot land inside its transaction": on the
\* target connection no statement of another task comes between two of one batch.
BatchUnbroken ==
  \A i, k \in DOMAIN order : i < k /\ order[i][1] = order[k][1] =>
    \A j \in i .. k : order[j][1] = order[i][1]

\* A statement that was sent after EditorClose is not executed, although closeSession takes no lock and
\* a batch under way does not look at openSessions again.
NothingAfterClose == \A i \in DOMAIN order : order[i] \notin late

\* Every task that was submitted comes to an end, whoever closes, cancels or fails before it.
TasksFinish == \A t \in Task : (pc[t] = "queued") ~> (pc[t] = "over")

\* The proxy's end of a session that was closed is closed as well, and its target connection with it.
ClosedSessionEnds == ~open ~> (serve = "ended")

================================================================================
