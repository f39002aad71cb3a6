------------------------------ MODULE EditorDial ------------------------------
(***************************************************************************)
(* How the control plane gets a proxy to serve an editor session.  It never *)
(* dials: an opening (openSession, or runBatch for a one-shot run) registers *)
(* a fresh session id, asks the proxy for a stream over the Events stream  *)
(* the proxy holds open (ProxyEventsHub), and waits.  The proxy dials back, *)
(* the gRPC handler claims the id, the proxy opens its target-database     *)
(* connection and says that it serves.  Each of the waits may time out     *)
(* while the other side goes on; either process may begin to drain; an     *)
(* Events stream may break, and be replaced before its end is noticed.     *)
(*                                                                         *)
(* One datasource and the proxy attached to it; statements of a session    *)
(* are the subject of HeldSession and QueryTask, so that a one-shot run    *)
(* has a single statement here and a held session none.                    *)
(***************************************************************************)
EXTENDS Integers, Sequences, FiniteSetsExt

CONSTANTS
  Session,      \* openings; each has an id of its own (UUID.randomUUID)
  Held,         \* those that openSession may make ...
  OneShot,      \* ... and those that runBatch may make: the two part after awaitServing
  MaxStreams,   \* bound: Events streams the proxy opens, one after the other
  EventBuffer   \* capacity of an Events stream's channel

ASSUME Openings == Session = Held \cup OneShot
ASSUME StreamBounds == MaxStreams \in Nat /\ EventBuffer \in Nat \ {0}

VARIABLES
  pc,        \* where the opening's coroutine is
  pending,   \* EditorSessionRegistry.pending
  hub,       \* streams[name]: the registered Events streams, oldest first
  cpDrain,   \* the control plane's shutdown: "no", "begun" (shuttingDown), "broadcast"
  closed,    \* the streams whose channel broadcastDraining has closed
  stream,    \* the Events stream the proxy opened last, 0 before the first
  loop,      \* the proxy's RunEventsLoop: "down", "up" (on that stream), "done"
  buf,       \* the events on their way in it
  drain,     \* the proxy's shutdown: "no", "events", "wait", "clean", "forced"
  serve,     \* the proxy's Serve goroutine of each session
  conn,      \* the session's target connection: "none", "opening", "failed", "open"
  handler,   \* the gRPC handler of the session's stream
  up,        \* frames on their way to the control plane
  down       \* frames on their way to the proxy

hubVars == <<hub, cpDrain, closed, stream, loop, buf, drain>>
proxyVars == <<serve, conn>>
wire == <<handler, up, down>>
vars == <<pc, pending, hubVars, proxyVars, wire>>

Stream == 1 .. MaxStreams
Draining == "draining"   \* events; an OpenEditorSession event is the session id
Refresh == "refresh"

Goto(s, l) == pc' = [pc EXCEPT ![s] = l]
ServeGoto(s, l) == serve' = [serve EXCEPT ![s] = l]

\* openSession or runBatch has returned without a session, or closeSession has ended it.
Over(s) == pc[s] \in {"over", "dropped"}

Init ==
  /\ pc = [s \in Session |-> "idle"] /\ pending = {}
  /\ hub = <<>> /\ cpDrain = "no" /\ closed = {}
  /\ stream = 0 /\ loop = "down" /\ buf = <<>> /\ drain = "no"
  /\ serve = [s \in Session |-> "none"] /\ conn = [s \in Session |-> "none"]
  /\ handler = [s \in Session |-> "none"]
  /\ up = [s \in Session |-> <<>>] /\ down = [s \in Session |-> <<>>]

-----------------------------------------------------------------------------
(* ProxyEventsHub.  Every operation but deregister is synchronized(lock).  *)

\* Faulty variant: a stream that comes during the drain is admitted.
RegisterAlways(k) == hub' = Append(hub, k) /\ buf' = <<>>

\* register, from the events handler of a stream the proxy opens: refused during the drain.
Register(k) ==
  IF cpDrain # "no" THEN buf' = <<Draining>> /\ UNCHANGED hub
  ELSE hub' = Append(hub, k) /\ buf' = <<>>

\* The proxy reads stream k.
Reading(k) == k = stream /\ loop = "up"

\* awaitClose of the events handler: the channel is closed, or the peer is gone.
Deregister(k) ==
  /\ k \in Range(hub) /\ (k \in closed \/ ~Reading(k))
  /\ hub' = SelectSeq(hub, LAMBDA x : x # k)
  /\ UNCHANGED <<pc, pending, cpDrain, closed, stream, loop, buf, drain, proxyVars, wire>>

\* trySend.  The channel of a stream whose peer has gone unnoticed accepts what nobody will read.
Accepts(k) == k \notin closed /\ (Reading(k) => Len(buf) < EventBuffer)

\* dispatch: the first stream that accepts takes the event; those that refused before it are dropped.
Dispatch(s) ==
  LET open == {j \in DOMAIN hub : Accepts(hub[j])}
      i == Min(open)
  IN /\ pc[s] = "dispatch"
     /\ IF cpDrain # "no" \/ open = {}
        THEN /\ Goto(s, "unclaim")
             /\ hub' = IF cpDrain # "no" THEN hub ELSE <<>>
             /\ UNCHANGED buf
        ELSE /\ Goto(s, "await")
             /\ hub' = SubSeq(hub, i, Len(hub))
             /\ buf' = IF Reading(hub[i]) THEN Append(buf, s) ELSE buf
     /\ UNCHANGED <<pending, cpDrain, closed, stream, loop, drain, proxyVars, wire>>

\* requestRefresh, for an admin: to every stream that accepts; one that does not is skipped.
RequestRefresh ==
  /\ cpDrain = "no" /\ hub # <<>>
  /\ buf' = IF stream \in Range(hub) /\ Reading(stream) /\ Accepts(stream) THEN Append(buf, Refresh) ELSE buf
  /\ UNCHANGED <<pc, pending, hub, cpDrain, closed, stream, loop, drain, proxyVars, wire>>

\* The shutdown hook of the control plane: beginDraining, then broadcastDraining.
BeginDraining ==
  /\ cpDrain = "no" /\ cpDrain' = "begun"
  /\ UNCHANGED <<pc, pending, hub, closed, stream, loop, buf, drain, proxyVars, wire>>

BroadcastDraining ==
  /\ cpDrain = "begun" /\ cpDrain' = "broadcast" /\ closed' = Range(hub)
  /\ buf' = IF stream \in Range(hub) /\ Reading(stream) /\ Accepts(stream) THEN Append(buf, Draining) ELSE buf
  /\ UNCHANGED <<pc, pending, hub, stream, loop, drain, proxyVars, wire>>

-----------------------------------------------------------------------------
(* The opening: openSession and runBatch up to their first statement.      *)

\* A token for the principal, and the registration of a fresh id.
Open(s) ==
  /\ pc[s] = "idle" /\ Goto(s, "dispatch")
  /\ pending' = pending \cup {s}
  /\ UNCHANGED <<hubVars, proxyVars, wire>>

\* The token is issued before the registration and revoked in the last step.
TokenLive(s) == pc[s] # "idle" /\ ~Over(s)

\* attach has completed PendingSession.ready.
Ready(s) == handler[s] \in {"attached", "ended"}

\* pending.ready.await() returns ...
Attached(s) ==
  /\ pc[s] = "await" /\ Ready(s) /\ Goto(s, "opening")
  /\ UNCHANGED <<pending, hubVars, proxyVars, wire>>

\* ... or EDITOR_DIALBACK_TIMEOUT_MS has passed, whether or not it has been completed meanwhile.
DialTimeout(s) ==
  /\ pc[s] = "await" /\ Goto(s, "unclaim")
  /\ UNCHANGED <<pending, hubVars, proxyVars, wire>>

\* The next frame of the inbound channel is m.
Receive(s, m) ==
  /\ up[s] # <<>> /\ Head(up[s]) = m
  /\ up' = [up EXCEPT ![s] = Tail(@)]

\* awaitServing receives EditorServing: a held session is put in openSessions, a run goes on.
AwaitServing(s) ==
  /\ pc[s] = "opening" /\ Receive(s, "serving")
  /\ \/ s \in Held /\ Goto(s, "held")
     \/ s \in OneShot /\ Goto(s, "query")
  /\ UNCHANGED <<pending, hubVars, proxyVars, handler, down>>

\* The statement of a one-shot run is sent, unless the stream has ended ...
SendQuery(s) ==
  /\ pc[s] = "query"
  /\ IF handler[s] = "ended"
     THEN Goto(s, "close") /\ UNCHANGED down
     ELSE Goto(s, "answer") /\ down' = [down EXCEPT ![s] = Append(@, "query")]
  /\ UNCHANGED <<pending, hubVars, proxyVars, handler, up>>

\* ... and answered.
Answered(s) ==
  /\ pc[s] = "answer" /\ Receive(s, "answer") /\ Goto(s, "close")
  /\ UNCHANGED <<pending, hubVars, proxyVars, handler, down>>

\* EditorError, the end of the stream, no progress, the open ceiling or the exchange timeout.
Fails(s) ==
  /\ pc[s] \in {"opening", "answer"} /\ Goto(s, "close")
  /\ UNCHANGED <<pending, hubVars, proxyVars, wire>>

-----------------------------------------------------------------------------
(* Cleaning up: the finally of runBatch, the catch of openSession.         *)

\* Faulty variant: an opening that was claimed meanwhile is left as it is.
UnclaimOnly(s) ==
  /\ pc[s] = "unclaim" /\ Goto(s, "revoke")
  /\ pending' = pending \ {s}
  /\ UNCHANGED <<hubVars, proxyVars, wire>>

\* Without Attached: whoever removes the registration first, the opening or the handler's attach,
\* has the session.
Unclaim(s) ==
  /\ pc[s] = "unclaim"
  /\ Goto(s, IF s \in pending THEN "revoke" ELSE "recover")
  /\ pending' = pending \ {s}
  /\ UNCHANGED <<hubVars, proxyVars, wire>>

\* withContext(NonCancellable) { pending.ready.await() }
Recover(s) ==
  /\ pc[s] = "recover" /\ Ready(s) /\ Goto(s, "close")
  /\ UNCHANGED <<pending, hubVars, proxyVars, wire>>

\* outbound.trySend(EditorClose); the channel of an ended stream refuses it.
TellClose(s) ==
  down' = IF handler[s] = "ended" \/ serve[s] \in {"closing", "ended"} THEN down ELSE [down EXCEPT ![s] = Append(@, "close")]

\* EditorClose is sent and the inbound channel closed: what it holds is read by nobody.
Close(s) ==
  /\ pc[s] = "close" /\ Goto(s, "revoke")
  /\ TellClose(s) /\ up' = [up EXCEPT ![s] = <<>>]
  /\ UNCHANGED <<pending, hubVars, proxyVars, handler>>

\* The token is revoked and the registration removed.
Revoke(s) ==
  /\ \/ pc[s] = "revoke" /\ Goto(s, "over")
     \/ pc[s] = "drop" /\ Goto(s, "dropped")
  /\ pending' = pending \ {s}
  /\ UNCHANGED <<hubVars, proxyVars, wire>>

\* closeSession of a held session (DELETE, the idle sweep, the end of the web session): out of
\* openSessions and told to close, then Revoke.  The inbound channel stays open.
CloseSession(s) ==
  /\ pc[s] = "held" /\ Goto(s, "drop") /\ TellClose(s)
  /\ UNCHANGED <<pending, hubVars, proxyVars, handler, up>>

Shut(s) == pc[s] \in {"revoke", "over"}

-----------------------------------------------------------------------------
(* ControlPlaneGrpcService.editorExec, on the stream the proxy dialed.     *)

\* EditorReady: attach removes the registration; without one the stream is refused (NOT_FOUND).
Claim(s) ==
  /\ handler[s] = "first"
  /\ handler' = [handler EXCEPT ![s] = IF s \in pending THEN "claimed" ELSE "refused"]
  /\ pending' = pending \ {s}
  /\ UNCHANGED <<pc, hubVars, proxyVars, up, down>>

\* Faulty variant: an opening that has stopped waiting is not answered.
CompleteIfAwaited(s) ==
  /\ handler[s] = "claimed" /\ pc[s] = "await"
  /\ handler' = [handler EXCEPT ![s] = "attached"]
  /\ UNCHANGED <<pc, pending, hubVars, proxyVars, up, down>>

\* attach completes ready.
Complete(s) ==
  /\ handler[s] = "claimed"
  /\ handler' = [handler EXCEPT ![s] = "attached"]
  /\ UNCHANGED <<pc, pending, hubVars, proxyVars, up, down>>

\* The request flow is over.
HandlerEnds(s) ==
  /\ handler[s] = "attached" /\ serve[s] \in {"closing", "ended"}
  /\ handler' = [handler EXCEPT ![s] = "ended"]
  /\ pending' = pending \ {s}
  /\ UNCHANGED <<pc, hubVars, proxyVars, up, down>>

\* A frame (EditorProgress, say) cannot be forwarded because the opening closed the inbound channel.
HandlerRejects(s) ==
  /\ handler[s] = "attached" /\ Shut(s) /\ serve[s] \in {"auth", "open", "exec"}
  /\ handler' = [handler EXCEPT ![s] = "ended"]
  /\ pending' = pending \ {s}
  /\ UNCHANGED <<pc, hubVars, proxyVars, up, down>>

-----------------------------------------------------------------------------
(* The proxy's Events loop.                                                *)

\* A new stream; the end of the one before may not have been noticed by the control plane yet.
EventsOpen ==
  /\ loop = "down" /\ drain = "no" /\ stream < MaxStreams
  /\ stream' = stream + 1 /\ loop' = "up"
  /\ Register(stream + 1)
  /\ UNCHANGED <<pc, pending, cpDrain, closed, drain, proxyVars, wire>>

\* onOpenEditor: counted, and served in a goroutine of its own; on Draining the loop reconnects.
EventsRecv ==
  /\ loop = "up" /\ buf # <<>>
  /\ IF Head(buf) = Draining
     THEN loop' = "down" /\ buf' = <<>> /\ UNCHANGED serve
     ELSE /\ IF Head(buf) = Refresh THEN UNCHANGED serve ELSE ServeGoto(Head(buf), "dial")
          /\ buf' = Tail(buf) /\ UNCHANGED loop
  /\ UNCHANGED <<pc, pending, hub, cpDrain, closed, stream, drain, conn, wire>>

\* The stream breaks, ends or reaches its max age, and what was on its way is lost.
EventsEnd ==
  /\ loop = "up" /\ loop' = "down" /\ buf' = <<>>
  /\ UNCHANGED <<pc, pending, hub, cpDrain, closed, stream, drain, proxyVars, wire>>

-----------------------------------------------------------------------------
(* Serve: one proxy-dialed editor stream.                                  *)

Refused(s) == handler[s] \in {"refused", "ended"}
Send(s, m) == up' = [up EXCEPT ![s] = IF Refused(s) \/ Shut(s) THEN @ ELSE Append(@, m)]

\* The stream cannot be opened.
DialFails(s) ==
  /\ serve[s] = "dial" /\ ServeGoto(s, "ended")
  /\ UNCHANGED <<pc, pending, hubVars, conn, wire>>

\* OpenEditorStream, with EditorReady as its first frame.
Dial(s) ==
  /\ serve[s] = "dial" /\ ServeGoto(s, "auth")
  /\ handler' = [handler EXCEPT ![s] = "first"]
  /\ UNCHANGED <<pc, pending, hubVars, conn, up, down>>

\* Serve returns and its deferred calls run: the target connection is closed, unless an aborted open
\* has not returned it yet, then the sending side of the stream; what still comes in is discarded.
Leave(s) ==
  /\ ServeGoto(s, "closing")
  /\ conn' = [conn EXCEPT ![s] = IF @ = "opening" THEN @ ELSE "none"]
  /\ down' = [down EXCEPT ![s] = <<>>]
  /\ UNCHANGED <<pc, pending, hubVars, handler>>

\* spi.Authenticate succeeds only with a live token; the target connection is then opened in a
\* goroutine.
Authenticate(s) ==
  /\ serve[s] = "auth"
  /\ \/ /\ TokenLive(s) /\ ServeGoto(s, "open")
        /\ conn' = [conn EXCEPT ![s] = "opening"]
        /\ UNCHANGED <<pc, pending, hubVars, wire>>
     \/ Leave(s) /\ Send(s, "error")

\* OpenConnection and OnOpen return, in the goroutine.
TargetOpened(s) ==
  /\ conn[s] = "opening"
  /\ \E c \in {"open", "failed"} : conn' = [conn EXCEPT ![s] = c]
  /\ UNCHANGED <<pc, pending, hubVars, serve, wire>>

\* The stream has ended, EditorClose is next, or the drain signal is closed.
ToldToStop(s) ==
  \/ Refused(s) /\ down[s] = <<>>
  \/ down[s] # <<>> /\ Head(down[s]) = "close"
  \/ drain # "no"

\* openTargetDb, abort: the open goes on in the background, to be reaped.
OpenAborted(s) == serve[s] = "open" /\ ToldToStop(s) /\ Leave(s) /\ UNCHANGED up

\* openTargetDb, done: an error is reported; abandonedDuringOpen has a last look before it serves.
OpenDone(s) ==
  /\ serve[s] = "open"
  /\ \/ conn[s] = "failed" /\ Leave(s) /\ Send(s, "error")
     \/ /\ conn[s] = "open" /\ ~ToldToStop(s) /\ ServeGoto(s, "idle") /\ Send(s, "serving")
        /\ UNCHANGED <<pc, pending, hubVars, conn, handler, down>>

\* Between statements.
IdleStops(s) == serve[s] = "idle" /\ ToldToStop(s) /\ Leave(s) /\ UNCHANGED up

\* A query starts unless the drain has begun.
StartQuery(s) ==
  /\ serve[s] = "idle" /\ drain = "no" /\ down[s] # <<>> /\ Head(down[s]) = "query"
  /\ down' = [down EXCEPT ![s] = Tail(@)]
  /\ ServeGoto(s, "exec")
  /\ UNCHANGED <<pc, pending, hubVars, conn, handler, up>>

\* The statement ends; with an error, or cut off by EditorClose, the session ends with it.
FinishQuery(s) ==
  /\ serve[s] = "exec"
  /\ \/ ServeGoto(s, "idle") /\ Send(s, "answer") /\ UNCHANGED <<pc, pending, hubVars, conn, handler, down>>
     \/ Leave(s) /\ Send(s, "error")

\* Faulty variant: what an aborted open returns is dropped.
ReapNothing(s) ==
  /\ serve[s] \in {"closing", "ended"} /\ conn[s] = "failed"
  /\ conn' = [conn EXCEPT ![s] = "none"]
  /\ UNCHANGED <<pc, pending, hubVars, serve, wire>>

\* The goroutine of abort closes the connection that the open returned after all.
Reap(s) ==
  /\ serve[s] \in {"closing", "ended"} /\ conn[s] \in {"open", "failed"}
  /\ conn' = [conn EXCEPT ![s] = "none"]
  /\ UNCHANGED <<pc, pending, hubVars, serve, wire>>

\* gracefulCloseStream returns when the control plane has ended its side, or after a while.
CloseStream(s) ==
  /\ serve[s] = "closing" /\ ServeGoto(s, "ended")
  /\ UNCHANGED <<pc, pending, hubVars, conn, wire>>

-----------------------------------------------------------------------------
(* gracefulDrain of the proxy, without its wire server (WireServer).       *)

\* What the tracker counts.
Active == {s \in Session : serve[s] \notin {"none", "ended"}}

\* editorSessions.Begin and eventsCancel.
DrainBegin ==
  /\ drain = "no" /\ drain' = "events"
  /\ UNCHANGED <<pc, pending, hub, cpDrain, closed, stream, loop, buf, proxyVars, wire>>

\* RunEventsLoop returns.
EventsStop ==
  /\ drain # "no" /\ loop # "done" /\ loop' = "done" /\ buf' = <<>>
  /\ UNCHANGED <<pc, pending, hub, cpDrain, closed, stream, drain, proxyVars, wire>>

\* Faulty variant: the count is waited for while the loop still runs.
DrainEventsUnawaited ==
  /\ drain = "events" /\ drain' = "wait"
  /\ UNCHANGED <<pc, pending, hub, cpDrain, closed, stream, loop, buf, proxyVars, wire>>

\* <-eventsDone
DrainEventsDone ==
  /\ drain = "events" /\ loop = "done" /\ drain' = "wait"
  /\ UNCHANGED <<pc, pending, hub, cpDrain, closed, stream, loop, buf, proxyVars, wire>>

\* editorSessions.Wait reads zero ...
DrainClean ==
  /\ drain = "wait" /\ Active = {} /\ drain' = "clean"
  /\ UNCHANGED <<pc, pending, hub, cpDrain, closed, stream, loop, buf, proxyVars, wire>>

\* ... or times out, and the process exits with sessions still served: their streams break.
DrainForced ==
  /\ drain = "wait" /\ Active # {} /\ drain' = "forced"
  /\ serve' = [s \in Session |-> IF s \in Active THEN "ended" ELSE serve[s]]
  /\ conn' = [s \in Session |-> "none"]
  /\ down' = [s \in Session |-> <<>>]
  /\ UNCHANGED <<pc, pending, hub, cpDrain, closed, stream, loop, buf, handler, up>>

-----------------------------------------------------------------------------
Opening(s) ==
  \/ Dispatch(s) \/ Attached(s) \/ DialTimeout(s) \/ AwaitServing(s) \/ SendQuery(s)
  \/ Answered(s) \/ Fails(s) \/ Unclaim(s) \/ Recover(s) \/ Close(s) \/ Revoke(s) \/ CloseSession(s)
Handler(s) == Claim(s) \/ Complete(s) \/ HandlerEnds(s)
Serve(s) ==
  \/ DialFails(s) \/ Dial(s) \/ Authenticate(s) \/ OpenAborted(s) \/ OpenDone(s) \/ IdleStops(s)
  \/ StartQuery(s) \/ FinishQuery(s) \/ CloseStream(s)

Next ==
  \/ \E s \in Session :
       Open(s) \/ Opening(s) \/ Handler(s) \/ HandlerRejects(s) \/ Serve(s) \/ TargetOpened(s) \/ Reap(s)
  \/ \E k \in Stream : Deregister(k)
  \/ RequestRefresh \/ BeginDraining \/ BroadcastDraining
  \/ EventsOpen \/ EventsRecv \/ EventsEnd
  \/ DrainBegin \/ EventsStop \/ DrainEventsDone \/ DrainClean \/ DrainForced

Spec == Init /\ [][Next]_vars

\* Coroutines and goroutines run; every wait of an opening has a timeout, the idle sweep comes round,
\* an open and a statement have deadlines, keepalive finds a peer that is gone.  Nobody is obliged to
\* open a session, to reconnect, to drain, or to break a stream.
FairSpec ==
  /\ Spec
  /\ \A s \in Session :
       WF_vars(Opening(s)) /\ WF_vars(Handler(s)) /\ WF_vars(Serve(s)) /\ WF_vars(TargetOpened(s)) /\ WF_vars(Reap(s))
  /\ \A k \in Stream : WF_vars(Deregister(k))

-----------------------------------------------------------------------------
(* Properties.                                                             *)

\* Every variable keeps its type.
TypeOK ==
  /\ pc \in [Session -> {"idle", "dispatch", "await", "opening", "held", "query", "answer",
                         "unclaim", "recover", "close", "revoke", "drop", "over", "dropped"}]
  /\ pending \subseteq Session
  /\ hub \in Seq(Stream) /\ cpDrain \in {"no", "begun", "broadcast"} /\ closed \subseteq Stream
  /\ stream \in 0 .. MaxStreams /\ loop \in {"down", "up", "done"}
  /\ buf \in Seq(Session \cup {Draining, Refresh})
  /\ drain \in {"no", "events", "wait", "clean", "forced"}
  /\ serve \in [Session -> {"none", "dial", "auth", "open", "idle", "exec", "closing", "ended"}]
  /\ conn \in [Session -> {"none", "opening", "failed", "open"}]
  /\ handler \in [Session -> {"none", "first", "claimed", "attached", "refused", "ended"}]
  /\ up \in [Session -> Seq({"serving", "answer", "error"})]
  /\ down \in [Session -> Seq({"query", "close"})]

\* When runBatch or openSession has returned without a session, or closeSession has ended one, nothing
\* of it is left behind: the id is not registered any more, and a stream that the proxy dialed
\* meanwhile is refused or is told to close, also when its claim raced the timeout.
NothingAbandoned ==
  \A s \in Session : Over(s) =>
    /\ s \notin pending
    /\ handler[s] \in {"claimed", "attached"} => "close" \in Range(down[s]) \/ serve[s] \in {"closing", "ended"}

\* gracefulDrain: when Wait has read zero no session is being served and none can start, so closing
\* the control-plane client cuts nobody off.
CleanExitIsComplete == drain = "clean" => Active = {}

\* Every opening ends: the wait that cannot be cancelled (Recover) is always answered, and a held
\* session is closed by the idle sweep at the latest.
OpeningsEnd == \A s \in Session : (pc[s] # "idle") ~> Over(s)

\* A target connection the proxy opens for a session is closed again, also when its open was aborted
\* and finished later, or nobody waits for the session any more.
ConnectionsReleased == \A s \in Session : (conn[s] # "none") ~> (conn[s] = "none")

\* awaitDrained: after broadcastDraining every Events stream leaves the hub for good, those that the
\* proxy opened during the drain included.
HubEmpties == (cpDrain = "broadcast") ~> [](hub = <<>>)

===============================================================================
