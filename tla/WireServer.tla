----------------------------- MODULE WireServer -----------------------------
(***************************************************************************)
(* The native-wire broker of the data plane: the accept loop, the bounded  *)
(* slot pool, connection tracking and the graceful drain                   *)
(* (goproxy/wire/server.go, goproxy/wire/deadline.go, goproxy/drain), with *)
(* the part of a protocol handler that meets the drain: the handshake, the *)
(* drain-aware command read, one statement at a time, the shutdown notice  *)
(* (goproxy/mysql/wire_client.go, goproxy/postgres/wire_client.go).        *)
(*                                                                         *)
(* Three kinds of goroutine interleave: the accept loop (pc srv), the      *)
(* drainer (pc drainPc) and one handler per connection (stage).  A step is *)
(* one critical section of Server.mu or Tracker.mu, one atomic load or     *)
(* store of the drain flag, or one socket call.                            *)
(***************************************************************************)
EXTENDS Naturals, FiniteSets

CONSTANTS
  Conn,            \* client sockets that may ever connect
  MaxConnections,  \* maxConcurrentConnections, the capacity of connSlots
  SlowServe        \* TRUE lets serveExitWait fire while the accept loop runs

ASSUME ConnFinite == IsFiniteSet(Conn)
ASSUME SlotsPositive == MaxConnections \in Nat \ {0}
ASSUME SlowServeBool == SlowServe \in BOOLEAN

VARIABLES
  srv,         \* Start's goroutine: "listen", "serve", "accept", "hold", "exited", "failed"
  lnField,     \* s.ln # nil
  lnOpen,      \* the bound listener still accepts
  closed,      \* s.closed
  slots,       \* tokens in connSlots
  active,      \* Tracker.active
  draining,    \* Tracker.draining
  conns,       \* s.conns
  stage,       \* where each connection is, in the accept loop or in its handler
  deadline,    \* read deadline of each socket: "none", "handshake", "idle", "past"
  sockClosed,  \* sockets force-closed by the drainer
  noticed,     \* clients that were sent the protocol's shutdown notice
  cut,         \* handlers whose command read the forced deadline ended
  drainPc,     \* Drain: "idle", "close", "begin", "await", "snapshot", "force", "wait", "killSnapshot", "kill", "done"
  todo,        \* forEachConn's copy of the map, what is left of it
  ctxDone,     \* the context handed to Drain has expired
  clean        \* Drain returned because Wait saw zero

srvVars    == <<srv, lnField, lnOpen, closed>>
drainVars  == <<drainPc, todo, ctxDone, clean>>
countVars  == <<slots, active, conns>>
handlerVars == <<stage, deadline, sockClosed, noticed, cut>>
vars == <<srvVars, drainVars, countVars, handlerVars, draining>>

AcceptStages  == {"accepted", "slotted", "counted", "tracked", "unblock"}
HandlerStages == {"hsArm", "hsRead", "hsClear", "open", "rdCheck", "rdArm", "rdRecheck",
                  "rdBlock", "serve", "failed", "close"}
DeferStages   == {"untrack", "uncount", "release"}
Stages == {"none", "backlog", "gone"} \cup AcceptStages \cup HandlerStages \cup DeferStages

MappedStages  == {"tracked", "unblock", "untrack"} \cup HandlerStages
CountedStages == {"counted", "uncount"} \cup MappedStages
SlotStages    == {"slotted", "release"} \cup CountedStages

At(S) == {c \in Conn : stage[c] \in S}

Move(c, from, to) ==
  /\ stage[c] = from
  /\ stage' = [stage EXCEPT ![c] = to]

Init ==
  /\ srv = "listen" /\ lnField = FALSE /\ lnOpen = FALSE /\ closed = FALSE
  /\ slots = 0 /\ active = 0 /\ draining = FALSE /\ conns = {}
  /\ stage = [c \in Conn |-> "none"]
  /\ deadline = [c \in Conn |-> "none"]
  /\ sockClosed = {} /\ noticed = {} /\ cut = {}
  /\ drainPc = "idle" /\ todo = {} /\ ctxDone = FALSE /\ clean = FALSE

-----------------------------------------------------------------------------
(* Faulty variants of single steps, used only to show that the properties  *)
(* below notice them.                                                      *)

\* Listen without the closed check: binds a listener nobody will close.
ListenIgnoresClosed ==
  /\ srv = "listen"
  /\ srv' = "serve" /\ lnField' = TRUE /\ lnOpen' = TRUE
  /\ UNCHANGED <<closed, drainVars, countVars, handlerVars, draining>>

\* releaseConnection skipped for a connection that was closed by force.
ReleaseUnlessForced(c) ==
  /\ Move(c, "release", "gone")
  /\ slots' = IF c \in sockClosed THEN slots ELSE slots - 1
  /\ UNCHANGED <<srvVars, drainVars, active, conns, deadline, sockClosed, noticed, cut, draining>>

\* deadlineConn.Read without the second look at the flag.
ReadRecheckDropped(c) ==
  /\ Move(c, "rdRecheck", "rdBlock")
  /\ UNCHANGED <<srvVars, drainVars, countVars, deadline, sockClosed, noticed, cut, draining>>

\* Drain does not wait for the accept loop to end.
DrainAwaitSkipped ==
  /\ drainPc = "await" /\ drainPc' = "snapshot"
  /\ UNCHANGED <<srvVars, todo, ctxDone, clean, countVars, handlerVars, draining>>

-----------------------------------------------------------------------------
(* Start: Listen, then Serve's accept loop.                                *)

\* Listen binds under s.mu, unless a Shutdown already marked the server closed.
Listen ==
  /\ srv = "listen"
  /\ srv' = "serve"
  /\ IF closed THEN UNCHANGED <<lnField, lnOpen>>
               ELSE lnField' = TRUE /\ lnOpen' = TRUE
  /\ UNCHANGED <<closed, drainVars, countVars, handlerVars, draining>>

\* The bind fails: Start returns without ever running Serve.
ListenFails ==
  /\ srv = "listen" /\ ~closed
  /\ srv' = "failed"
  /\ UNCHANGED <<lnField, lnOpen, closed, drainVars, countVars, handlerVars, draining>>

\* Serve reads s.ln under s.mu; a nil listener is a shutdown that won the race.
ServeEnter ==
  /\ srv = "serve"
  /\ srv' = IF lnField THEN "accept" ELSE "exited"
  /\ UNCHANGED <<lnField, lnOpen, closed, drainVars, countVars, handlerVars, draining>>

\* A client connects: the kernel queues it while the listener is open.
Connect(c) ==
  /\ lnOpen
  /\ Move(c, "none", "backlog")
  /\ UNCHANGED <<srvVars, drainVars, countVars, deadline, sockClosed, noticed, cut, draining>>

Accept(c) ==
  /\ srv = "accept" /\ lnOpen
  /\ Move(c, "backlog", "accepted")
  /\ srv' = "hold"
  /\ UNCHANGED <<lnField, lnOpen, closed, drainVars, countVars, deadline, sockClosed, noticed, cut, draining>>

\* Accept fails: net.ErrClosed once the listener is closed, any other error at any time.
AcceptError ==
  /\ srv = "accept"
  /\ srv' = "exited"
  /\ UNCHANGED <<lnField, lnOpen, closed, drainVars, countVars, handlerVars, draining>>

\* acquireConnection: a socket that finds the pool full is closed and the loop goes on.
AcquireConnection(c) ==
  /\ IF slots < MaxConnections
       THEN Move(c, "accepted", "slotted") /\ slots' = slots + 1 /\ UNCHANGED srv
       ELSE Move(c, "accepted", "gone") /\ srv' = "accept" /\ UNCHANGED slots
  /\ UNCHANGED <<lnField, lnOpen, closed, drainVars, active, conns, deadline, sockClosed, noticed, cut, draining>>

\* trackConn: count first ...
TrackAdd(c) ==
  /\ Move(c, "slotted", "counted")
  /\ active' = active + 1
  /\ UNCHANGED <<srvVars, drainVars, slots, conns, deadline, sockClosed, noticed, cut, draining>>

\* ... then insert into the map and read the drain flag, under s.mu ...
TrackInsert(c) ==
  /\ Move(c, "counted", IF draining THEN "unblock" ELSE "tracked")
  /\ conns' = conns \cup {c}
  /\ UNCHANGED <<srvVars, drainVars, slots, active, deadline, sockClosed, noticed, cut, draining>>

\* ... and force the deadline of a connection that registered during a drain.
TrackUnblock(c) ==
  /\ Move(c, "unblock", "tracked")
  /\ deadline' = [deadline EXCEPT ![c] = "past"]
  /\ UNCHANGED <<srvVars, drainVars, countVars, sockClosed, noticed, cut, draining>>

Spawn(c) ==
  /\ Move(c, "tracked", "hsArm")
  /\ srv' = "accept"
  /\ UNCHANGED <<lnField, lnOpen, closed, drainVars, countVars, deadline, sockClosed, noticed, cut, draining>>

-----------------------------------------------------------------------------
(* A connection handler: handshake, then the command loop.                 *)

HandlerStep == UNCHANGED <<srvVars, drainVars, countVars, sockClosed, draining>>

\* SetReadDeadline on a socket the drainer closed is an error, which ends the handshake.
HandshakeArm(c) ==
  /\ IF c \in sockClosed
       THEN Move(c, "hsArm", "close") /\ UNCHANGED deadline
       ELSE Move(c, "hsArm", "hsRead") /\ deadline' = [deadline EXCEPT ![c] = "handshake"]
  /\ HandlerStep /\ UNCHANGED <<noticed, cut>>

\* A handshake packet arrives: another round (TLS, token), or the last one.
HandshakeRead(c) ==
  /\ deadline[c] # "past" /\ c \notin sockClosed
  /\ \/ Move(c, "hsRead", "hsArm")
     \/ Move(c, "hsRead", "hsClear")
  /\ HandlerStep /\ UNCHANGED <<deadline, noticed, cut>>

\* The handshake read ends by its deadline, a hang-up or the drainer's close.
HandshakeFails(c) ==
  /\ Move(c, "hsRead", "close")
  /\ HandlerStep /\ UNCHANGED <<deadline, noticed, cut>>

\* SetReadDeadline(time.Time{}) after the token, before the socket is wrapped.
HandshakeClear(c) ==
  /\ IF c \in sockClosed
       THEN Move(c, "hsClear", "close") /\ UNCHANGED deadline
       ELSE Move(c, "hsClear", "open") /\ deadline' = [deadline EXCEPT ![c] = "none"]
  /\ HandlerStep /\ UNCHANGED <<noticed, cut>>

\* Authenticate, dial the target DB, run the on-open commands, answer the client.
OpenTarget(c) ==
  /\ \/ Move(c, "open", "rdCheck")
     \/ Move(c, "open", "close")
  /\ HandlerStep /\ UNCHANGED <<deadline, noticed, cut>>

\* deadlineConn.Read, first look at the drain flag.
ReadCheck(c) ==
  /\ IF draining
       THEN Move(c, "rdCheck", "rdBlock") /\ deadline' = [deadline EXCEPT ![c] = "past"]
       ELSE Move(c, "rdCheck", "rdArm") /\ UNCHANGED deadline
  /\ HandlerStep /\ UNCHANGED <<noticed, cut>>

\* The idle deadline overwrites whatever the drainer may have just forced ...
ReadArm(c) ==
  /\ IF c \in sockClosed
       THEN Move(c, "rdArm", "failed") /\ UNCHANGED deadline
       ELSE Move(c, "rdArm", "rdRecheck") /\ deadline' = [deadline EXCEPT ![c] = "idle"]
  /\ HandlerStep /\ UNCHANGED <<noticed, cut>>

\* ... hence the second look.
ReadRecheck(c) ==
  /\ Move(c, "rdRecheck", "rdBlock")
  /\ deadline' = IF draining THEN [deadline EXCEPT ![c] = "past"] ELSE deadline
  /\ HandlerStep /\ UNCHANGED <<noticed, cut>>

\* A command arrives in time: a statement to serve, or COM_QUIT / Terminate.
Command(c) ==
  /\ deadline[c] # "past" /\ c \notin sockClosed
  /\ \/ Move(c, "rdBlock", "serve")
     \/ Move(c, "rdBlock", "close")
  /\ HandlerStep /\ UNCHANGED <<deadline, noticed, cut>>

\* The forced deadline, or the drainer's close, ends the blocked read.
ReadCut(c) ==
  /\ deadline[c] = "past" \/ c \in sockClosed
  /\ Move(c, "rdBlock", "failed")
  /\ cut' = cut \cup {c}
  /\ HandlerStep /\ UNCHANGED <<deadline, noticed>>

\* The idle timeout or a client hang-up ends it.
ReadFails(c) ==
  /\ Move(c, "rdBlock", "failed")
  /\ HandlerStep /\ UNCHANGED <<deadline, noticed, cut>>

\* The statement is relayed to its end, or the relay breaks.
ServeStatement(c) ==
  /\ \/ Move(c, "serve", "rdCheck")
     \/ Move(c, "serve", "close")
  /\ HandlerStep /\ UNCHANGED <<deadline, noticed, cut>>

\* The single drain point: a failed read sends the notice when a drain has begun.
ReadFailed(c) ==
  /\ Move(c, "failed", "close")
  /\ noticed' = IF draining THEN noticed \cup {c} ELSE noticed
  /\ HandlerStep /\ UNCHANGED <<deadline, cut>>

\* A panic in the protocol or relay code unwinds to the deferred recover, which closes the socket.
Panic(c) ==
  /\ stage[c] \in {"hsArm", "hsRead", "hsClear", "open", "serve"}
  /\ stage' = [stage EXCEPT ![c] = "close"]
  /\ HandlerStep /\ UNCHANGED <<deadline, noticed, cut>>

\* The handler returns: clientConn.Close(), then the deferred bookkeeping in LIFO order.
HandlerClose(c) ==
  /\ Move(c, "close", "untrack")
  /\ HandlerStep /\ UNCHANGED <<deadline, noticed, cut>>

UntrackDelete(c) ==
  /\ Move(c, "untrack", "uncount")
  /\ conns' = conns \ {c}
  /\ UNCHANGED <<srvVars, drainVars, slots, active, deadline, sockClosed, noticed, cut, draining>>

UntrackDone(c) ==
  /\ Move(c, "uncount", "release")
  /\ active' = active - 1
  /\ UNCHANGED <<srvVars, drainVars, slots, conns, deadline, sockClosed, noticed, cut, draining>>

ReleaseConnection(c) ==
  /\ Move(c, "release", "gone")
  /\ slots' = slots - 1
  /\ UNCHANGED <<srvVars, drainVars, active, conns, deadline, sockClosed, noticed, cut, draining>>

-----------------------------------------------------------------------------
(* Drain(ctx): called once, by the process's shutdown.                     *)

DrainStep(from, to) ==
  /\ drainPc = from
  /\ drainPc' = to

\* Shutdown, under s.mu.  A listener that was never bound needs no close.
DrainShutdown ==
  /\ DrainStep("idle", IF lnField THEN "close" ELSE "begin")
  /\ lnField' = FALSE /\ closed' = TRUE
  /\ UNCHANGED <<srv, lnOpen, todo, ctxDone, clean, countVars, handlerVars, draining>>

\* ln.Close(): the kernel resets what it had queued.
DrainCloseListener ==
  /\ DrainStep("close", "begin")
  /\ lnOpen' = FALSE
  /\ stage' = [c \in Conn |-> IF stage[c] = "backlog" THEN "gone" ELSE stage[c]]
  /\ UNCHANGED <<srv, lnField, closed, todo, ctxDone, clean, countVars, deadline, sockClosed, noticed, cut, draining>>

DrainBegin ==
  /\ DrainStep("begin", "await")
  /\ draining' = TRUE
  /\ UNCHANGED <<srvVars, todo, ctxDone, clean, countVars, handlerVars>>

AcceptLoopRuns == srv \in {"accept", "hold"}

\* awaitServeExit: the accept loop has returned, or serveExitWait elapsed.
DrainAwaitServeExit ==
  /\ srv = "exited" \/ ctxDone \/ SlowServe \/ ~AcceptLoopRuns
  /\ DrainStep("await", "snapshot")
  /\ UNCHANGED <<srvVars, todo, ctxDone, clean, countVars, handlerVars, draining>>

\* forEachConn copies the map under s.mu, then acts on the copy.
DrainSnapshot ==
  /\ DrainStep("snapshot", "force")
  /\ todo' = conns
  /\ UNCHANGED <<srvVars, ctxDone, clean, countVars, handlerVars, draining>>

DrainForce(c) ==
  /\ drainPc = "force" /\ c \in todo
  /\ todo' = todo \ {c}
  /\ deadline' = [deadline EXCEPT ![c] = "past"]
  /\ UNCHANGED <<srvVars, drainPc, ctxDone, clean, countVars, stage, sockClosed, noticed, cut, draining>>

DrainForced ==
  /\ todo = {} /\ DrainStep("force", "wait")
  /\ UNCHANGED <<srvVars, todo, ctxDone, clean, countVars, handlerVars, draining>>

\* Tracker.Wait polls the count ...
DrainWaitZero ==
  /\ active = 0
  /\ DrainStep("wait", "done")
  /\ clean' = TRUE
  /\ UNCHANGED <<srvVars, todo, ctxDone, countVars, handlerVars, draining>>

\* ... until the context is done; Drain then closes whatever is still there.
DrainWaitExpired ==
  /\ ctxDone
  /\ DrainStep("wait", "killSnapshot")
  /\ UNCHANGED <<srvVars, todo, ctxDone, clean, countVars, handlerVars, draining>>

DrainKillSnapshot ==
  /\ DrainStep("killSnapshot", "kill")
  /\ todo' = conns
  /\ UNCHANGED <<srvVars, ctxDone, clean, countVars, handlerVars, draining>>

DrainKill(c) ==
  /\ drainPc = "kill" /\ c \in todo
  /\ todo' = todo \ {c}
  /\ sockClosed' = sockClosed \cup {c}
  /\ UNCHANGED <<srvVars, drainPc, ctxDone, clean, countVars, stage, deadline, noticed, cut, draining>>

DrainKilled ==
  /\ todo = {} /\ DrainStep("kill", "done")
  /\ UNCHANGED <<srvVars, todo, ctxDone, clean, countVars, handlerVars, draining>>

\* drainTimeout (10s) elapses; it outlasts serveExitWait (1s).
CtxExpires ==
  /\ ~ctxDone
  /\ IF SlowServe THEN drainPc # "idle" ELSE drainPc \in {"snapshot", "force", "wait"}
  /\ ctxDone' = TRUE
  /\ UNCHANGED <<srvVars, drainPc, todo, clean, countVars, handlerVars, draining>>

-----------------------------------------------------------------------------
AcceptLoop ==
  \/ Listen \/ ListenFails \/ ServeEnter \/ AcceptError
  \/ \E c \in Conn :
       \/ Accept(c) \/ AcquireConnection(c) \/ TrackAdd(c) \/ TrackInsert(c)
       \/ TrackUnblock(c) \/ Spawn(c)

Handler(c) ==
  \/ HandshakeArm(c) \/ HandshakeRead(c) \/ HandshakeFails(c) \/ HandshakeClear(c)
  \/ OpenTarget(c) \/ ReadCheck(c) \/ ReadArm(c) \/ ReadRecheck(c)
  \/ Command(c) \/ ReadCut(c) \/ ReadFails(c) \/ ServeStatement(c) \/ ReadFailed(c)
  \/ Panic(c) \/ HandlerClose(c) \/ UntrackDelete(c) \/ UntrackDone(c)
  \/ ReleaseConnection(c)

Drainer ==
  \/ DrainCloseListener \/ DrainBegin \/ DrainAwaitServeExit \/ DrainSnapshot
  \/ DrainForced \/ DrainWaitZero \/ DrainWaitExpired \/ DrainKillSnapshot \/ DrainKilled
  \/ \E c \in Conn : DrainForce(c) \/ DrainKill(c)

Next ==
  \/ AcceptLoop
  \/ DrainShutdown
  \/ Drainer
  \/ CtxExpires
  \/ \E c \in Conn : Connect(c) \/ Handler(c)

Spec == Init /\ [][Next]_vars

-----------------------------------------------------------------------------
(* Fairness.  Goroutines that can run do run and a forced read returns.    *)
(* Nothing is assumed of clients, of the target DB or of how long a        *)
(* statement takes.                                                        *)

AcceptLoopProgress ==
  \/ Listen \/ ServeEnter \/ (~lnOpen /\ AcceptError)
  \/ \E c \in Conn :
       \/ AcquireConnection(c) \/ TrackAdd(c) \/ TrackInsert(c) \/ TrackUnblock(c) \/ Spawn(c)

HandlerProgress(c) ==
  \/ HandshakeArm(c) \/ HandshakeClear(c) \/ ReadCheck(c) \/ ReadArm(c) \/ ReadRecheck(c)
  \/ ReadCut(c) \/ ReadFailed(c) \/ HandlerClose(c) \/ UntrackDelete(c) \/ UntrackDone(c)
  \/ ReleaseConnection(c)

FairSpec ==
  /\ Spec
  /\ WF_vars(AcceptLoopProgress)
  /\ WF_vars(Drainer)
  /\ \A c \in Conn : WF_vars(HandlerProgress(c))

-----------------------------------------------------------------------------
(* Properties.                                                             *)

\* Every variable keeps its type.
TypeOK ==
  /\ srv \in {"listen", "serve", "accept", "hold", "exited", "failed"}
  /\ lnField \in BOOLEAN /\ lnOpen \in BOOLEAN /\ closed \in BOOLEAN /\ draining \in BOOLEAN
  /\ slots \in Nat /\ active \in Nat
  /\ conns \subseteq Conn /\ todo \subseteq Conn
  /\ stage \in [Conn -> Stages]
  /\ deadline \in [Conn -> {"none", "handshake", "idle", "past"}]
  /\ sockClosed \subseteq Conn /\ noticed \subseteq Conn /\ cut \subseteq Conn
  /\ drainPc \in {"idle", "close", "begin", "await", "snapshot", "force", "wait",
                   "killSnapshot", "kill", "done"}
  /\ ctxDone \in BOOLEAN /\ clean \in BOOLEAN

\* trackConn/untrackConn: the tracker's count is exactly the connections between Add and Done,
\* and never below the number in the map, so a Wait that reads zero has missed nobody.
TrackerCoversConns ==
  /\ active = Cardinality(At(CountedStages))
  /\ conns = At(MappedStages)
  /\ Cardinality(conns) <= active

\* connSlots: a token is held for exactly the connections being handled, never more than the
\* capacity, whatever way a handler ends (return, error, panic).
SlotsAccounted ==
  /\ slots = Cardinality(At(SlotStages))
  /\ slots <= MaxConnections

\* Once the drainer has forced the deadlines, no handler sits in a command read whose deadline is
\* the idle one: neither the check-then-set race in deadlineConn.Read nor a late registration
\* leaves a client waiting out the idle timeout.
NoStrandedRead ==
  drainPc \in {"wait", "killSnapshot", "kill", "done"} =>
    \A c \in Conn : stage[c] = "rdBlock" => deadline[c] = "past" \/ c \in sockClosed

\* When Drain returns because the count reached zero, no connection is being accepted, registered
\* or handled, and none can be any more: the process may exit without dropping a client.
CleanDrainIsComplete ==
  (drainPc = "done" /\ clean /\ ~SlowServe) =>
    /\ At({"backlog"} \cup AcceptStages \cup CountedStages) = {}
    /\ ~AcceptLoopRuns /\ ~lnOpen

\* A handler whose command read the drain cut off tells its client before it closes.
CutIsNoticed ==
  \A c \in cut : stage[c] = "failed" \/ c \in noticed

\* After a Shutdown, Start's goroutine returns, also when the Shutdown came before Listen or
\* between Listen and Serve: the process, which waits for it, does not hang.
StartReturns == closed ~> (srv \in {"exited", "failed"})

=============================================================================
