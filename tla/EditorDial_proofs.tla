--------------------------- MODULE EditorDial_proofs ---------------------------
(***************************************************************************)
(* An opening that is over leaves nothing behind, and a clean exit of the   *)
(* proxy cuts nobody off: for any number of sessions opened at the same     *)
(* time, of Events streams, and any capacity of their channels.             *)
(***************************************************************************)
EXTENDS EditorDial, TLAPS

-----------------------------------------------------------------------------
\* The inductive invariant.

Place == {"idle", "dispatch", "await", "opening", "held", "query", "answer", "unclaim", "recover", "close",
          "revoke", "drop", "over", "dropped"}
ServePlace == {"none", "dial", "auth", "open", "idle", "exec", "closing", "ended"}
HandlerPlace == {"none", "first", "claimed", "attached", "refused", "ended"}

\* What the variables of the sessions hold.
Shape ==
  /\ pc \in [Session -> Place] /\ serve \in [Session -> ServePlace]
  /\ handler \in [Session -> HandlerPlace] /\ down \in [Session -> Seq({"query", "close"})]
  /\ buf \in Seq(Session \cup {Draining, Refresh})

\* The proxy knows that the session is over, or will read it.
Told(s) == "close" \in Range(down[s]) \/ serve[s] \in {"closing", "ended"}

\* Where the three parties of a session may be at the same time: who is registered has not been
\* claimed, a stream has a handler once it is dialed and is dialed after the dispatch, and a claimed
\* session whose opening has let go is told.
Agreed(s) ==
  /\ s \in pending => pc[s] \in {"dispatch", "await", "unclaim"} /\ handler[s] \in {"none", "first"}
  /\ serve[s] \in {"none", "dial"} => handler[s] = "none"
  /\ pc[s] \in {"idle", "dispatch"} => serve[s] = "none"
  /\ pc[s] \in {"revoke", "drop", "over", "dropped"} /\ handler[s] \in {"claimed", "attached"} => Told(s)

\* An id is on its way to the proxy at most once, and before the proxy serves it.
Queued ==
  \A i \in 1..Len(buf) : buf[i] \notin {Draining, Refresh} =>
    /\ serve[buf[i]] = "none" /\ pc[buf[i]] \notin {"idle", "dispatch"}
    /\ \A j \in 1..Len(buf) : buf[j] = buf[i] => j = i

\* Wait reads the tracker when the Events loop is done and nothing can be added.
Drained ==
  /\ drain \in {"wait", "clean", "forced"} => loop = "done"
  /\ drain = "clean" => Active = {}

DialInv == Shape /\ (\A s \in Session : Agreed(s)) /\ Queued /\ Drained

-----------------------------------------------------------------------------
\* Channels.

\* What is sent or read after an EditorClose on its way leaves it there.
LEMMA CloseStays ==
  ASSUME NEW q \in Seq({"query", "close"})
  PROVE  /\ \A m \in {"query", "close"} :
              Append(q, m) \in Seq({"query", "close"}) /\ ("close" \in Range(q) => "close" \in Range(Append(q, m)))
         /\ "close" \in Range(Append(q, "close"))
         /\ q # <<>> /\ Head(q) = "query" =>
              Tail(q) \in Seq({"query", "close"}) /\ ("close" \in Range(q) => "close" \in Range(Tail(q)))
<1>1. ASSUME NEW m \in {"query", "close"}
      PROVE  /\ Append(q, m) \in Seq({"query", "close"}) /\ Len(Append(q, m)) = Len(q) + 1 /\ Len(q) \in Nat
             /\ Append(q, m)[Len(q) + 1] = m /\ \A i \in 1..Len(q) : Append(q, m)[i] = q[i]
             /\ DOMAIN q = 1..Len(q) /\ DOMAIN Append(q, m) = 1..(Len(q) + 1)
  OBVIOUS
<1>2. Len(q) \in Nat => Len(q) + 1 \in 1..(Len(q) + 1) /\ \A i \in 1..Len(q) : i \in 1..(Len(q) + 1)
  OBVIOUS
<1>3. ASSUME NEW m \in {"query", "close"}, "close" \in Range(q) PROVE "close" \in Range(Append(q, m))
  BY Zenon, <1>1, <1>2, <1>3 DEF Range
<1>4. "close" \in Range(Append(q, "close"))
  BY Zenon, <1>1, <1>2 DEF Range
<1>5. ASSUME q # <<>>, Head(q) = "query"
      PROVE  Tail(q) \in Seq({"query", "close"}) /\ ("close" \in Range(q) => "close" \in Range(Tail(q)))
  <2>1. /\ Tail(q) \in Seq({"query", "close"}) /\ Len(Tail(q)) = Len(q) - 1 /\ Len(q) \in Nat
        /\ q[1] = "query" /\ \A i \in 1..(Len(q) - 1) : Tail(q)[i] = q[i + 1]
        /\ DOMAIN q = 1..Len(q) /\ DOMAIN Tail(q) = 1..(Len(q) - 1)
    BY <1>5
  <2>2. ASSUME NEW i \in 1..Len(q), q[i] = "close" PROVE i - 1 \in 1..(Len(q) - 1) /\ (i - 1) + 1 = i
    BY <2>1, <2>2
  <2>3. ASSUME NEW i \in 1..Len(q), q[i] = "close" PROVE "close" \in Range(Tail(q))
    <3>1. PICK j \in 1..(Len(q) - 1) : j + 1 = i
      BY Zenon, <2>2, <2>3
    <3>2. Tail(q)[j] = "close"
      BY Zenon, <2>1, <2>3, <3>1
    <3> QED  BY Zenon, <2>1, <3>2 DEF Range
  <2> QED  BY Zenon, <2>1, <2>3 DEF Range
<1> QED  BY Zenon, <1>1, <1>3, <1>4, <1>5

\* An event that is no session changes nothing of the queue.
LEMMA EventQueued ==
  ASSUME Shape, Queued, NEW e \in {Draining, Refresh}, UNCHANGED <<pc, serve>>, buf' = Append(buf, e)
  PROVE  Queued' /\ buf' \in Seq(Session \cup {Draining, Refresh})
<1>0. buf \in Seq(Session \cup {Draining, Refresh}) /\ e \in Session \cup {Draining, Refresh}
  BY Zenon DEF Shape
<1>1. /\ buf' \in Seq(Session \cup {Draining, Refresh}) /\ Len(buf') = Len(buf) + 1
      /\ buf'[Len(buf) + 1] = e
      /\ \A i \in 1..Len(buf) : buf'[i] = buf[i]
      /\ \A i \in 1..(Len(buf) + 1) : i \in 1..Len(buf) \/ i = Len(buf) + 1
  BY <1>0
<1>2. ASSUME NEW i \in 1..Len(buf'), buf'[i] \notin {Draining, Refresh}
      PROVE  /\ serve'[buf'[i]] = "none" /\ pc'[buf'[i]] \notin {"idle", "dispatch"}
             /\ \A j \in 1..Len(buf') : buf'[j] = buf'[i] => j = i
  <2>1. i \in 1..Len(buf) /\ buf'[i] = buf[i]
    BY Zenon, <1>1, <1>2
  <2>2. /\ serve[buf[i]] = "none" /\ pc[buf[i]] \notin {"idle", "dispatch"}
        /\ \A j \in 1..Len(buf) : buf[j] = buf[i] => j = i
    BY Zenon, <1>2, <2>1 DEF Queued
  <2>3. ASSUME NEW j \in 1..Len(buf'), buf'[j] = buf'[i] PROVE j = i
    <3>1. j \in 1..Len(buf) /\ buf'[j] = buf[j]
      BY Zenon, <1>1, <1>2, <2>3
    <3> QED  BY Zenon, <2>1, <2>2, <2>3, <3>1
  <2> QED  BY Zenon, <2>1, <2>2, <2>3
<1> QED  BY Zenon, <1>1, <1>2 DEF Queued

-----------------------------------------------------------------------------
\* The steps of one session.

\* The other sessions are as they were.
Apart(s) ==
  \A x \in Session \ {s} : /\ pc'[x] = pc[x] /\ serve'[x] = serve[x] /\ handler'[x] = handler[x]
                           /\ down'[x] = down[x] /\ (x \in pending' <=> x \in pending)

\* A step of a session that keeps its parties agreed keeps the invariant.
LEMMA SessionInv ==
  ASSUME DialInv, NEW s \in Session, Shape', Apart(s), Agreed(s)', UNCHANGED <<buf, loop, drain>>,
         serve[s] \in {"none", "ended"} => serve'[s] = serve[s],
         pc'[s] \in {"idle", "dispatch"} => pc[s] \in {"idle", "dispatch"}
  PROVE  DialInv'
<1>1. \A x \in Session : serve[x] \in {"none", "ended"} => serve'[x] = serve[x]
  BY Zenon DEF Apart
<1>2. \A x \in Session : pc'[x] \in {"idle", "dispatch"} => pc[x] \in {"idle", "dispatch"}
  BY Zenon DEF Apart
<1>3. ASSUME NEW x \in Session PROVE Agreed(x)'
  <2>1. CASE x # s
    <3>1. /\ pc'[x] = pc[x] /\ serve'[x] = serve[x] /\ handler'[x] = handler[x]
          /\ down'[x] = down[x] /\ (x \in pending' <=> x \in pending)
      BY Zenon, <2>1 DEF Apart
    <3>2. Agreed(x)
      BY Zenon DEF DialInv
    <3> QED  BY Zenon, <3>1, <3>2 DEF Agreed, Told
  <2> QED  BY Zenon, <2>1
<1>4. Queued'
  <2>1. ASSUME NEW i \in 1..Len(buf), buf[i] \notin {Draining, Refresh}
        PROVE  /\ serve'[buf[i]] = "none" /\ pc'[buf[i]] \notin {"idle", "dispatch"}
               /\ \A j \in 1..Len(buf) : buf[j] = buf[i] => j = i
    <3>1. /\ serve[buf[i]] = "none" /\ pc[buf[i]] \notin {"idle", "dispatch"}
          /\ \A j \in 1..Len(buf) : buf[j] = buf[i] => j = i
      BY Zenon, <2>1 DEF DialInv, Queued
    <3>2. buf[i] \in Session \cup {Draining, Refresh}
      BY DEF DialInv, Shape
    <3>3. buf[i] \in Session
      BY Zenon, <2>1, <3>2
    <3> QED  BY Zenon, <1>1, <1>2, <3>1, <3>3
  <2> QED  BY Zenon, <2>1 DEF Queued
<1>5. Drained'
  <2>1. Active = {} => Active' = {}
    BY Zenon, <1>1 DEF Active
  <2> QED  BY Zenon, <2>1 DEF DialInv, Drained
<1> QED  BY Zenon, <1>3, <1>4, <1>5 DEF DialInv

\* A step of the opening, to place l.
LEMMA OpeningInv ==
  ASSUME DialInv, NEW s \in Session, NEW l \in Place, Goto(s, l),
         UNCHANGED <<serve, handler, buf, loop, drain>>,
         \A x \in Session \ {s} : (x \in pending' <=> x \in pending) /\ down'[x] = down[x],
         down' \in [Session -> Seq({"query", "close"})],
         s \in pending' => l \in {"dispatch", "await", "unclaim"} /\ handler[s] \in {"none", "first"},
         l \in {"idle", "dispatch"} => pc[s] \in {"idle", "dispatch"},
         l \in {"revoke", "drop", "over", "dropped"} /\ handler[s] \in {"claimed", "attached"} =>
           "close" \in Range(down'[s]) \/ serve[s] \in {"closing", "ended"}
  PROVE  DialInv'
<1>0. Shape /\ Agreed(s) /\ pc \in [Session -> Place]
  BY Zenon DEF DialInv, Shape
<1>1. /\ pc' \in [Session -> Place] /\ pc'[s] = l /\ \A x \in Session \ {s} : pc'[x] = pc[x]
  BY Zenon, <1>0 DEF Goto
<1>2. Shape'
  BY Zenon, <1>0, <1>1 DEF Shape
<1>3. Apart(s)
  BY Zenon, <1>1 DEF Apart
<1>4. Agreed(s)'
  BY Zenon, <1>0, <1>1 DEF Agreed, Told
<1> QED  BY Zenon, <1>1, <1>2, <1>3, <1>4, SessionInv

\* A step of the proxy's goroutine, to place l.
LEMMA ServeInv ==
  ASSUME DialInv, NEW s \in Session, NEW l \in ServePlace \ {"none", "dial"}, ServeGoto(s, l),
         serve[s] \notin {"none", "ended"}, UNCHANGED <<pc, pending, buf, loop, drain>>,
         \A x \in Session \ {s} : handler'[x] = handler[x] /\ down'[x] = down[x],
         handler' \in [Session -> HandlerPlace], down' \in [Session -> Seq({"query", "close"})],
         handler'[s] = handler[s] \/ (handler'[s] = "first" /\ handler[s] = "none"),
         Told(s) => Told(s)'
  PROVE  DialInv'
<1>0. Shape /\ Agreed(s) /\ serve \in [Session -> ServePlace]
  BY Zenon DEF DialInv, Shape
<1>1. /\ serve' \in [Session -> ServePlace] /\ serve'[s] = l /\ \A x \in Session \ {s} : serve'[x] = serve[x]
  BY Zenon, <1>0 DEF ServeGoto
<1>2. Shape'
  BY Zenon, <1>0, <1>1 DEF Shape
<1>3. Apart(s)
  BY Zenon, <1>1 DEF Apart
<1>4. Agreed(s)'
  <2>1. s \in pending' => pc'[s] \in {"dispatch", "await", "unclaim"} /\ handler'[s] \in {"none", "first"}
    BY Zenon, <1>0 DEF Agreed
  <2>2. serve'[s] \notin {"none", "dial"} /\ pc'[s] \notin {"idle", "dispatch"}
    BY Zenon, <1>0, <1>1 DEF Agreed
  <2>3. handler'[s] \in {"claimed", "attached"} => handler'[s] = handler[s]
    BY Zenon
  <2>4. pc'[s] \in {"revoke", "drop", "over", "dropped"} /\ handler'[s] \in {"claimed", "attached"} => Told(s)'
    BY Zenon, <1>0, <2>3 DEF Agreed
  <2> QED  BY Zenon, <2>1, <2>2, <2>4 DEF Agreed
<1>5. pc'[s] \in {"idle", "dispatch"} => pc[s] \in {"idle", "dispatch"}
  BY Zenon
<1> QED  BY Zenon, <1>2, <1>3, <1>4, <1>5, SessionInv

\* A step of the gRPC handler, to place h.
LEMMA HandlerInv ==
  ASSUME DialInv, NEW s \in Session, NEW h \in HandlerPlace \ {"none", "first"},
         handler' = [handler EXCEPT ![s] = h], handler[s] # "none",
         UNCHANGED <<pc, serve, down, buf, loop, drain>>, pending' \in {pending, pending \ {s}},
         s \notin pending',
         h \in {"claimed", "attached"} => s \in pending \/ handler[s] = "claimed"
  PROVE  DialInv'
<1>0. Shape /\ Agreed(s) /\ handler \in [Session -> HandlerPlace]
  BY Zenon DEF DialInv, Shape
<1>1. /\ handler' \in [Session -> HandlerPlace] /\ handler'[s] = h
      /\ \A x \in Session \ {s} : handler'[x] = handler[x]
  BY Zenon, <1>0
<1>2. Shape'
  BY Zenon, <1>0, <1>1 DEF Shape
<1>3. Apart(s)
  BY Zenon, <1>1 DEF Apart
<1>4. Agreed(s)'
  <2>1. serve'[s] \notin {"none", "dial"}
    BY Zenon, <1>0 DEF Agreed
  <2>2. pc'[s] \in {"idle", "dispatch"} => serve'[s] = "none"
    BY Zenon, <1>0 DEF Agreed
  <2>3. ASSUME pc'[s] \in {"revoke", "drop", "over", "dropped"}, handler'[s] \in {"claimed", "attached"}
        PROVE  Told(s)'
    <3>1. pc[s] \in {"revoke", "drop", "over", "dropped"} /\ pc[s] \notin {"dispatch", "await", "unclaim"}
      BY Zenon, <2>3
    <3>2. handler[s] = "claimed"
      BY Zenon, <1>0, <1>1, <2>3, <3>1 DEF Agreed
    <3> QED  BY Zenon, <1>0, <3>1, <3>2 DEF Agreed, Told
  <2> QED  BY Zenon, <2>1, <2>2, <2>3 DEF Agreed
<1>5. /\ serve[s] \in {"none", "ended"} => serve'[s] = serve[s]
      /\ pc'[s] \in {"idle", "dispatch"} => pc[s] \in {"idle", "dispatch"}
  BY Zenon
<1> QED  BY Zenon, <1>2, <1>3, <1>4, <1>5, SessionInv

-----------------------------------------------------------------------------
\* The opening.

\* hub.dispatch puts the id on its way, and the opening waits; or refuses it.
LEMMA DispatchInv ==
  ASSUME DialInv, NEW s \in Session, Dispatch(s)
  PROVE  DialInv'
<1>0. /\ Shape /\ Agreed(s) /\ pc[s] = "dispatch" /\ serve[s] = "none"
      /\ buf \in Seq(Session \cup {Draining, Refresh}) /\ pc \in [Session -> Place]
  BY Zenon DEF DialInv, Dispatch, Agreed, Shape
<1>1. UNCHANGED <<pending, loop, drain, serve, handler, down>>
  BY Zenon DEF Dispatch, proxyVars, wire
<1>2. "unclaim" \in Place /\ "await" \in Place
  BY DEF Place
<1>3. ASSUME NEW l \in {"await", "unclaim"}, Goto(s, l), buf' = buf PROVE DialInv'
  <2>1. l \in Place /\ l \in {"dispatch", "await", "unclaim"} /\ l \notin {"idle", "dispatch"}
        /\ l \notin {"revoke", "drop", "over", "dropped"}
    BY <1>2, <1>3
  <2>2. s \in pending' => l \in {"dispatch", "await", "unclaim"} /\ handler[s] \in {"none", "first"}
    BY Zenon, <1>0, <1>1, <2>1 DEF Agreed
  <2>3. /\ down' \in [Session -> Seq({"query", "close"})]
        /\ \A x \in Session \ {s} : (x \in pending' <=> x \in pending) /\ down'[x] = down[x]
    BY Zenon, <1>0, <1>1 DEF Shape
  <2> QED  BY Zenon, <1>1, <1>3, <2>1, <2>2, <2>3, OpeningInv
<1>4. ASSUME Goto(s, "await"), buf' = Append(buf, s) PROVE DialInv'
  <2>1. /\ pc' \in [Session -> Place] /\ pc'[s] = "await" /\ \A x \in Session \ {s} : pc'[x] = pc[x]
    BY Zenon, <1>0, <1>2, <1>4 DEF Goto
  <2>2. /\ buf' \in Seq(Session \cup {Draining, Refresh}) /\ Len(buf') = Len(buf) + 1
        /\ buf'[Len(buf) + 1] = s
        /\ \A i \in 1..Len(buf) : buf'[i] = buf[i]
        /\ \A i \in 1..(Len(buf) + 1) : i \in 1..Len(buf) \/ i = Len(buf) + 1
        /\ \A i \in 1..Len(buf) : buf[i] \in Session \cup {Draining, Refresh}
    BY <1>0, <1>4
  <2>3. Shape'
    BY Zenon, <1>0, <1>1, <2>1, <2>2 DEF Shape
  <2>4. ASSUME NEW x \in Session PROVE Agreed(x)'
    <3>1. CASE x = s
      <4>1. /\ s \in pending' => pc'[s] \in {"dispatch", "await", "unclaim"} /\ handler'[s] \in {"none", "first"}
            /\ serve'[s] \in {"none", "dial"} => handler'[s] = "none"
        BY Zenon, <1>0, <1>1, <2>1 DEF Agreed
      <4>2. pc'[s] \notin {"idle", "dispatch", "revoke", "drop", "over", "dropped"}
        BY <2>1
      <4> QED  BY Zenon, <3>1, <4>1, <4>2 DEF Agreed
    <3>2. CASE x # s
      <4>1. pc'[x] = pc[x] /\ Agreed(x)
        BY Zenon, <2>1, <3>2 DEF DialInv
      <4> QED  BY Zenon, <1>1, <4>1 DEF Agreed, Told
    <3> QED  BY Zenon, <3>1, <3>2
  <2>5. ASSUME NEW i \in 1..Len(buf), buf[i] \notin {Draining, Refresh}
        PROVE  /\ buf[i] # s /\ serve[buf[i]] = "none" /\ pc'[buf[i]] \notin {"idle", "dispatch"}
               /\ \A j \in 1..Len(buf) : buf[j] = buf[i] => j = i
    <3>1. /\ serve[buf[i]] = "none" /\ pc[buf[i]] \notin {"idle", "dispatch"}
          /\ \A j \in 1..Len(buf) : buf[j] = buf[i] => j = i
      BY Zenon, <2>5 DEF DialInv, Queued
    <3>2. buf[i] # s /\ buf[i] \in Session
      BY Zenon, <1>0, <2>2, <2>5, <3>1
    <3> QED  BY Zenon, <2>1, <3>1, <3>2
  <2>6. ASSUME NEW i \in 1..Len(buf'), buf'[i] \notin {Draining, Refresh}
        PROVE  /\ serve'[buf'[i]] = "none" /\ pc'[buf'[i]] \notin {"idle", "dispatch"}
               /\ \A j \in 1..Len(buf') : buf'[j] = buf'[i] => j = i
    <3>1. CASE i \in 1..Len(buf)
      <4>1. buf'[i] = buf[i]
        BY Zenon, <2>2, <3>1
      <4>2. /\ buf[i] # s /\ serve[buf[i]] = "none" /\ pc'[buf[i]] \notin {"idle", "dispatch"}
            /\ \A j \in 1..Len(buf) : buf[j] = buf[i] => j = i
        BY Zenon, <2>5, <2>6, <3>1, <4>1
      <4>3. ASSUME NEW j \in 1..Len(buf'), buf'[j] = buf'[i] PROVE j = i
        <5>1. j \in 1..Len(buf) /\ buf'[j] = buf[j]
          BY Zenon, <2>2, <4>1, <4>2, <4>3
        <5> QED  BY Zenon, <4>1, <4>2, <4>3, <5>1
      <4> QED  BY Zenon, <1>1, <4>1, <4>2, <4>3
    <3>2. CASE i = Len(buf) + 1
      <4>1. buf'[i] = s
        BY Zenon, <2>2, <3>2
      <4>2. ASSUME NEW j \in 1..Len(buf'), buf'[j] = s PROVE j = i
        <5>1. j \in 1..Len(buf) => buf[j] = s
          BY Zenon, <2>2, <4>2
        <5>2. j \notin 1..Len(buf)
          BY Zenon, <2>5, <2>6, <4>1, <5>1
        <5> QED  BY Zenon, <2>2, <3>2, <5>2
      <4>3. pc'[s] \notin {"idle", "dispatch"}
        BY <2>1
      <4> QED  BY Zenon, <1>0, <1>1, <4>1, <4>2, <4>3
    <3> QED  BY Zenon, <2>2, <3>1, <3>2
  <2>7. Queued'
    BY Zenon, <2>6 DEF Queued
  <2>8. Drained'
    BY Zenon, <1>1 DEF DialInv, Drained, Active
  <2> QED  BY Zenon, <2>3, <2>4, <2>7, <2>8 DEF DialInv
<1>5. \/ Goto(s, "unclaim") /\ buf' = buf
      \/ Goto(s, "await") /\ (buf' = Append(buf, s) \/ buf' = buf)
  BY Zenon DEF Dispatch
<1> QED  BY Zenon, <1>3, <1>4, <1>5

\* The steps of the opening that send nothing.
LEMMA QuietOpening ==
  ASSUME DialInv, NEW s \in Session,
         Open(s) \/ Attached(s) \/ DialTimeout(s) \/ AwaitServing(s) \/ Answered(s) \/ Fails(s)
         \/ Unclaim(s) \/ Recover(s) \/ Revoke(s)
  PROVE  DialInv'
<1>0. /\ Shape /\ Agreed(s) /\ down \in [Session -> Seq({"query", "close"})]
      /\ serve[s] \in {"none", "dial"} => handler[s] = "none"
  BY Zenon DEF DialInv, Shape, Agreed
<1>1. ASSUME NEW l \in Place, Goto(s, l), UNCHANGED <<serve, handler, buf, loop, drain, down>>,
             \A x \in Session \ {s} : x \in pending' <=> x \in pending,
             s \in pending' => l \in {"dispatch", "await", "unclaim"} /\ handler[s] \in {"none", "first"},
             l \in {"idle", "dispatch"} => pc[s] \in {"idle", "dispatch"},
             l \in {"revoke", "drop", "over", "dropped"} =>
               handler[s] \notin {"claimed", "attached"} \/ pc[s] \in {"revoke", "drop"}
      PROVE  DialInv'
  <2>1. l \in {"revoke", "drop", "over", "dropped"} /\ handler[s] \in {"claimed", "attached"} =>
          "close" \in Range(down'[s]) \/ serve[s] \in {"closing", "ended"}
    BY Zenon, <1>0, <1>1 DEF Agreed, Told
  <2>2. /\ down' \in [Session -> Seq({"query", "close"})]
        /\ \A x \in Session \ {s} : (x \in pending' <=> x \in pending) /\ down'[x] = down[x]
    BY Zenon, <1>0, <1>1
  <2> QED  BY Zenon, <1>1, <2>1, <2>2, OpeningInv
<1>2. ASSUME Open(s) PROVE DialInv'
  <2>1. /\ pc[s] = "idle" /\ Goto(s, "dispatch") /\ pending' = pending \cup {s}
        /\ UNCHANGED <<serve, handler, buf, loop, drain, down>>
    BY Zenon, <1>2 DEF Open, hubVars, proxyVars, wire
  <2>2. handler[s] = "none"
    BY Zenon, <1>0, <2>1 DEF Agreed
  <2>3. "dispatch" \in Place /\ "dispatch" \notin {"revoke", "drop", "over", "dropped"}
    BY DEF Place
  <2>4. \A x \in Session \ {s} : x \in pending' <=> x \in pending
    BY Zenon, <2>1
  <2> QED  BY Zenon, <1>1, <2>1, <2>2, <2>3, <2>4
<1>3. ASSUME NEW l \in {"opening", "held", "query", "close"}, Goto(s, l), s \notin pending,
             UNCHANGED <<pending, serve, handler, buf, loop, drain, down>>
      PROVE  DialInv'
  <2>1. l \in Place /\ l \notin {"idle", "dispatch", "revoke", "drop", "over", "dropped"}
    BY <1>3 DEF Place
  <2> QED  BY Zenon, <1>1, <1>3, <2>1
<1>4. Ready(s) => s \notin pending
  BY Zenon, <1>0 DEF Ready, Agreed
<1>5. ASSUME Attached(s) \/ Recover(s) PROVE DialInv'
  <2>1. UNCHANGED <<pending, serve, handler, buf, loop, drain, down>> /\ s \notin pending
    BY Zenon, <1>4, <1>5 DEF Attached, Recover, hubVars, proxyVars, wire
  <2>2. \E l \in {"opening", "held", "query", "close"} : Goto(s, l)
    BY Zenon, <1>5 DEF Attached, Recover
  <2> QED  BY Zenon, <1>3, <2>1, <2>2
<1>6. ASSUME AwaitServing(s) \/ Answered(s) \/ Fails(s) PROVE DialInv'
  <2>1. UNCHANGED <<pending, serve, handler, buf, loop, drain, down>>
    BY Zenon, <1>6 DEF AwaitServing, Answered, Fails, hubVars, proxyVars, wire
  <2>2. pc[s] \in {"opening", "answer"}
    BY Zenon, <1>6 DEF AwaitServing, Answered, Fails
  <2>3. s \notin pending
    BY Zenon, <1>0, <2>2 DEF Agreed
  <2>4. \E l \in {"opening", "held", "query", "close"} : Goto(s, l)
    BY Zenon, <1>6 DEF AwaitServing, Answered, Fails
  <2> QED  BY Zenon, <1>3, <2>1, <2>3, <2>4
<1>7. ASSUME DialTimeout(s) PROVE DialInv'
  <2>1. Goto(s, "unclaim") /\ UNCHANGED <<pending, serve, handler, buf, loop, drain, down>>
    BY Zenon, <1>7 DEF DialTimeout, hubVars, proxyVars, wire
  <2>2. "unclaim" \in Place /\ "unclaim" \notin {"idle", "dispatch", "revoke", "drop", "over", "dropped"}
    BY DEF Place
  <2>3. s \in pending' => handler[s] \in {"none", "first"}
    BY Zenon, <1>0, <2>1 DEF Agreed
  <2> QED  BY Zenon, <1>1, <2>1, <2>2, <2>3
<1>8. ASSUME Unclaim(s) PROVE DialInv'
  <2>1. /\ Goto(s, IF s \in pending THEN "revoke" ELSE "recover") /\ pending' = pending \ {s}
        /\ UNCHANGED <<serve, handler, buf, loop, drain, down>>
    BY Zenon, <1>8 DEF Unclaim, hubVars, proxyVars, wire
  <2>2. PICK l : l = (IF s \in pending THEN "revoke" ELSE "recover")
    BY Zenon
  <2>3. l \in Place /\ l \notin {"idle", "dispatch"} /\ Goto(s, l)
    BY Zenon, <2>1, <2>2 DEF Place
  <2>4. l \in {"revoke", "drop", "over", "dropped"} => s \in pending
    BY Zenon, <2>2
  <2>5. s \in pending => handler[s] \notin {"claimed", "attached"}
    BY Zenon, <1>0 DEF Agreed
  <2>6. s \notin pending' /\ \A x \in Session \ {s} : x \in pending' <=> x \in pending
    BY Zenon, <2>1
  <2> QED  BY Zenon, <1>1, <2>1, <2>3, <2>4, <2>5, <2>6
<1>9. ASSUME Revoke(s) PROVE DialInv'
  <2>1. /\ pending' = pending \ {s} /\ UNCHANGED <<serve, handler, buf, loop, drain, down>>
        /\ pc[s] \in {"revoke", "drop"} /\ \E l \in {"over", "dropped"} : Goto(s, l)
    BY Zenon, <1>9 DEF Revoke, hubVars, proxyVars, wire
  <2>2. PICK l \in {"over", "dropped"} : Goto(s, l)
    BY Zenon, <2>1
  <2>3. l \in Place /\ l \notin {"idle", "dispatch"}
    BY <2>2 DEF Place
  <2>6. s \notin pending' /\ \A x \in Session \ {s} : x \in pending' <=> x \in pending
    BY Zenon, <2>1
  <2> QED  BY Zenon, <1>1, <2>1, <2>2, <2>3, <2>6
<1> QED  BY Zenon, <1>2, <1>5, <1>6, <1>7, <1>8, <1>9

\* A statement is sent, or EditorClose: the opening lets go of a claimed session only when it is told.
LEMMA SendingOpening ==
  ASSUME DialInv, NEW s \in Session, SendQuery(s) \/ Close(s) \/ CloseSession(s)
  PROVE  DialInv'
<1>0. Shape /\ Agreed(s) /\ down \in [Session -> Seq({"query", "close"})] /\ down[s] \in Seq({"query", "close"})
  BY Zenon DEF DialInv, Shape
<1>1. /\ UNCHANGED <<pending, serve, handler, buf, loop, drain>> /\ pc[s] \in {"query", "close", "held"}
  BY Zenon DEF SendQuery, Close, CloseSession, hubVars, proxyVars
<1>2. s \notin pending'
  BY Zenon, <1>0, <1>1 DEF Agreed
<1>3. ASSUME NEW m \in {"query", "close"}, NEW d, d = [down EXCEPT ![s] = Append(@, m)]
      PROVE  /\ d \in [Session -> Seq({"query", "close"})] /\ \A x \in Session \ {s} : d[x] = down[x]
             /\ m = "close" => "close" \in Range(d[s])
  <2>1. Append(down[s], m) \in Seq({"query", "close"})
    BY Zenon, <1>0, CloseStays
  <2>2. m = "close" => "close" \in Range(Append(down[s], m))
    BY Zenon, <1>0, CloseStays
  <2>3. /\ d \in [Session -> Seq({"query", "close"})] /\ d[s] = Append(down[s], m)
        /\ \A x \in Session \ {s} : d[x] = down[x]
    BY Zenon, <1>0, <1>3, <2>1
  <2> QED  BY Zenon, <2>2, <2>3
<1>4. ASSUME NEW l \in {"close", "answer", "revoke", "drop"}, Goto(s, l),
             down' \in [Session -> Seq({"query", "close"})], \A x \in Session \ {s} : down'[x] = down[x],
             l \in {"revoke", "drop"} => handler[s] \notin {"claimed", "attached"} \/ "close" \in Range(down'[s])
                                         \/ serve[s] \in {"closing", "ended"}
      PROVE  DialInv'
  <2>1. l \in Place /\ l \notin {"idle", "dispatch"} /\ l \notin {"over", "dropped"}
    BY <1>4 DEF Place
  <2>2. \A x \in Session \ {s} : (x \in pending' <=> x \in pending) /\ down'[x] = down[x]
    BY Zenon, <1>1, <1>4
  <2> QED  BY Zenon, <1>1, <1>2, <1>4, <2>1, <2>2, OpeningInv
<1>5. CASE SendQuery(s)
  <2>1. \/ Goto(s, "close") /\ down' = down
        \/ Goto(s, "answer") /\ down' = [down EXCEPT ![s] = Append(@, "query")]
    BY Zenon, <1>5 DEF SendQuery
  <2>2. "close" \notin {"revoke", "drop"} /\ "answer" \notin {"revoke", "drop"}
    OBVIOUS
  <2> QED  BY Zenon, <1>0, <1>3, <1>4, <2>1, <2>2
<1>6. CASE Close(s) \/ CloseSession(s)
  <2>1. TellClose(s) /\ \E l \in {"revoke", "drop"} : Goto(s, l)
    BY Zenon, <1>6 DEF Close, CloseSession
  <2>2. PICK l \in {"revoke", "drop"} : Goto(s, l)
    BY Zenon, <2>1
  <2>3. CASE handler[s] = "ended" \/ serve[s] \in {"closing", "ended"}
    <3>1. down' = down
      BY Zenon, <2>1, <2>3 DEF TellClose
    <3>2. handler[s] \notin {"claimed", "attached"} \/ serve[s] \in {"closing", "ended"}
      BY Zenon, <2>3
    <3> QED  BY Zenon, <1>0, <1>4, <2>2, <3>1, <3>2
  <2>4. CASE ~(handler[s] = "ended" \/ serve[s] \in {"closing", "ended"})
    <3>1. down' = [down EXCEPT ![s] = Append(@, "close")]
      BY Zenon, <2>1, <2>4 DEF TellClose
    <3>2. /\ down' \in [Session -> Seq({"query", "close"})] /\ \A x \in Session \ {s} : down'[x] = down[x]
          /\ "close" \in Range(down'[s])
      BY Zenon, <1>3, <3>1
    <3> QED  BY Zenon, <1>4, <2>2, <3>2
  <2> QED  BY Zenon, <2>3, <2>4
<1> QED  BY Zenon, <1>5, <1>6

-----------------------------------------------------------------------------
\* The handler and the proxy.

LEMMA HandlerSteps ==
  ASSUME DialInv, NEW s \in Session, Handler(s) \/ HandlerRejects(s)
  PROVE  DialInv'
<1>0. Agreed(s)
  BY Zenon DEF DialInv
<1>1. UNCHANGED <<pc, serve, down, buf, loop, drain>>
  BY Zenon DEF Handler, Claim, Complete, HandlerEnds, HandlerRejects, hubVars, proxyVars
<1>2. CASE Claim(s)
  <2>1. /\ handler[s] = "first" /\ pending' = pending \ {s}
        /\ handler' = [handler EXCEPT ![s] = IF s \in pending THEN "claimed" ELSE "refused"]
    BY Zenon, <1>2 DEF Claim
  <2>2. PICK h : h = (IF s \in pending THEN "claimed" ELSE "refused")
    BY Zenon
  <2>3. h \in HandlerPlace \ {"none", "first"} /\ handler[s] # "none" /\ s \notin pending'
        /\ (h \in {"claimed", "attached"} => s \in pending)
    BY Zenon, <2>1, <2>2 DEF HandlerPlace
  <2>4. handler' = [handler EXCEPT ![s] = h]
    BY Zenon, <2>1, <2>2
  <2> QED  BY Zenon, <1>1, <2>1, <2>3, <2>4, HandlerInv
<1>3. CASE Complete(s)
  <2>1. handler[s] = "claimed" /\ pending' = pending /\ handler' = [handler EXCEPT ![s] = "attached"]
    BY Zenon, <1>3 DEF Complete
  <2>2. s \notin pending
    BY Zenon, <1>0, <2>1 DEF Agreed
  <2>3. "attached" \in HandlerPlace \ {"none", "first"} /\ handler[s] # "none"
    BY <2>1 DEF HandlerPlace
  <2> QED  BY Zenon, <1>1, <2>1, <2>2, <2>3, HandlerInv
<1>4. CASE HandlerEnds(s) \/ HandlerRejects(s)
  <2>1. /\ handler[s] = "attached" /\ pending' = pending \ {s} /\ handler' = [handler EXCEPT ![s] = "ended"]
    BY Zenon, <1>4 DEF HandlerEnds, HandlerRejects
  <2>2. s \notin pending'
    BY Zenon, <2>1
  <2>3. /\ "ended" \in HandlerPlace \ {"none", "first"} /\ handler[s] # "none"
        /\ "ended" \notin {"claimed", "attached"}
    BY <2>1 DEF HandlerPlace
  <2> QED  BY Zenon, <1>1, <2>1, <2>2, <2>3, HandlerInv
<1> QED  BY Zenon, <1>2, <1>3, <1>4 DEF Handler

LEMMA ServeSteps ==
  ASSUME DialInv, NEW s \in Session, Serve(s)
  PROVE  DialInv'
<1>0. /\ Shape /\ Agreed(s) /\ handler \in [Session -> HandlerPlace]
      /\ down \in [Session -> Seq({"query", "close"})] /\ down[s] \in Seq({"query", "close"})
  BY Zenon DEF DialInv, Shape
<1>1. UNCHANGED <<pc, pending, buf, loop, drain>>
  BY Zenon DEF Serve, DialFails, Dial, Authenticate, OpenAborted, OpenDone, IdleStops, StartQuery, FinishQuery,
     CloseStream, Leave, hubVars
<1>2. serve[s] \notin {"none", "ended"}
  <2>1. serve[s] \in {"dial", "auth", "open", "idle", "exec", "closing"}
    BY Zenon DEF Serve, DialFails, Dial, Authenticate, OpenAborted, OpenDone, IdleStops, StartQuery,
       FinishQuery, CloseStream
  <2> QED  BY <2>1
<1>3. ASSUME NEW l \in {"auth", "open", "idle", "exec", "closing", "ended"}, ServeGoto(s, l),
             handler' = handler, down' \in [Session -> Seq({"query", "close"})],
             \A x \in Session \ {s} : down'[x] = down[x],
             \/ l \in {"closing", "ended"}
             \/ serve[s] \notin {"closing", "ended"} /\ ("close" \in Range(down[s]) => "close" \in Range(down'[s]))
      PROVE  DialInv'
  <2>1. l \in ServePlace \ {"none", "dial"}
    BY <1>3 DEF ServePlace
  <2>2. serve'[s] = l
    BY Zenon, <1>0, <1>3 DEF ServeGoto, Shape
  <2>3. Told(s) => Told(s)'
    BY Zenon, <1>3, <2>2 DEF Told
  <2>4. handler' \in [Session -> HandlerPlace] /\ \A x \in Session \ {s} : handler'[x] = handler[x] /\ down'[x] = down[x]
    BY Zenon, <1>0, <1>3
  <2> QED  BY Zenon, <1>1, <1>2, <1>3, <2>1, <2>3, <2>4, ServeInv
<1>4. ASSUME Leave(s) PROVE DialInv'
  <2>1. ServeGoto(s, "closing") /\ handler' = handler /\ down' = [down EXCEPT ![s] = <<>>]
    BY Zenon, <1>4 DEF Leave
  <2>2. <<>> \in Seq({"query", "close"})
    OBVIOUS
  <2>3. down' \in [Session -> Seq({"query", "close"})] /\ \A x \in Session \ {s} : down'[x] = down[x]
    BY Zenon, <1>0, <2>1, <2>2
  <2> QED  BY Zenon, <1>3, <2>1, <2>3
<1>5. ASSUME NEW l \in {"auth", "open", "idle", "exec", "closing", "ended"}, ServeGoto(s, l), handler' = handler,
             down' = down, l \in {"closing", "ended"} \/ serve[s] \notin {"closing", "ended"}
      PROVE  DialInv'
  BY Zenon, <1>0, <1>3, <1>5
<1>6. CASE DialFails(s) \/ CloseStream(s)
  <2>1. ServeGoto(s, "ended") /\ handler' = handler /\ down' = down
    BY Zenon, <1>6 DEF DialFails, CloseStream, wire
  <2> QED  BY Zenon, <1>5, <2>1
<1>7. CASE Dial(s)
  <2>1. /\ serve[s] = "dial" /\ ServeGoto(s, "auth") /\ handler' = [handler EXCEPT ![s] = "first"]
        /\ down' = down
    BY Zenon, <1>7 DEF Dial
  <2>2. handler[s] = "none"
    BY Zenon, <1>0, <2>1 DEF Agreed
  <2>3. "first" \in HandlerPlace /\ "auth" \in ServePlace \ {"none", "dial"} /\ serve[s] \notin {"closing", "ended"}
    BY <2>1 DEF HandlerPlace, ServePlace
  <2>4. /\ handler' \in [Session -> HandlerPlace] /\ handler'[s] = "first"
        /\ \A x \in Session \ {s} : handler'[x] = handler[x] /\ down'[x] = down[x]
    BY Zenon, <1>0, <2>1, <2>3
  <2>5. Told(s) => Told(s)'
    BY Zenon, <2>1, <2>3 DEF Told
  <2>6. down' \in [Session -> Seq({"query", "close"})]
    BY Zenon, <1>0, <2>1
  <2> QED  BY Zenon, <1>1, <1>2, <2>1, <2>2, <2>3, <2>4, <2>5, <2>6, ServeInv
<1>8. CASE Authenticate(s) \/ OpenDone(s) \/ FinishQuery(s)
  <2>1. serve[s] \in {"auth", "open", "exec"}
    BY Zenon, <1>8 DEF Authenticate, OpenDone, FinishQuery
  <2>2. serve[s] \notin {"closing", "ended"}
    BY <2>1
  <2>3. \/ Leave(s)
        \/ /\ \E l \in {"auth", "open", "idle", "exec", "closing", "ended"} : ServeGoto(s, l)
           /\ handler' = handler /\ down' = down
    BY Zenon, <1>8 DEF Authenticate, OpenDone, FinishQuery, wire
  <2> QED  BY Zenon, <1>4, <1>5, <2>2, <2>3
<1>9. CASE OpenAborted(s) \/ IdleStops(s)
  BY Zenon, <1>4, <1>9 DEF OpenAborted, IdleStops
<1>10. CASE StartQuery(s)
  <2>1. /\ serve[s] = "idle" /\ down[s] # <<>> /\ Head(down[s]) = "query" /\ ServeGoto(s, "exec")
        /\ down' = [down EXCEPT ![s] = Tail(@)] /\ handler' = handler
    BY Zenon, <1>10 DEF StartQuery
  <2>2. Tail(down[s]) \in Seq({"query", "close"}) /\ ("close" \in Range(down[s]) => "close" \in Range(Tail(down[s])))
    BY Zenon, <1>0, <2>1, CloseStays
  <2>3. /\ down' \in [Session -> Seq({"query", "close"})] /\ \A x \in Session \ {s} : down'[x] = down[x]
        /\ down'[s] = Tail(down[s])
    BY Zenon, <1>0, <2>1, <2>2
  <2>4. serve[s] \notin {"closing", "ended"}
    BY <2>1
  <2> QED  BY Zenon, <1>3, <2>1, <2>2, <2>3, <2>4
<1> QED  BY Zenon, <1>6, <1>7, <1>8, <1>9, <1>10 DEF Serve

-----------------------------------------------------------------------------
\* The hub, the Events loop and the drain.

\* A channel that is empty, or holds only the Draining event.
LEMMA NothingQueued ==
  ASSUME buf' = <<>> \/ buf' = <<Draining>>
  PROVE  Queued' /\ buf' \in Seq(Session \cup {Draining, Refresh})
<1>1. CASE buf' = <<>>
  <2>1. <<>> \in Seq(Session \cup {Draining, Refresh}) /\ 1..Len(<<>>) = {}
    OBVIOUS
  <2> QED  BY Zenon, <1>1, <2>1 DEF Queued
<1>2. CASE buf' = <<Draining>>
  <2>1. <<Draining>>[1] = Draining /\ \A i \in 1..Len(<<Draining>>) : i = 1
    OBVIOUS
  <2>2. Draining \in Session \cup {Draining, Refresh}
    BY Zenon
  <2>3. <<Draining>> \in Seq(Session \cup {Draining, Refresh})
    BY <2>2
  <2> QED  BY Zenon, <1>2, <2>1, <2>3 DEF Queued
<1> QED  BY Zenon, <1>1, <1>2

\* A step that leaves the sessions as they are.
LEMMA HubInv ==
  ASSUME DialInv, UNCHANGED <<pc, pending, serve, handler, down>>,
         \/ buf' = buf \/ buf' = <<>> \/ buf' = <<Draining>>
         \/ \E e \in {Draining, Refresh} : buf' = Append(buf, e),
         Drained'
  PROVE  DialInv'
<1>1. Queued' /\ buf' \in Seq(Session \cup {Draining, Refresh})
  <2>1. CASE buf' = buf
    BY Zenon, <2>1 DEF DialInv, Shape, Queued
  <2>2. CASE buf' = <<>> \/ buf' = <<Draining>>
    BY Zenon, <2>2, NothingQueued
  <2>3. ASSUME NEW e \in {Draining, Refresh}, buf' = Append(buf, e)
        PROVE  Queued' /\ buf' \in Seq(Session \cup {Draining, Refresh})
    BY Zenon, <2>3, EventQueued DEF DialInv
  <2> QED  BY Zenon, <2>1, <2>2, <2>3
<1>2. Shape'
  BY Zenon, <1>1 DEF DialInv, Shape
<1>3. \A s \in Session : Agreed(s)'
  BY Zenon DEF DialInv, Agreed, Told
<1> QED  BY Zenon, <1>1, <1>2, <1>3 DEF DialInv

LEMMA HubSteps ==
  ASSUME DialInv,
         \/ \E k \in Stream : Deregister(k)
         \/ RequestRefresh \/ BeginDraining \/ BroadcastDraining \/ EventsOpen \/ EventsEnd
         \/ DrainBegin \/ EventsStop \/ DrainEventsDone \/ DrainClean
  PROVE  DialInv'
<1>1. UNCHANGED <<pc, pending, serve, handler, down>>
  BY Zenon DEF Deregister, RequestRefresh, BeginDraining, BroadcastDraining, EventsOpen, EventsEnd, DrainBegin,
     EventsStop, DrainEventsDone, DrainClean, proxyVars, wire
<1>2. \/ buf' = buf \/ buf' = <<>> \/ buf' = <<Draining>>
      \/ \E e \in {Draining, Refresh} : buf' = Append(buf, e)
  BY Zenon DEF Deregister, RequestRefresh, BeginDraining, BroadcastDraining, EventsOpen, Register, EventsEnd,
     DrainBegin, EventsStop, DrainEventsDone, DrainClean
<1>3. Drained /\ Active' = Active
  BY Zenon, <1>1 DEF DialInv, Active
<1>4. Drained'
  <2>1. CASE (\E k \in Stream : Deregister(k)) \/ RequestRefresh \/ BeginDraining \/ BroadcastDraining
    <3>1. UNCHANGED <<loop, drain>>
      BY Zenon, <2>1 DEF Deregister, RequestRefresh, BeginDraining, BroadcastDraining
    <3> QED  BY Zenon, <1>3, <3>1 DEF Drained
  <2>2. CASE EventsOpen \/ EventsEnd
    <3>1. drain' = drain /\ loop # "done"
      BY Zenon, <2>2 DEF EventsOpen, EventsEnd
    <3> QED  BY Zenon, <1>3, <3>1 DEF Drained
  <2>3. CASE DrainBegin
    <3>1. drain' = "events"
      BY Zenon, <2>3 DEF DrainBegin
    <3> QED  BY Zenon, <3>1 DEF Drained
  <2>4. CASE EventsStop
    <3>1. drain' = drain /\ loop' = "done"
      BY Zenon, <2>4 DEF EventsStop
    <3> QED  BY Zenon, <1>3, <3>1 DEF Drained
  <2>5. CASE DrainEventsDone
    <3>1. drain' = "wait" /\ loop' = "done"
      BY Zenon, <2>5 DEF DrainEventsDone
    <3> QED  BY Zenon, <3>1 DEF Drained
  <2>6. CASE DrainClean
    <3>1. drain = "wait" /\ Active = {} /\ loop' = loop
      BY Zenon, <2>6 DEF DrainClean
    <3> QED  BY Zenon, <1>3, <3>1 DEF Drained
  <2> QED  BY Zenon, <2>1, <2>2, <2>3, <2>4, <2>5, <2>6
<1> QED  BY Zenon, <1>1, <1>2, <1>4, HubInv

\* onOpenEditor: the id that arrives is new to the proxy, and has not been dialed.
LEMMA EventsRecvInv ==
  ASSUME DialInv, EventsRecv
  PROVE  DialInv'
<1>0. /\ Shape /\ Queued /\ Drained /\ buf \in Seq(Session \cup {Draining, Refresh})
      /\ serve \in [Session -> ServePlace] /\ loop = "up" /\ buf # <<>>
      /\ UNCHANGED <<pc, pending, drain, handler, down>>
  BY Zenon DEF DialInv, Shape, EventsRecv, wire
<1>1. /\ Len(buf) \in Nat /\ 1 \in 1..Len(buf) /\ buf[1] = Head(buf) /\ Head(buf) \in Session \cup {Draining, Refresh}
      /\ Tail(buf) \in Seq(Session \cup {Draining, Refresh})
      /\ Len(Tail(buf)) = Len(buf) - 1
      /\ \A i \in 1..(Len(buf) - 1) : Tail(buf)[i] = buf[i + 1]
  BY <1>0
<1>2. \A i \in 1..(Len(buf) - 1) : i + 1 \in 1..Len(buf) /\ i + 1 # 1 /\ \A j \in 1..(Len(buf) - 1) : j + 1 = i + 1 => j = i
  BY <1>1
<1>3. Drained'
  <2>1. drain \notin {"wait", "clean", "forced"}
    BY Zenon, <1>0 DEF Drained
  <2> QED  BY Zenon, <1>0, <2>1 DEF Drained
<1>4. CASE Head(buf) = Draining
  <2>1. serve' = serve /\ buf' = <<>>
    BY Zenon, <1>4 DEF EventsRecv
  <2> QED  BY Zenon, <1>0, <1>3, <2>1, HubInv
<1>5. ASSUME Head(buf) # Draining, NEW i \in 1..Len(buf'), buf'[i] \notin {Draining, Refresh}
      PROVE  /\ i + 1 \in 1..Len(buf) /\ buf'[i] = buf[i + 1] /\ buf'[i] # Head(buf)
             /\ serve[buf'[i]] = "none" /\ pc[buf'[i]] \notin {"idle", "dispatch"}
             /\ \A j \in 1..Len(buf') : buf'[j] = buf'[i] => j = i
  <2>1. buf' = Tail(buf) /\ Len(buf') = Len(buf) - 1
    BY Zenon, <1>1, <1>5 DEF EventsRecv
  <2>2. i \in 1..(Len(buf) - 1) /\ i + 1 \in 1..Len(buf) /\ i + 1 # 1 /\ buf'[i] = buf[i + 1]
    BY Zenon, <1>1, <1>2, <1>5, <2>1
  <2>3. PICK k \in 1..Len(buf) : k = i + 1 /\ k # 1 /\ buf'[i] = buf[k]
    BY Zenon, <2>2
  <2>4. /\ serve[buf[k]] = "none" /\ pc[buf[k]] \notin {"idle", "dispatch"}
        /\ \A j \in 1..Len(buf) : buf[j] = buf[k] => j = k
    BY Zenon, <1>0, <1>5, <2>3 DEF Queued
  <2>5. Head(buf) # buf'[i]
    BY Zenon, <1>1, <2>3, <2>4
  <2>6. ASSUME NEW j \in 1..Len(buf'), buf'[j] = buf'[i] PROVE j = i
    <3>1. j \in 1..(Len(buf) - 1) /\ j + 1 \in 1..Len(buf) /\ buf'[j] = buf[j + 1]
      BY Zenon, <1>1, <1>2, <2>1
    <3>2. j + 1 = i + 1
      BY Zenon, <2>3, <2>4, <2>6, <3>1
    <3> QED  BY Zenon, <1>2, <2>2, <3>1, <3>2
  <2> QED  BY Zenon, <2>2, <2>3, <2>4, <2>5, <2>6
<1>6. CASE Head(buf) = Refresh /\ Head(buf) # Draining
  <2>1. serve' = serve /\ buf' = Tail(buf)
    BY Zenon, <1>6 DEF EventsRecv
  <2>2. Queued'
    BY Zenon, <1>0, <1>5, <1>6, <2>1 DEF Queued
  <2>3. Shape'
    BY Zenon, <1>0, <1>1, <2>1 DEF Shape
  <2>4. \A s \in Session : Agreed(s)'
    BY Zenon, <1>0, <2>1 DEF DialInv, Agreed, Told
  <2> QED  BY Zenon, <1>3, <2>2, <2>3, <2>4 DEF DialInv
<1>7. CASE Head(buf) \notin {Draining, Refresh}
  <2>0. PICK h \in Session : h = Head(buf)
    BY Zenon, <1>1, <1>7
  <2>1. serve' = [serve EXCEPT ![h] = "dial"] /\ buf' = Tail(buf)
    BY Zenon, <1>7, <2>0 DEF EventsRecv, ServeGoto
  <2>2. serve[h] = "none" /\ pc[h] \notin {"idle", "dispatch"}
    BY Zenon, <1>0, <1>1, <1>7, <2>0 DEF Queued
  <2>3. "dial" \in ServePlace /\ "dial" # "none"
    BY DEF ServePlace
  <2>4. /\ serve' \in [Session -> ServePlace] /\ serve'[h] = "dial"
        /\ \A x \in Session : x # h => serve'[x] = serve[x]
    BY Zenon, <1>0, <2>1, <2>3
  <2>5. Shape'
    BY Zenon, <1>0, <1>1, <2>1, <2>4 DEF Shape
  <2>6. ASSUME NEW i \in 1..Len(buf'), buf'[i] \notin {Draining, Refresh}
        PROVE  /\ serve'[buf'[i]] = "none" /\ pc'[buf'[i]] \notin {"idle", "dispatch"}
               /\ \A j \in 1..Len(buf') : buf'[j] = buf'[i] => j = i
    <3>1. /\ i + 1 \in 1..Len(buf) /\ buf'[i] = buf[i + 1] /\ buf'[i] # Head(buf)
          /\ serve[buf'[i]] = "none" /\ pc[buf'[i]] \notin {"idle", "dispatch"}
          /\ \A j \in 1..Len(buf') : buf'[j] = buf'[i] => j = i
      BY Zenon, <1>5, <1>7, <2>6
    <3>2. buf[i + 1] \in Session \cup {Draining, Refresh}
      BY <1>0, <3>1
    <3>3. buf'[i] \in Session
      BY Zenon, <2>6, <3>1, <3>2
    <3> QED  BY Zenon, <1>0, <2>0, <2>4, <3>1, <3>3
  <2>7. ASSUME NEW x \in Session PROVE Agreed(x)'
    <3>0. Agreed(x)
      BY Zenon DEF DialInv
    <3>1. CASE x = h
      <4>1. handler'[h] = "none" /\ "none" \notin {"claimed", "attached"}
        BY Zenon, <1>0, <2>2, <3>0, <3>1 DEF Agreed
      <4> QED  BY Zenon, <1>0, <2>2, <2>4, <3>0, <3>1, <4>1 DEF Agreed
    <3>2. CASE x # h
      BY Zenon, <1>0, <2>4, <3>0, <3>2 DEF Agreed, Told
    <3> QED  BY Zenon, <3>1, <3>2
  <2>8. Queued'
    BY Zenon, <2>6 DEF Queued
  <2> QED  BY Zenon, <1>3, <2>5, <2>7, <2>8 DEF DialInv
<1> QED  BY Zenon, <1>4, <1>6, <1>7

\* The process exits: every stream breaks.
LEMMA ForcedInv ==
  ASSUME DialInv, DrainForced
  PROVE  DialInv'
<1>0. /\ Shape /\ serve \in [Session -> ServePlace] /\ UNCHANGED <<pc, pending, buf, handler, loop>>
      /\ drain = "wait" /\ drain' = "forced" /\ down' = [s \in Session |-> <<>>]
      /\ serve' = [s \in Session |-> IF s \in Active THEN "ended" ELSE serve[s]]
  BY Zenon DEF DialInv, Shape, DrainForced
<1>1. "ended" \in ServePlace /\ <<>> \in Seq({"query", "close"}) /\ "forced" # "clean"
  BY DEF ServePlace
<1>2. serve' \in [Session -> ServePlace] /\ down' \in [Session -> Seq({"query", "close"})]
  BY Zenon, <1>0, <1>1
<1>3. Shape'
  BY Zenon, <1>0, <1>2 DEF Shape
<1>4. \A s \in Session : serve'[s] = IF serve[s] = "none" THEN "none" ELSE "ended"
  BY Zenon, <1>0 DEF Active
<1>5. ASSUME NEW s \in Session PROVE Agreed(s)'
  <2>0. Agreed(s)
    BY Zenon DEF DialInv
  <2>1. serve'[s] \in {"none", "dial"} => serve[s] = "none"
    BY Zenon, <1>4
  <2>2. serve[s] # "none" => serve'[s] \in {"closing", "ended"}
    BY Zenon, <1>4
  <2>3. handler[s] \in {"claimed", "attached"} => serve[s] # "none"
    BY Zenon, <2>0 DEF Agreed
  <2>4. pc[s] \in {"idle", "dispatch"} => serve'[s] = "none"
    BY Zenon, <1>4, <2>0 DEF Agreed
  <2> QED  BY Zenon, <1>0, <2>0, <2>1, <2>2, <2>3, <2>4 DEF Agreed, Told
<1>6. Queued'
  <2>1. ASSUME NEW i \in 1..Len(buf), buf[i] \notin {Draining, Refresh} PROVE serve'[buf[i]] = "none"
    <3>1. serve[buf[i]] = "none"
      BY Zenon, <2>1 DEF DialInv, Queued
    <3>2. buf[i] \in Session \cup {Draining, Refresh}
      BY DEF DialInv, Shape
    <3> QED  BY Zenon, <1>4, <2>1, <3>1, <3>2
  <2>2. ASSUME NEW i \in 1..Len(buf), buf[i] \notin {Draining, Refresh}
        PROVE  pc[buf[i]] \notin {"idle", "dispatch"} /\ \A j \in 1..Len(buf) : buf[j] = buf[i] => j = i
    BY Zenon, <2>2 DEF DialInv, Queued
  <2> QED  BY Zenon, <1>0, <2>1, <2>2 DEF Queued
<1>7. Drained'
  <2>1. loop = "done"
    BY Zenon, <1>0 DEF DialInv, Drained
  <2> QED  BY Zenon, <1>0, <1>1, <2>1 DEF Drained
<1> QED  BY Zenon, <1>3, <1>5, <1>6, <1>7 DEF DialInv

-----------------------------------------------------------------------------
\* The theorems.

LEMMA DialStep ==
  ASSUME DialInv, [Next]_vars
  PROVE  DialInv'
<1>1. ASSUME UNCHANGED <<pc, pending, buf, loop, drain, serve, handler, down>> PROVE DialInv'
  <2>1. Drained'
    BY Zenon, <1>1 DEF DialInv, Drained, Active
  <2> QED  BY Zenon, <1>1, <2>1, HubInv
<1>2. ASSUME NEW s \in Session, Opening(s) PROVE DialInv'
  BY Zenon, <1>2, DispatchInv, QuietOpening, SendingOpening DEF Opening
<1>3. ASSUME NEW s \in Session, TargetOpened(s) \/ Reap(s) PROVE DialInv'
  <2>1. UNCHANGED <<pc, pending, buf, loop, drain, serve, handler, down>>
    BY Zenon, <1>3 DEF TargetOpened, Reap, hubVars, wire
  <2> QED  BY Zenon, <1>1, <2>1
<1>4. ASSUME NEW s \in Session,
             Open(s) \/ Opening(s) \/ Handler(s) \/ HandlerRejects(s) \/ Serve(s) \/ TargetOpened(s) \/ Reap(s)
      PROVE  DialInv'
  BY Zenon, <1>2, <1>3, <1>4, QuietOpening, HandlerSteps, ServeSteps
<1>5. CASE UNCHANGED vars
  <2>1. UNCHANGED <<pc, pending, buf, loop, drain, serve, handler, down>>
    BY Zenon, <1>5 DEF vars, hubVars, proxyVars, wire
  <2> QED  BY Zenon, <1>1, <2>1
<1> QED  BY Zenon, <1>4, <1>5, HubSteps, EventsRecvInv, ForcedInv DEF Next

LEMMA DialInit == Init => DialInv
<1> SUFFICES ASSUME Init PROVE DialInv
  BY Zenon
<1>1. "idle" \in Place /\ "none" \in ServePlace /\ "none" \in HandlerPlace /\ <<>> \in Seq({"query", "close"})
      /\ <<>> \in Seq(Session \cup {Draining, Refresh}) /\ 1..Len(<<>>) = {}
  BY DEF Place, ServePlace, HandlerPlace
<1>2. /\ pc = [s \in Session |-> "idle"] /\ pending = {} /\ buf = <<>> /\ drain = "no"
      /\ serve = [s \in Session |-> "none"] /\ handler = [s \in Session |-> "none"]
      /\ down = [s \in Session |-> <<>>]
  BY Zenon DEF Init
<1>3. Shape
  BY Zenon, <1>1, <1>2 DEF Shape
<1>4. \A s \in Session : Agreed(s)
  BY Zenon, <1>2 DEF Agreed
<1>5. Queued
  BY Zenon, <1>1, <1>2 DEF Queued
<1>6. Drained
  BY Zenon, <1>2 DEF Drained
<1> QED  BY Zenon, <1>3, <1>4, <1>5, <1>6 DEF DialInv

\* The invariant: a registered id has not been claimed; a stream has a handler only once it is dialed,
\* and is dialed at most once, after the dispatch; a claimed session whose opening has let go is told
\* to close; and the drain counts sessions only when none can be added.
THEOREM DialInvariant == Spec => []DialInv
BY DialInit, DialStep, PTL DEF Spec

\* runBatch, openSession and closeSession leave nothing behind, whichever of the timeout and the claim
\* (EditorSessionRegistry.attach) comes first.
THEOREM OpeningsLeaveNothing == Spec => []NothingAbandoned
<1>1. DialInv => NothingAbandoned
  <2> SUFFICES ASSUME DialInv, NEW s \in Session, Over(s)
               PROVE  /\ s \notin pending
                      /\ handler[s] \in {"claimed", "attached"} =>
                           "close" \in Range(down[s]) \/ serve[s] \in {"closing", "ended"}
    BY Zenon DEF NothingAbandoned
  <2>1. Agreed(s) /\ pc[s] \in {"over", "dropped"}
    BY Zenon DEF DialInv, Over
  <2>2. s \notin pending
    BY Zenon, <2>1 DEF Agreed
  <2>3. handler[s] \in {"claimed", "attached"} => Told(s)
    BY Zenon, <2>1 DEF Agreed
  <2> QED  BY Zenon, <2>2, <2>3 DEF Told
<1> QED  BY <1>1, DialInvariant, PTL

\* gracefulDrain of the proxy: when editorSessions.Wait has read zero, no session is served and none
\* can start.
THEOREM CleanExitCutsNobody == Spec => []CleanExitIsComplete
<1>1. DialInv => CleanExitIsComplete
  BY Zenon DEF DialInv, Drained, CleanExitIsComplete
<1> QED  BY <1>1, DialInvariant, PTL
====
