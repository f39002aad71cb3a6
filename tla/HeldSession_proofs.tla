-------------------------- MODULE HeldSession_proofs --------------------------
(***************************************************************************)
(* For any number of tasks and statements: a task on a held editor session *)
(* reads only the answers to its own statements, no batch is interrupted   *)
(* on the target connection, and nothing sent after EditorClose is         *)
(* executed.                                                               *)
(***************************************************************************)
EXTENDS HeldSession, TLAPS

-----------------------------------------------------------------------------
\* The inductive invariant: at most one statement is on its way through the stream,
\* and it is the one the holder of the mutex waits for, until the session is closed.

NoQuery(d) == \A i \in DOMAIN d : d[i].kind # "query"
OnlyQuery(d, q) ==
  \E i \in DOMAIN d :
    /\ d[i].kind = "query" /\ d[i].stmt = q
    /\ \A j \in DOMAIN d : d[j].kind = "query" => j = i

Executing == serve \in {"exec", "killed"}

\* Nothing is on its way ...
Quiet == NoQuery(down) /\ held = <<>> /\ ~Executing /\ up = <<>>

\* ... or the statement q is in one place: sent, held back, executed or answered.
Queued(q) == OnlyQuery(down, q) /\ held = <<>> /\ ~Executing /\ up = <<>>
HeldBack(q) == NoQuery(down) /\ held = <<q>> /\ ~Executing /\ up = <<>>
Underway(q) == NoQuery(down) /\ held = <<>> /\ Executing /\ cur = q /\ up = <<>>
Answered(q) ==
  NoQuery(down) /\ held = <<>> /\ ~Executing /\ Len(up) = 1 /\ up[1].stmt = q
Lone(q) == Quiet \/ Queued(q) \/ HeldBack(q) \/ Underway(q) \/ Answered(q)

\* Who holds the mutex, and who closes the session.
Holding ==
  /\ \A t \in Task : Registered(t) <=> mutex = t
  /\ closing # "no" => ~open
  /\ \A t \in Task : pc[t] = "failing" <=> closer = t /\ closing \in {"send", "revoke"}
  /\ closing = "no" => closer = NoTask
  /\ Executing => cur \in Stmt

Exchange ==
  /\ \A t \in Task : pc[t] = "gate" => Quiet
  /\ \A t \in Task : pc[t] = "wait" => Lone(Current(t))
  /\ open /\ (\A t \in Task : pc[t] \notin {"gate", "wait", "fail"}) => Quiet

IInv == TypeOK /\ Holding /\ Exchange

-----------------------------------------------------------------------------
\* Frames and queues of them.

\* The frames the two ends put into the stream.
LEMMA Frames ==
  /\ \A q \in Stmt : [kind |-> "query", stmt |-> q] \in DownFrame
  /\ [kind |-> "close"] \in DownFrame /\ [kind |-> "cancel"] \in DownFrame
  /\ \A f \in DownFrame : f.kind = "query" => f.stmt \in Stmt
  /\ \A q \in Stmt : /\ [kind |-> "answer", stmt |-> q] \in UpFrame
                     /\ [kind |-> "error", stmt |-> q] \in UpFrame
  BY Zenon DEF DownFrame, UpFrame

\* The statement a task is at.
LEMMA CurrentStmt == TypeOK => \A t \in Task : Current(t) \in Stmt
  BY Zenon DEF TypeOK, Current, Stmt

\* The next ordinal of a batch that has one.
LEMMA NextOrd ==
  ASSUME NEW o \in [Task -> 1 .. MaxStatements], NEW t \in Task, o[t] < MaxStatements
  PROVE  [o EXCEPT ![t] = o[t] + 1] \in [Task -> 1 .. MaxStatements]
<1>1. o[t] + 1 \in 1 .. MaxStatements
  BY BatchLength
<1> QED  BY <1>1, Zenon

\* A queue stays one.
LEMMA Joins ==
  ASSUME NEW S, NEW d \in Seq(S), NEW f \in S
  PROVE  Append(d, f) \in Seq(S)
  OBVIOUS

\* The places of a sequence and of the one it is appended to.
LEMMA AppendPlaces ==
  ASSUME NEW S, NEW d \in Seq(S), NEW f \in S
  PROVE  /\ \A i \in DOMAIN d : i \in DOMAIN Append(d, f) /\ Append(d, f)[i] = d[i] /\ i < Len(d) + 1
         /\ \A i \in DOMAIN Append(d, f) :
              \/ i \in DOMAIN d /\ Append(d, f)[i] = d[i]
              \/ i = Len(d) + 1 /\ Append(d, f)[i] = f
  OBVIOUS

\* A frame that is no query joins the queue.
LEMMA AppendOther ==
  ASSUME NEW S, NEW d \in Seq(S), NEW f \in S, f.kind # "query", NEW q
  PROVE  /\ Append(d, f) \in Seq(S)
         /\ NoQuery(d) => NoQuery(Append(d, f))
         /\ OnlyQuery(d, q) => OnlyQuery(Append(d, f), q)
<1>1. Append(d, f) \in Seq(S) /\ Len(Append(d, f)) = Len(d) + 1
  OBVIOUS
<1>2. \A i \in DOMAIN Append(d, f) :
        (i \in DOMAIN d /\ Append(d, f)[i] = d[i]) \/ Append(d, f)[i] = f
  OBVIOUS
<1>3. \A i \in DOMAIN d : i \in DOMAIN Append(d, f) /\ Append(d, f)[i] = d[i]
  OBVIOUS
<1>4. NoQuery(d) => NoQuery(Append(d, f))
  BY <1>2, Zenon DEF NoQuery
<1>5. OnlyQuery(d, q) => OnlyQuery(Append(d, f), q)
  BY <1>2, <1>3 DEF OnlyQuery
<1> QED  BY <1>1, <1>4, <1>5, Zenon

\* A query joins a queue without one.
LEMMA AppendQuery ==
  ASSUME NEW S, NEW d \in Seq(S), NEW f \in S, f.kind = "query", NoQuery(d)
  PROVE  Append(d, f) \in Seq(S) /\ OnlyQuery(Append(d, f), f.stmt)
<1>1. Append(d, f) \in Seq(S) /\ Len(Append(d, f)) = Len(d) + 1
  OBVIOUS
<1>2. \A i \in DOMAIN Append(d, f) :
        (i \in DOMAIN d /\ Append(d, f)[i] = d[i]) \/ i = Len(d) + 1
  OBVIOUS
<1>3. Len(d) + 1 \in DOMAIN Append(d, f) /\ Append(d, f)[Len(d) + 1] = f
  OBVIOUS
<1> QED  BY <1>1, <1>2, <1>3, Zenon DEF OnlyQuery, NoQuery

\* A frame that is no query leaves the queue.
LEMMA TailOther ==
  ASSUME NEW S, NEW d \in Seq(S), d # <<>>, Head(d).kind # "query", NEW q
  PROVE  /\ Tail(d) \in Seq(S)
         /\ NoQuery(d) => NoQuery(Tail(d))
         /\ OnlyQuery(d, q) => OnlyQuery(Tail(d), q)
<1>1. Tail(d) \in Seq(S) /\ Len(d) \in Nat \ {0} /\ Len(Tail(d)) = Len(d) - 1 /\ Head(d) = d[1]
  OBVIOUS
<1>2. \A i \in DOMAIN Tail(d) : i \in Nat /\ i + 1 \in DOMAIN d /\ Tail(d)[i] = d[i + 1]
  OBVIOUS
<1>3. NoQuery(d) => NoQuery(Tail(d))
  BY <1>2, Zenon DEF NoQuery
<1>4. ASSUME OnlyQuery(d, q) PROVE OnlyQuery(Tail(d), q)
  <2>1. PICK i \in DOMAIN d : /\ d[i].kind = "query" /\ d[i].stmt = q
                              /\ \A j \in DOMAIN d : d[j].kind = "query" => j = i
    BY <1>4, Zenon DEF OnlyQuery
  <2>2. i # 1 /\ i \in Nat /\ i - 1 \in DOMAIN Tail(d)
    BY <1>1, <2>1
  <2>3. Tail(d)[i - 1] = d[i]
    BY <1>2, <2>2
  <2>4. \A j \in DOMAIN Tail(d) : Tail(d)[j].kind = "query" => j = i - 1
    BY <1>2, <2>1, <2>2
  <2> QED  BY <2>1, <2>2, <2>3, <2>4, Zenon DEF OnlyQuery
<1> QED  BY <1>1, <1>3, <1>4, Zenon

\* The only query leaves the queue.
LEMMA TailQuery ==
  ASSUME NEW S, NEW d \in Seq(S), d # <<>>, Head(d).kind = "query", NEW q, OnlyQuery(d, q)
  PROVE  Tail(d) \in Seq(S) /\ NoQuery(Tail(d)) /\ Head(d).stmt = q
<1>1. Tail(d) \in Seq(S) /\ Len(d) \in Nat \ {0} /\ Len(Tail(d)) = Len(d) - 1 /\ Head(d) = d[1] /\ 1 \in DOMAIN d
  OBVIOUS
<1>2. \A i \in DOMAIN Tail(d) : i \in Nat /\ i # 0 /\ i + 1 \in DOMAIN d /\ Tail(d)[i] = d[i + 1]
  OBVIOUS
<1>3. PICK i \in DOMAIN d : /\ d[i].kind = "query" /\ d[i].stmt = q
                            /\ \A j \in DOMAIN d : d[j].kind = "query" => j = i
  BY Zenon DEF OnlyQuery
<1>4. i = 1
  BY <1>1, <1>3, Zenon
<1>5. NoQuery(Tail(d))
  BY <1>2, <1>3, <1>4 DEF NoQuery
<1> QED  BY <1>1, <1>3, <1>4, <1>5, Zenon

-----------------------------------------------------------------------------
\* Types.

\* Init has the types.
LEMMA TypeInit == Init => TypeOK
<1> SUFFICES ASSUME Init PROVE TypeOK
  OBVIOUS
<1>1. open \in BOOLEAN /\ revoked \in BOOLEAN
  BY Zenon DEF Init
<1>2. /\ pc \in [Task -> Label]
      /\ ord \in [Task -> 1 .. MaxStatements]
      /\ cancel \in [Task -> {"no", "committed", "found", "done"}]
  BY BatchLength DEF Init, Label
<1>3. down \in Seq(DownFrame) /\ up \in Seq(UpFrame) /\ held \in Seq(Stmt) /\ order \in Seq(Stmt)
  BY DEF Init
<1>4. mutex = NoTask /\ closing = "no" /\ closer = NoTask /\ serve = "idle" /\ cur = <<>>
  BY Zenon DEF Init
<1>5. sent = {} /\ canceled = {} /\ late = {}
  BY Zenon DEF Init
<1> QED  BY <1>1, <1>2, <1>3, <1>4, <1>5, Zenon DEF TypeOK

\* The types of what Begin changes.
BegunTypes ==
  /\ serve' \in {"exec", "ended"} /\ up' \in Seq(UpFrame)
  /\ cur' \in Stmt \cup {<<>>} /\ order' \in Seq(Stmt)

\* What begins a statement keeps the types.
LEMMA BeginTypes == \A q \in Stmt : TypeOK /\ Begin(q) => BegunTypes
<1> SUFFICES ASSUME NEW q \in Stmt, TypeOK, Begin(q) PROVE BegunTypes
  OBVIOUS
<1>0. up \in Seq(UpFrame) /\ cur \in Stmt \cup {<<>>} /\ order \in Seq(Stmt)
  BY Zenon DEF TypeOK
<1>1. Append(up, [kind |-> "error", stmt |-> q]) \in Seq(UpFrame) /\ Append(order, q) \in Seq(Stmt)
  BY ZenonT(60), <1>0, Frames, Joins
<1>2. CASE revoked
  BY ZenonT(60), <1>0, <1>1, <1>2 DEF Begin, BegunTypes
<1>3. CASE ~revoked
  BY ZenonT(60), <1>0, <1>1, <1>3 DEF Begin, BegunTypes
<1> QED  BY <1>2, <1>3, Zenon

\* Every step keeps the types.
LEMMA TypeStep ==
  TypeOK /\ Holding /\ [Next]_vars => TypeOK'
<1> SUFFICES ASSUME TypeOK, Holding, [Next]_vars
             PROVE  TypeOK'
  OBVIOUS
<1> USE BatchLength DEF task, session, cancels, proxy, Goto
<1>0. down \in Seq(DownFrame) /\ up \in Seq(UpFrame) /\ held \in Seq(Stmt) /\ order \in Seq(Stmt)
  BY Zenon DEF TypeOK
<1>1. ASSUME NEW t \in Task, Submit(t) PROVE TypeOK'
  BY <1>1 DEF Submit, TypeOK, Label
<1>2. ASSUME NEW t \in Task, Acquire(t) PROVE TypeOK'
  BY ZenonT(60), <1>2 DEF Acquire, TypeOK, Label
<1>3. ASSUME NEW t \in Task, Send(t) PROVE TypeOK'
  <2>1. [kind |-> "query", stmt |-> Current(t)] \in DownFrame /\ Current(t) \in Stmt
    BY Frames, CurrentStmt, Zenon
  <2>2. down' = down \/ down' = Append(down, [kind |-> "query", stmt |-> Current(t)])
    BY <1>3, Zenon DEF Send, ToProxy
  <2>3. down' \in Seq(DownFrame)
    BY ZenonT(60), <1>0, <2>1, <2>2, Joins
  <2>4. pc' \in [Task -> Label]
    BY <1>3, Zenon DEF Send, TypeOK, Label
  <2>5. sent' \subseteq Task /\ late' \subseteq Stmt
    BY <1>3, <2>1, Zenon DEF Send, TypeOK
  <2> QED  BY <1>3, <2>3, <2>4, <2>5 DEF Send, TypeOK
<1>4. ASSUME NEW t \in Task, TakeAnswer(t) PROVE TypeOK'
  <2>1. up' \in Seq(UpFrame)
    BY <1>4, <1>0 DEF TakeAnswer
  <2>2. ord \in [Task -> 1 .. MaxStatements]
    BY Zenon DEF TypeOK
  <2>4. ord' \in [Task -> 1 .. MaxStatements]
    <3>1. CASE UNCHANGED ord
      BY <2>2, <3>1, Zenon
    <3>2. CASE ord' # ord
      <4>1. ord[t] < MaxStatements /\ ord' = [ord EXCEPT ![t] = ord[t] + 1]
        BY <1>4, <3>2, Zenon DEF TakeAnswer
      <4>2. [ord EXCEPT ![t] = ord[t] + 1] \in [Task -> 1 .. MaxStatements]
        BY <2>2, <4>1, NextOrd, Zenon
      <4> QED  BY <4>1, <4>2, Zenon
    <3> QED  BY <3>1, <3>2, Zenon
  <2>5. pc' \in [Task -> Label]
    BY <1>4, Zenon DEF TakeAnswer, TypeOK, Label
  <2>6. UNCHANGED <<mutex, session, cancels, sent, down, proxy, late>>
    BY Zenon, <1>4 DEF TakeAnswer
  <2> QED  BY ZenonT(60), <2>1, <2>4, <2>5, <2>6 DEF TypeOK
<1>5. ASSUME NEW t \in Task, TakeError(t) PROVE TypeOK'
  BY <1>5 DEF TakeError, TypeOK, Label
<1>6. ASSUME NEW t \in Task, TimeOut(t) PROVE TypeOK'
  BY <1>6 DEF TimeOut, TypeOK, Label
<1>7. ASSUME NEW t \in Task, Fail(t) PROVE TypeOK'
  BY ZenonT(60), <1>7 DEF Fail, TypeOK, Label
<1>8. ASSUME NEW t \in Task, Unlock(t) PROVE TypeOK'
  BY <1>8 DEF Unlock, TypeOK, Label
<1>9. ASSUME NEW t \in Task, CancelCommits(t) PROVE TypeOK'
  BY <1>9 DEF CancelCommits, TypeOK, Label
<1>10. ASSUME NEW t \in Task, CancelFinds(t) PROVE TypeOK'
  BY <1>10 DEF CancelFinds, TypeOK, Label
<1>11. ASSUME NEW t \in Task, CancelSignals(t) PROVE TypeOK'
  <2>1. down' = down \/ down' = Append(down, [kind |-> "cancel"])
    BY <1>11, Zenon DEF CancelSignals, ToProxy
  <2>2. down' \in Seq(DownFrame)
    BY ZenonT(60), <1>0, <2>1, Frames, Joins
  <2> QED  BY <1>11, <2>2 DEF CancelSignals, TypeOK
<1>12. CASE CloseSession
  BY ZenonT(60), <1>12 DEF CloseSession, TypeOK, Label
<1>13. CASE CloseSends
  <2>1. down' = down \/ down' = Append(down, [kind |-> "close"])
    BY <1>13, Zenon DEF CloseSends, ToProxy
  <2>2. down' \in Seq(DownFrame)
    BY ZenonT(60), <1>0, <2>1, Frames, Joins
  <2> QED  BY <1>13, <2>2, Zenon DEF CloseSends, TypeOK
<1>14. CASE CloseRevokes
  BY <1>14, Zenon DEF CloseRevokes, TypeOK, Label
<1>15. CASE NextHeld
  <2>1. Head(held) \in Stmt /\ Begin(Head(held)) /\ <<>> \in Seq(DownFrame) /\ <<>> \in Seq(Stmt)
    BY <1>15, <1>0 DEF NextHeld
  <2>2. down' \in Seq(DownFrame) /\ held' \in Seq(Stmt)
    BY ZenonT(60), <1>15, <1>0, <2>1 DEF NextHeld
  <2>3. BegunTypes
    BY <2>1, BeginTypes, Zenon
  <2> QED  BY <1>15, <2>2, <2>3, Zenon DEF NextHeld, TypeOK, BegunTypes
<1>16. CASE NextFrame
  <2>1. Head(down) \in DownFrame /\ Tail(down) \in Seq(DownFrame) /\ <<>> \in Seq(DownFrame)
    BY <1>16, <1>0 DEF NextFrame
  <2>2. CASE Head(down).kind = "close" /\ End /\ UNCHANGED <<up, cur, order>>
    BY <1>16, <2>2 DEF NextFrame, End, TypeOK
  <2>3. CASE down' = Tail(down) /\ UNCHANGED <<up, proxy>>
    BY <1>16, <2>1, <2>3, Zenon DEF NextFrame, TypeOK
  <2>4. CASE /\ Head(down).kind = "query" /\ Begin(Head(down).stmt)
             /\ down' = IF revoked THEN <<>> ELSE Tail(down)
             /\ UNCHANGED held
    <3>1. BegunTypes
      BY <2>1, <2>4, Frames, BeginTypes, Zenon
    <3>2. down' \in Seq(DownFrame)
      BY ZenonT(60), <2>1, <2>4
    <3> QED  BY <1>16, <2>4, <3>1, <3>2, Zenon DEF NextFrame, TypeOK, BegunTypes
  <2> QED  BY ZenonT(60), <1>16, <2>2, <2>3, <2>4 DEF NextFrame
<1>17. CASE FrameMeanwhile
  <2>1. Head(down) \in DownFrame /\ Tail(down) \in Seq(DownFrame) /\ <<>> \in Seq(DownFrame)
    BY <1>17, <1>0 DEF FrameMeanwhile
  <2>2. down' \in {Tail(down), <<>>} /\ serve' \in {serve, "killed", "ended"}
    BY ZenonT(60), <1>17 DEF FrameMeanwhile, End
  <2>3. Head(down).kind = "query" => <<Head(down).stmt>> \in Seq(Stmt)
    BY <2>1, Frames
  <2>4. held' \in Seq(Stmt)
    <3>1. <<>> \in Seq(Stmt)
      OBVIOUS
    <3> QED  BY ZenonT(60), <1>17, <1>0, <2>3, <3>1 DEF FrameMeanwhile, End
  <2> QED  BY ZenonT(60), <1>17, <2>1, <2>2, <2>4 DEF FrameMeanwhile, TypeOK
<1>18. CASE Reply
  <2>1. [kind |-> "answer", stmt |-> cur] \in UpFrame
    BY ZenonT(60), <1>18, Frames DEF Reply, Holding, Executing
  <2>2. up' \in Seq(UpFrame)
    BY ZenonT(60), <1>18, <1>0, <2>1, Joins DEF Reply
  <2>3. down' \in {down, <<>>} /\ serve' \in {"replied", "ended"} /\ held' \in {held, <<>>}
    BY ZenonT(60), <1>18 DEF Reply, End
  <2>4. down' \in Seq(DownFrame) /\ held' \in Seq(Stmt)
    <3>1. <<>> \in Seq(DownFrame) /\ <<>> \in Seq(Stmt)
      OBVIOUS
    <3> QED  BY ZenonT(60), <1>0, <2>3, <3>1
  <2> QED  BY ZenonT(60), <1>18, <2>2, <2>3, <2>4 DEF Reply, TypeOK
<1>19. CASE ReplyError
  <2>1. [kind |-> "error", stmt |-> cur] \in UpFrame
    BY ZenonT(60), <1>19, Frames DEF ReplyError, Holding, Executing
  <2>2. up' \in Seq(UpFrame)
    BY ZenonT(60), <1>19, <1>0, <2>1, Joins DEF ReplyError
  <2>3. down' \in {down, <<>>} /\ serve' \in {"replied", "ended"} /\ held' \in {held, <<>>}
    BY ZenonT(60), <1>19 DEF ReplyError, End
  <2>4. down' \in Seq(DownFrame) /\ held' \in Seq(Stmt)
    <3>1. <<>> \in Seq(DownFrame) /\ <<>> \in Seq(Stmt)
      OBVIOUS
    <3> QED  BY ZenonT(60), <1>0, <2>3, <3>1
  <2> QED  BY ZenonT(60), <1>19, <2>2, <2>3, <2>4 DEF ReplyError, TypeOK
<1>20. CASE Report
  BY <1>20, Zenon DEF Report, TypeOK, Label
<1>21. CASE ProxyGone
  BY <1>21 DEF ProxyGone, End, TypeOK, Label
<1>22. CASE UNCHANGED vars
  BY <1>22 DEF vars, task, session, cancels, proxy, TypeOK
<1> QED
  BY <1>1, <1>2, <1>3, <1>4, <1>5, <1>6, <1>7, <1>8, <1>9, <1>10,
     <1>11, <1>12, <1>13, <1>14, <1>15, <1>16, <1>17, <1>18, <1>19, <1>20, <1>21, <1>22, Zenon
     DEF Next, Run, Cancelling, Serving


-----------------------------------------------------------------------------
\* The mutex and the close.

\* Every step keeps who holds the mutex and who closes the session.
LEMMA HoldingStep ==
  TypeOK /\ Holding /\ [Next]_vars => Holding'
<1> SUFFICES ASSUME TypeOK, Holding, [Next]_vars
             PROVE  Holding'
  OBVIOUS
<1> USE NobodyIsNoTask DEF task, session, cancels, proxy, Goto
<1>0. pc \in [Task -> Label]
  BY Zenon DEF TypeOK
<1>s. /\ (held # <<>> => Head(held) \in Stmt)
      /\ (down # <<>> /\ Head(down).kind = "query" => Head(down).stmt \in Stmt)
  BY Frames DEF TypeOK
<1>1. ASSUME NEW t \in Task, Submit(t) PROVE Holding'
  BY <1>1, <1>0, Zenon DEF Submit, Holding, Registered, Executing, Label
<1>2. ASSUME NEW t \in Task, Acquire(t) PROVE Holding'
  BY <1>2, <1>0, Zenon DEF Acquire, Holding, Registered, Executing, Label
<1>3. ASSUME NEW t \in Task, Send(t) PROVE Holding'
  BY <1>3, <1>0, Zenon DEF Send, ToProxy, Holding, Registered, Executing, Label
<1>4. ASSUME NEW t \in Task, TakeAnswer(t) PROVE Holding'
  BY <1>4, <1>0 DEF TakeAnswer, Holding, Registered, Executing, Label
<1>5. ASSUME NEW t \in Task, TakeError(t) PROVE Holding'
  BY <1>5, <1>0, Zenon DEF TakeError, Holding, Registered, Executing, Label
<1>6. ASSUME NEW t \in Task, TimeOut(t) PROVE Holding'
  BY <1>6, <1>0, Zenon DEF TimeOut, Holding, Registered, Executing, Label
<1>7. ASSUME NEW t \in Task, Fail(t) PROVE Holding'
  BY <1>7, <1>0, Zenon DEF Fail, Holding, Registered, Executing, Label
<1>8. ASSUME NEW t \in Task, Unlock(t) PROVE Holding'
  BY <1>8, <1>0, Zenon DEF Unlock, Holding, Registered, Executing, Label
<1>9. ASSUME NEW t \in Task, CancelCommits(t) PROVE Holding'
  BY <1>9, Zenon DEF CancelCommits, Holding, Registered, Executing
<1>10. ASSUME NEW t \in Task, CancelFinds(t) PROVE Holding'
  BY <1>10, Zenon DEF CancelFinds, Holding, Registered, Executing
<1>11. ASSUME NEW t \in Task, CancelSignals(t) PROVE Holding'
  BY <1>11, Zenon DEF CancelSignals, Holding, Registered, Executing
<1>12. CASE CloseSession
  BY <1>12, <1>0, Zenon DEF CloseSession, Holding, Registered, Executing, Label
<1>13. CASE CloseSends
  BY <1>13, Zenon DEF CloseSends, Holding, Registered, Executing
<1>14. CASE CloseRevokes
  BY <1>14, <1>0, Zenon DEF CloseRevokes, Holding, Registered, Executing, Label
<1>15. CASE NextHeld
  <2>1. serve' \in {"exec", "killed"} => cur' \in Stmt
    BY <1>15, <1>s, Zenon DEF NextHeld, Begin, End
  <2> QED  BY <1>15, <2>1, Zenon DEF NextHeld, Holding, Registered, Executing
<1>16. CASE NextFrame
  <2>1. serve' \in {"exec", "killed"} => cur' \in Stmt
    BY <1>16, <1>s, Zenon DEF NextFrame, Begin, End
  <2> QED  BY <1>16, <2>1, Zenon DEF NextFrame, Holding, Registered, Executing
<1>17. CASE FrameMeanwhile
  BY <1>17, <1>0, Zenon DEF FrameMeanwhile, End, Holding, Registered, Executing, Label
<1>18. CASE Reply
  BY <1>18, <1>0, Zenon DEF Reply, End, Holding, Registered, Executing, Label
<1>19. CASE ReplyError
  BY <1>19, <1>0, Zenon DEF ReplyError, End, Holding, Registered, Executing, Label
<1>20. CASE Report
  BY <1>20, <1>0, Zenon DEF Report, Holding, Registered, Executing, Label
<1>21. CASE ProxyGone
  BY <1>21, <1>0, Zenon DEF ProxyGone, End, Holding, Registered, Executing, Label
<1>22. CASE UNCHANGED vars
  BY <1>22, Zenon DEF vars, task, session, cancels, proxy, Holding, Registered, Executing
<1> QED
  BY <1>1, <1>2, <1>3, <1>4, <1>5, <1>6, <1>7, <1>8, <1>9, <1>10,
     <1>11, <1>12, <1>13, <1>14, <1>15, <1>16, <1>17, <1>18, <1>19, <1>20, <1>21, <1>22, Zenon
     DEF Next, Run, Cancelling, Serving

-----------------------------------------------------------------------------
\* The stream.

\* A statement stays where it is as long as the queue does.
LEMMA Places ==
  ASSUME NEW q, UNCHANGED <<up, held, cur>>, (Executing' <=> Executing),
         NoQuery(down) => NoQuery(down'), OnlyQuery(down, q) => OnlyQuery(down', q)
  PROVE  (Quiet => Quiet') /\ (Lone(q) => Lone(q)')
<1>1. Quiet => Quiet'
  BY ZenonT(60) DEF Quiet
<1>2. (Queued(q) => Queued(q)') /\ (HeldBack(q) => HeldBack(q)')
  BY ZenonT(60) DEF Queued, HeldBack
<1>3. Underway(q) => Underway(q)'
  BY ZenonT(60) DEF Underway
<1>4. Answered(q) => Answered(q)'
  BY ZenonT(60) DEF Answered
<1> QED  BY <1>1, <1>2, <1>3, <1>4, Zenon DEF Lone

\* The control plane's EditorClose and EditorCancel are no statements.
LEMMA SignalKeeps ==
  ASSUME TypeOK, NEW q, NEW f \in DownFrame, f.kind # "query",
         down' = down \/ down' = Append(down, f), UNCHANGED <<up, proxy>>
  PROVE  (Quiet => Quiet') /\ (Lone(q) => Lone(q)')
<1>1. down \in Seq(DownFrame)
  BY Zenon DEF TypeOK
<1>2. (NoQuery(down) => NoQuery(down')) /\ (OnlyQuery(down, q) => OnlyQuery(down', q))
  BY ZenonT(60), <1>1, AppendOther
<1>3. (Executing' <=> Executing) /\ UNCHANGED <<up, held, cur>>
  BY Zenon DEF Executing, proxy
<1> QED  BY <1>2, <1>3, Places, Zenon

\* When Serve ends, at most an answer of the statement it executed remains.
LEMMA EndKeeps ==
  ASSUME TypeOK, NEW q, End,
         \/ up' = up
         \/ Executing /\ \E k \in {"answer", "error"} : up' = Append(up, [kind |-> k, stmt |-> cur])
  PROVE  (Quiet => Quiet') /\ (Lone(q) => Lone(q)')
<1>0. up \in Seq(UpFrame)
  BY Zenon DEF TypeOK
<1>1. NoQuery(down)' /\ held' = <<>> /\ ~Executing'
  BY DEF End, NoQuery, Executing
<1>2. Quiet => Quiet'
  BY <1>1, Zenon DEF Quiet
<1>3. CASE up' = up
  BY <1>1, <1>3, Zenon DEF Lone, Quiet, Queued, HeldBack, Underway, Answered
<1>4. CASE Executing /\ \E k \in {"answer", "error"} : up' = Append(up, [kind |-> k, stmt |-> cur])
  <2>1. Lone(q) => cur = q /\ up = <<>>
    BY <1>4, Zenon DEF Lone, Quiet, Queued, HeldBack, Underway, Answered
  <2>2. up = <<>> => Len(up') = 1 /\ up'[1].stmt = cur
    BY <1>0, <1>4
  <2>3. Lone(q) => Answered(q)'
    BY <1>1, <2>1, <2>2, Zenon DEF Answered
  <2> QED  BY <1>2, <2>3, Zenon DEF Lone
<1> QED  BY <1>3, <1>4, Zenon

\* A statement that is begun is refused or executed.
LEMMA BeginKeeps ==
  ASSUME TypeOK, NEW q, Begin(q), up = <<>>, NoQuery(down'), held' = <<>>
  PROVE  Lone(q)'
<1>1. CASE revoked
  <2>1. Len(up') = 1 /\ up'[1].stmt = q /\ serve' = "ended"
    BY <1>1 DEF Begin
  <2>2. Answered(q)'
    BY <2>1, Zenon DEF Answered, Executing
  <2> QED  BY <2>2, Zenon DEF Lone
<1>2. CASE ~revoked
  <2>1. Underway(q)'
    BY <1>2, Zenon DEF Begin, Underway, Executing
  <2> QED  BY <2>1, Zenon DEF Lone
<1> QED  BY <1>1, <1>2, Zenon

\* The proxy moves a statement on, and makes none up.
LEMMA ServingKeeps ==
  ASSUME TypeOK, NEW q, Serving \/ ProxyGone
  PROVE  (Quiet => Quiet') /\ (Lone(q) => Lone(q)')
<1> USE DEF proxy
<1>0. down \in Seq(DownFrame) /\ up \in Seq(UpFrame) /\ held \in Seq(Stmt)
  BY Zenon DEF TypeOK
<1>1. CASE NextHeld
  <2>1. ~Quiet
    BY <1>1, Zenon DEF NextHeld, Quiet
  <2>2. ASSUME Lone(q) PROVE Lone(q)'
    <3>1. held = <<q>> /\ up = <<>> /\ NoQuery(down) /\ Head(held) = q
      BY <1>1, <2>2 DEF NextHeld, Lone, Quiet, Queued, HeldBack, Underway, Answered
    <3>2. Begin(q) /\ held' = <<>> /\ down' \in {down, <<>>}
      BY <1>1, <3>1, Zenon DEF NextHeld
    <3>3. NoQuery(down')
      BY <3>1, <3>2 DEF NoQuery
    <3> QED  BY <3>1, <3>2, <3>3, BeginKeeps, Zenon
  <2> QED  BY <2>1, <2>2, Zenon
<1>2. CASE NextFrame
  <2>0. serve = "idle" /\ held = <<>> /\ down # <<>> /\ Tail(down) \in Seq(DownFrame)
    BY <1>0, <1>2 DEF NextFrame
  <2>1. CASE End /\ UNCHANGED <<up, cur, order>>
    BY <2>1, EndKeeps, Zenon
  <2>2. CASE Head(down).kind = "cancel" /\ down' = Tail(down) /\ UNCHANGED <<up, proxy>>
    <3>1. Head(down).kind # "query"
      BY <2>2, Zenon
    <3>2. (NoQuery(down) => NoQuery(down')) /\ (OnlyQuery(down, q) => OnlyQuery(down', q))
      BY <1>0, <2>0, <2>2, <3>1, TailOther, Zenon
    <3> QED  BY <2>2, <3>2, Places, Zenon DEF Executing
  <2>3. CASE /\ Head(down).kind = "query" /\ Begin(Head(down).stmt)
             /\ down' = IF revoked THEN <<>> ELSE Tail(down)
             /\ UNCHANGED held
    <3>1. ~NoQuery(down)
      BY <1>0, <2>0, <2>3 DEF NoQuery
    <3>2. ASSUME Lone(q) PROVE Lone(q)'
      <4>1. OnlyQuery(down, q) /\ up = <<>>
        BY <3>1, <3>2, Zenon DEF Lone, Quiet, Queued, HeldBack, Underway, Answered
      <4>2. NoQuery(Tail(down)) /\ Head(down).stmt = q
        BY <1>0, <2>0, <2>3, <4>1, TailQuery, Zenon
      <4>3. NoQuery(down')
        BY <2>3, <4>2 DEF NoQuery
      <4> QED  BY <2>0, <2>3, <4>1, <4>2, <4>3, BeginKeeps, Zenon
    <3> QED  BY <3>1, <3>2, Zenon DEF Quiet
  <2> QED  BY ZenonT(60), <1>2, <2>1, <2>2, <2>3 DEF NextFrame
<1>3. CASE FrameMeanwhile
  <2>0. /\ serve \in {"exec", "replied"} /\ down # <<>> /\ Tail(down) \in Seq(DownFrame)
        /\ UNCHANGED <<up, cur>>
    BY <1>0, <1>3 DEF FrameMeanwhile
  <2>1. CASE End
    BY <2>0, <2>1, EndKeeps, Zenon
  <2>2. CASE /\ Head(down).kind # "query" /\ down' = Tail(down)
             /\ (Executing' <=> Executing) /\ UNCHANGED held
    <3>1. (NoQuery(down) => NoQuery(down')) /\ (OnlyQuery(down, q) => OnlyQuery(down', q))
      BY <1>0, <2>0, <2>2, TailOther, Zenon
    <3> QED  BY <2>0, <2>2, <3>1, Places, Zenon
  <2>3. CASE /\ Head(down).kind = "query" /\ down' = Tail(down)
             /\ held' = (IF held = <<>> THEN <<Head(down).stmt>> ELSE held) /\ UNCHANGED serve
    <3>1. ~NoQuery(down)
      BY <1>0, <2>0, <2>3 DEF NoQuery
    <3>2. ASSUME Lone(q) PROVE Lone(q)'
      <4>1. OnlyQuery(down, q) /\ up = <<>> /\ ~Executing /\ held = <<>>
        BY <3>1, <3>2, Zenon DEF Lone, Quiet, Queued, HeldBack, Underway, Answered
      <4>2. NoQuery(Tail(down)) /\ Head(down).stmt = q
        BY <1>0, <2>0, <2>3, <4>1, TailQuery, Zenon
      <4>3. HeldBack(q)'
        BY <2>0, <2>3, <4>1, <4>2, Zenon DEF HeldBack, Executing
      <4> QED  BY <4>3, Zenon DEF Lone
    <3> QED  BY <3>1, <3>2, Zenon DEF Quiet
  <2>4. ASSUME Head(down).kind = "close", serve = "exec", serve' = "killed", down' = Tail(down),
               UNCHANGED held
        PROVE  (Quiet => Quiet') /\ (Lone(q) => Lone(q)')
    BY <2>2, <2>4, Zenon DEF Executing
  <2>5. ASSUME Head(down).kind = "cancel", down' = Tail(down), UNCHANGED <<serve, held>>
        PROVE  (Quiet => Quiet') /\ (Lone(q) => Lone(q)')
    BY <2>2, <2>5, Zenon DEF Executing
  <2> QED  BY ZenonT(60), <1>3, <2>1, <2>3, <2>4, <2>5 DEF FrameMeanwhile
<1>4. CASE Reply
  <2>0. Executing /\ UNCHANGED <<cur, order>> /\ up' = Append(up, [kind |-> "answer", stmt |-> cur])
    BY <1>4, Zenon DEF Reply, Executing
  <2>1. CASE End
    BY <2>0, <2>1, EndKeeps, Zenon
  <2>2. CASE serve' = "replied" /\ UNCHANGED <<down, held>>
    <3>1. ~Quiet /\ (Lone(q) => Underway(q))
      BY <2>0, Zenon DEF Lone, Quiet, Queued, HeldBack, Underway, Answered
    <3>2. up = <<>> => Len(up') = 1 /\ up'[1].stmt = cur
      BY <1>0, <2>0
    <3>3. Underway(q) => Answered(q)'
      BY <2>2, <3>2, Zenon DEF Underway, Answered, Executing, NoQuery
    <3> QED  BY <3>1, <3>3, Zenon DEF Lone
  <2> QED  BY <1>4, <2>1, <2>2, Zenon DEF Reply
<1>5. CASE ReplyError
  <2>1. /\ Executing /\ End
        /\ \E k \in {"answer", "error"} : up' = Append(up, [kind |-> k, stmt |-> cur])
    BY <1>5, Zenon DEF ReplyError, Executing
  <2> QED  BY <2>1, EndKeeps, Zenon
<1>6. CASE Report
  <2>1. ~Executing /\ ~Executing' /\ UNCHANGED <<down, up, held, cur>>
    BY <1>6, Zenon DEF Report, Executing
  <2>2. (NoQuery(down) => NoQuery(down')) /\ (OnlyQuery(down, q) => OnlyQuery(down', q))
    BY <2>1, Zenon
  <2> QED  BY <2>1, <2>2, Places, Zenon
<1>7. CASE ProxyGone
  <2>1. End /\ UNCHANGED <<up, cur, order>>
    BY <1>7, Zenon DEF ProxyGone
  <2> QED  BY <2>1, EndKeeps, Zenon
<1> QED  BY <1>1, <1>2, <1>3, <1>4, <1>5, <1>6, <1>7, Zenon DEF Serving

-----------------------------------------------------------------------------
\* The exchange.

\* A step that leaves the stream alone leaves the statement where it is.
LEMMA Same ==
  UNCHANGED <<down, up, proxy>> => (Quiet => Quiet') /\ \A q : Lone(q) => Lone(q)'
<1> SUFFICES ASSUME UNCHANGED <<down, up, proxy>>, NEW q
             PROVE  (Quiet => Quiet') /\ (Lone(q) => Lone(q)')
  OBVIOUS
<1>1. (Executing' <=> Executing) /\ UNCHANGED <<down, up, held, cur>>
  BY Zenon DEF Executing, proxy
<1> QED  BY <1>1, Places, Zenon

\* Every step keeps the exchange: a task sends into a quiet stream, and leaves a quiet one or a closed
\* session behind.
LEMMA ExchangeStep ==
  TypeOK /\ Holding /\ Exchange /\ [Next]_vars => Exchange'
<1> SUFFICES ASSUME TypeOK, Holding, Exchange, [Next]_vars
             PROVE  Exchange'
  OBVIOUS
<1> USE NobodyIsNoTask DEF task, session, cancels, Goto
<1>0. pc \in [Task -> Label]
  BY Zenon DEF TypeOK
<1>1. ASSUME NEW t \in Task, Submit(t) PROVE Exchange'
  <2>1. (Quiet => Quiet') /\ \A q : Lone(q) => Lone(q)'
    <3>1. UNCHANGED <<down, up, proxy>>
      BY <1>1, Zenon DEF Submit
    <3> QED  BY <3>1, Same, Zenon
  <2>2. \A x \in Task : pc[x] \in {"gate", "wait", "fail"} \/ pc'[x] \in {"gate", "wait", "fail"}
                           => pc'[x] = pc[x]
    BY <1>1, <1>0, Zenon DEF Submit
  <2>3. open' = open /\ \A x \in Task : Current(x)' = Current(x)
    BY <1>1, Zenon DEF Submit, Current
  <2> QED  BY <2>1, <2>2, <2>3, Zenon DEF Exchange
<1>2. ASSUME NEW t \in Task, Acquire(t) PROVE Exchange'
  <2>1. (Quiet => Quiet') /\ \A q : Lone(q) => Lone(q)'
    <3>1. UNCHANGED <<down, up, proxy>>
      BY <1>2, Zenon DEF Acquire
    <3> QED  BY <3>1, Same, Zenon
  <2>2. CASE ~open
    <3>1. \A x \in Task : pc'[x] \in {"gate", "wait"} => pc'[x] = pc[x]
      BY <1>2, <1>0, <2>2, Zenon DEF Acquire
    <3>2. ~open' /\ \A x \in Task : Current(x)' = Current(x)
      BY <1>2, <2>2, Zenon DEF Acquire, Current
    <3> QED  BY <2>1, <3>1, <3>2, Zenon DEF Exchange
  <2>3. CASE open
    <3>1. \A x \in Task : pc[x] \notin {"gate", "wait", "fail"}
      BY <1>2, Zenon DEF Acquire, Holding, Registered
    <3>2. Quiet'
      BY <2>1, <2>3, <3>1, Zenon DEF Exchange
    <3> QED  BY <3>2, Zenon DEF Exchange, Lone
  <2> QED  BY <2>2, <2>3, Zenon
<1>3. ASSUME NEW t \in Task, Send(t) PROVE Exchange'
  <2>1. Quiet /\ \A x \in Task \ {t} : pc[x] \notin {"gate", "wait", "fail"}
    BY <1>3, Zenon DEF Send, Exchange, Holding, Registered
  <2>2. /\ \A x \in Task \ {t} : pc'[x] = pc[x]
        /\ pc'[t] \in {"unlock", "fail", "wait"}
    BY <1>3, <1>0, Zenon DEF Send
  <2>3. CASE pc'[t] # "wait"
    <3>1. UNCHANGED <<down, up, proxy>>
      BY <1>3, <1>0, <2>3, Zenon DEF Send
    <3>2. Quiet'
      BY <2>1, <3>1, Same, Zenon
    <3> QED  BY <3>2, Zenon DEF Exchange, Lone
  <2>4. CASE pc'[t] = "wait"
    <3>1. UNCHANGED <<up, proxy, ord>> /\ ToProxy([kind |-> "query", stmt |-> Current(t)])
      BY <1>3, <1>0, <2>4, Zenon DEF Send
    <3>2. Lone(Current(t))'
      <4>1. Current(t)' = Current(t)
        BY <3>1, Zenon DEF Current
      <4>2. CASE down' = down
        BY <2>1, <3>1, <4>2, Same, Zenon DEF Lone
      <4>3. CASE down' = Append(down, [kind |-> "query", stmt |-> Current(t)])
        <5> DEFINE f == [kind |-> "query", stmt |-> Current(t)]
        <5>1. f.kind = "query" /\ f.stmt = Current(t) /\ f \in DownFrame /\ down \in Seq(DownFrame)
          BY Frames, CurrentStmt, Zenon DEF TypeOK
        <5> HIDE DEF f
        <5>2. OnlyQuery(Append(down, f), f.stmt)
          BY <2>1, <5>1, AppendQuery, Zenon DEF Quiet
        <5>3. OnlyQuery(down', Current(t))
          BY <4>3, <5>1, <5>2, Zenon DEF f
        <5>4. held' = <<>> /\ ~Executing' /\ up' = <<>>
          BY <2>1, <3>1, Zenon DEF Quiet, Executing, proxy
        <5>5. Queued(Current(t))'
          BY ZenonT(60), <4>1, <5>3, <5>4 DEF Queued
        <5> QED  BY <5>5, Zenon DEF Lone
      <4> QED  BY <3>1, <4>2, <4>3, Zenon DEF ToProxy
    <3> QED  BY <2>1, <2>2, <2>4, <3>2, Zenon DEF Exchange
  <2> QED  BY <2>3, <2>4, Zenon
<1>4. ASSUME NEW t \in Task, TakeAnswer(t) PROVE Exchange'
  <2>1. Lone(Current(t))
    BY <1>4, Zenon DEF TakeAnswer, Exchange
  <2>2. up # <<>> /\ up' = Tail(up) /\ UNCHANGED <<down, proxy>> /\ up \in Seq(UpFrame)
    BY <1>4, Zenon DEF TakeAnswer, TypeOK
  <2>3. Answered(Current(t))
    BY <2>1, <2>2, Zenon DEF Lone, Quiet, Queued, HeldBack, Underway
  <2>4. up' = <<>>
    BY <2>2, <2>3 DEF Answered
  <2>5. Quiet'
    BY <2>2, <2>3, <2>4, Zenon DEF Answered, Quiet, Executing, proxy
  <2> QED  BY <2>5, Zenon DEF Exchange, Lone
<1>5. ASSUME NEW t \in Task, TakeError(t) PROVE Exchange'
  <2>1. \A x \in Task \ {t} : pc[x] \notin {"gate", "wait", "fail"} /\ pc'[x] = pc[x]
    BY <1>5, <1>0, Zenon DEF TakeError, Holding, Registered
  <2>2. pc'[t] = "fail"
    BY <1>5, <1>0, Zenon DEF TakeError
  <2> QED  BY <2>1, <2>2, Zenon DEF Exchange
<1>6. ASSUME NEW t \in Task, TimeOut(t) PROVE Exchange'
  <2>1. \A x \in Task \ {t} : pc[x] \notin {"gate", "wait", "fail"} /\ pc'[x] = pc[x]
    BY <1>6, <1>0, Zenon DEF TimeOut, Holding, Registered
  <2>2. pc'[t] = "fail"
    BY <1>6, <1>0, Zenon DEF TimeOut
  <2> QED  BY <2>1, <2>2, Zenon DEF Exchange
<1>7. ASSUME NEW t \in Task, Fail(t) PROVE Exchange'
  <2>1. \A x \in Task \ {t} : pc[x] \notin {"gate", "wait", "fail"} /\ pc'[x] = pc[x]
    BY <1>7, <1>0 DEF Fail, Holding, Registered
  <2>2. pc'[t] \in {"failing", "unlock"} /\ ~open' 
    BY <1>7, <1>0, Zenon DEF Fail
  <2> QED  BY <2>1, <2>2, Zenon DEF Exchange
<1>8. ASSUME NEW t \in Task, Unlock(t) PROVE Exchange'
  <2>1. (Quiet => Quiet') /\ \A q : Lone(q) => Lone(q)'
    <3>1. UNCHANGED <<down, up, proxy>>
      BY <1>8, Zenon DEF Unlock
    <3> QED  BY <3>1, Same, Zenon
  <2>2. \A x \in Task \ {t} : pc[x] \notin {"gate", "wait", "fail"} /\ pc'[x] = pc[x]
    BY <1>8, <1>0, Zenon DEF Unlock, Holding, Registered
  <2>3. pc[t] = "unlock" /\ pc'[t] = "over" /\ open' = open
    BY <1>8, <1>0, Zenon DEF Unlock
  <2> QED  BY <2>1, <2>2, <2>3, Zenon DEF Exchange
<1>9. ASSUME NEW t \in Task, CancelCommits(t) PROVE Exchange'
  <2>1. (Quiet => Quiet') /\ \A q : Lone(q) => Lone(q)'
    <3>1. UNCHANGED <<down, up, proxy>>
      BY <1>9, Zenon DEF CancelCommits
    <3> QED  BY <3>1, Same, Zenon
  <2>2. UNCHANGED <<pc, ord>> /\ (open' => open)
    BY <1>9, Zenon DEF CancelCommits
  <2>3. \A x \in Task : Current(x)' = Current(x)
    BY <2>2, Zenon DEF Current
  <2> QED  BY ZenonT(60), <2>1, <2>2, <2>3 DEF Exchange
<1>10. ASSUME NEW t \in Task, CancelFinds(t) PROVE Exchange'
  <2>1. (Quiet => Quiet') /\ \A q : Lone(q) => Lone(q)'
    <3>1. UNCHANGED <<down, up, proxy>>
      BY <1>10, Zenon DEF CancelFinds
    <3> QED  BY <3>1, Same, Zenon
  <2>2. UNCHANGED <<pc, ord>> /\ (open' => open)
    BY <1>10, Zenon DEF CancelFinds
  <2>3. \A x \in Task : Current(x)' = Current(x)
    BY <2>2, Zenon DEF Current
  <2> QED  BY ZenonT(60), <2>1, <2>2, <2>3 DEF Exchange
<1>11. ASSUME NEW t \in Task, CancelSignals(t) PROVE Exchange'
  <2>1. (Quiet => Quiet') /\ \A q : Lone(q) => Lone(q)'
    <3>1. [kind |-> "cancel"] \in DownFrame /\ [kind |-> "cancel"].kind # "query"
      BY Frames, Zenon
    <3>2. UNCHANGED <<up, proxy>> /\ (down' = down \/ down' = Append(down, [kind |-> "cancel"]))
      BY <1>11, Zenon DEF CancelSignals, ToProxy
    <3> QED  BY <3>1, <3>2, SignalKeeps, Zenon
  <2>2. UNCHANGED <<pc, ord>> /\ (open' => open)
    BY <1>11, Zenon DEF CancelSignals
  <2>3. \A x \in Task : Current(x)' = Current(x)
    BY <2>2, Zenon DEF Current
  <2> QED  BY ZenonT(60), <2>1, <2>2, <2>3 DEF Exchange
<1>12. CASE CloseSession
  <2>1. (Quiet => Quiet') /\ \A q : Lone(q) => Lone(q)'
    <3>1. UNCHANGED <<down, up, proxy>>
      BY <1>12, Zenon DEF CloseSession
    <3> QED  BY <3>1, Same, Zenon
  <2>2. UNCHANGED <<pc, ord>> /\ (open' => open)
    BY <1>12, Zenon DEF CloseSession
  <2>3. \A x \in Task : Current(x)' = Current(x)
    BY <2>2, Zenon DEF Current
  <2> QED  BY ZenonT(60), <2>1, <2>2, <2>3 DEF Exchange
<1>13. CASE CloseSends
  <2>1. (Quiet => Quiet') /\ \A q : Lone(q) => Lone(q)'
    <3>1. [kind |-> "close"] \in DownFrame /\ [kind |-> "close"].kind # "query"
      BY Frames, Zenon
    <3>2. UNCHANGED <<up, proxy>> /\ (down' = down \/ down' = Append(down, [kind |-> "close"]))
      BY <1>13, Zenon DEF CloseSends, ToProxy
    <3> QED  BY <3>1, <3>2, SignalKeeps, Zenon
  <2>2. UNCHANGED <<pc, ord>> /\ (open' => open)
    BY <1>13, Zenon DEF CloseSends
  <2>3. \A x \in Task : Current(x)' = Current(x)
    BY <2>2, Zenon DEF Current
  <2> QED  BY ZenonT(60), <2>1, <2>2, <2>3 DEF Exchange
<1>14. CASE CloseRevokes
  <2>1. (Quiet => Quiet') /\ \A q : Lone(q) => Lone(q)'
    <3>1. UNCHANGED <<down, up, proxy>>
      BY <1>14, Zenon DEF CloseRevokes
    <3> QED  BY <3>1, Same, Zenon
  <2>2. ~open' /\ \A x \in Task : pc'[x] \in {"gate", "wait"} => pc'[x] = pc[x]
    BY <1>14, <1>0, Zenon DEF CloseRevokes, Holding
  <2>3. \A x \in Task : Current(x)' = Current(x)
    BY <1>14, Zenon DEF CloseRevokes, Current
  <2> QED  BY <2>1, <2>2, <2>3, Zenon DEF Exchange
<1>15. CASE NextHeld
  <2>1. (Quiet => Quiet') /\ \A q : Lone(q) => Lone(q)'
    BY <1>15, ServingKeeps, Zenon DEF Serving
  <2>2. UNCHANGED <<pc, ord>> /\ (open' => open)
    BY <1>15, Zenon DEF NextHeld
  <2>3. \A x \in Task : Current(x)' = Current(x)
    BY <2>2, Zenon DEF Current
  <2> QED  BY ZenonT(60), <2>1, <2>2, <2>3 DEF Exchange
<1>16. CASE NextFrame
  <2>1. (Quiet => Quiet') /\ \A q : Lone(q) => Lone(q)'
    BY <1>16, ServingKeeps, Zenon DEF Serving
  <2>2. UNCHANGED <<pc, ord>> /\ (open' => open)
    BY <1>16, Zenon DEF NextFrame
  <2>3. \A x \in Task : Current(x)' = Current(x)
    BY <2>2, Zenon DEF Current
  <2> QED  BY ZenonT(60), <2>1, <2>2, <2>3 DEF Exchange
<1>17. CASE FrameMeanwhile
  <2>1. (Quiet => Quiet') /\ \A q : Lone(q) => Lone(q)'
    BY <1>17, ServingKeeps, Zenon DEF Serving
  <2>2. UNCHANGED <<pc, ord>> /\ (open' => open)
    BY <1>17, Zenon DEF FrameMeanwhile
  <2>3. \A x \in Task : Current(x)' = Current(x)
    BY <2>2, Zenon DEF Current
  <2> QED  BY ZenonT(60), <2>1, <2>2, <2>3 DEF Exchange
<1>18. CASE Reply
  <2>1. (Quiet => Quiet') /\ \A q : Lone(q) => Lone(q)'
    BY <1>18, ServingKeeps, Zenon DEF Serving
  <2>2. UNCHANGED <<pc, ord>> /\ (open' => open)
    BY <1>18, Zenon DEF Reply
  <2>3. \A x \in Task : Current(x)' = Current(x)
    BY <2>2, Zenon DEF Current
  <2> QED  BY ZenonT(60), <2>1, <2>2, <2>3 DEF Exchange
<1>19. CASE ReplyError
  <2>1. (Quiet => Quiet') /\ \A q : Lone(q) => Lone(q)'
    BY <1>19, ServingKeeps, Zenon DEF Serving
  <2>2. UNCHANGED <<pc, ord>> /\ (open' => open)
    BY <1>19, Zenon DEF ReplyError
  <2>3. \A x \in Task : Current(x)' = Current(x)
    BY <2>2, Zenon DEF Current
  <2> QED  BY ZenonT(60), <2>1, <2>2, <2>3 DEF Exchange
<1>20. CASE Report
  <2>1. (Quiet => Quiet') /\ \A q : Lone(q) => Lone(q)'
    BY <1>20, ServingKeeps, Zenon DEF Serving
  <2>2. UNCHANGED <<pc, ord>> /\ (open' => open)
    BY <1>20, Zenon DEF Report
  <2>3. \A x \in Task : Current(x)' = Current(x)
    BY <2>2, Zenon DEF Current
  <2> QED  BY ZenonT(60), <2>1, <2>2, <2>3 DEF Exchange
<1>21. CASE ProxyGone
  <2>1. (Quiet => Quiet') /\ \A q : Lone(q) => Lone(q)'
    BY <1>21, ServingKeeps, Zenon DEF Serving
  <2>2. UNCHANGED <<pc, ord>> /\ (open' => open)
    BY <1>21, Zenon DEF ProxyGone
  <2>3. \A x \in Task : Current(x)' = Current(x)
    BY <2>2, Zenon DEF Current
  <2> QED  BY ZenonT(60), <2>1, <2>2, <2>3 DEF Exchange
<1>22. CASE UNCHANGED vars
  <2>1. UNCHANGED <<pc, ord, open, down, up, proxy>>
    BY <1>22, Zenon DEF vars
  <2>2. \A x \in Task : Current(x)' = Current(x)
    BY <2>1, Zenon DEF Current
  <2> QED  BY <2>1, <2>2, Same, Zenon DEF Exchange
<1> QED
  BY <1>1, <1>2, <1>3, <1>4, <1>5, <1>6, <1>7, <1>8, <1>9, <1>10,
     <1>11, <1>12, <1>13, <1>14, <1>15, <1>16, <1>17, <1>18, <1>19, <1>20, <1>21, <1>22, Zenon
     DEF Next, Run, Cancelling, Serving

-----------------------------------------------------------------------------
\* The session starts with the invariant ...
LEMMA InvInit == Init => IInv
<1> SUFFICES ASSUME Init PROVE IInv
  OBVIOUS
<1>1. TypeOK
  BY TypeInit, Zenon
<1>2. Holding
  BY NobodyIsNoTask, Zenon DEF Init, Holding, Registered, Executing
<1>3. Exchange
  BY DEF Init, Exchange, Quiet, NoQuery, Executing
<1> QED  BY <1>1, <1>2, <1>3, Zenon DEF IInv

\* The inductive invariant: the mutex, the one statement on its way and the session's close fit together
\* in every reachable state of runBatchOnSession, closeSession, the cancels and the proxy's Serve.
THEOREM SessionInvariant == Spec => []IInv
<1>1. IInv /\ [Next]_vars => IInv'
  BY TypeStep, HoldingStep, ExchangeStep, Zenon DEF IInv
<1> QED  BY <1>1, InvInit, PTL DEF Spec

\* No task reads the answer of another statement, however many tasks share the session, however long
\* their batches are, and whoever times out, cancels or closes.
THEOREM AnswersAreOnesOwn == Spec => []AnswersMatch
<1>1. IInv => AnswersMatch
  <2> SUFFICES ASSUME IInv, NEW t \in Task, pc[t] = "wait", NEW i \in DOMAIN up
               PROVE  up[i].stmt = Current(t)
    BY Zenon DEF AnswersMatch
  <2>1. Lone(Current(t)) /\ up \in Seq(UpFrame)
    BY Zenon DEF IInv, Exchange, TypeOK
  <2>2. up # <<>>
    OBVIOUS
  <2>3. Answered(Current(t))
    BY <2>1, <2>2, Zenon DEF Lone, Quiet, Queued, HeldBack, Underway
  <2> QED  BY <2>1, <2>3 DEF Answered
<1> QED  BY <1>1, SessionInvariant, PTL
-----------------------------------------------------------------------------
\* The batches and the close.

\* The statement q is yet to be begun: it is in the stream or held back.
Pending(q) ==
  \/ \E i \in DOMAIN down : down[i].kind = "query" /\ down[i].stmt = q
  \/ \E i \in DOMAIN held : held[i] = q

\* Since the first statement of t, none of another task was executed.
OwnsTail(o, t) == \A i, j \in DOMAIN o : i < j /\ o[i][1] = t => o[j][1] = t

\* What is yet to be begun belongs to one task, the holder of the mutex if there is one, and can only
\* continue the batch that was executed last.
Turns ==
  /\ \A q \in Stmt : Pending(q) => /\ OwnsTail(order, q[1]) /\ q[2] <= ord[q[1]]
                                   /\ pc[q[1]] \notin {"idle", "queued", "gate"}
  /\ \A t \in Task : Registered(t) => OwnsTail(order, t) /\ \A q \in Stmt : Pending(q) => q[1] = t
  /\ \A p, q \in Stmt : Pending(p) /\ Pending(q) => p[1] = q[1]

\* No statement is executed before its task has reached it.
Reached ==
  \A i \in DOMAIN order : \A t \in Task : order[i][1] = t =>
    /\ pc[t] \notin {"idle", "queued"} /\ order[i][2] <= ord[t]
    /\ pc[t] = "gate" => order[i][2] < ord[t]

\* An EditorClose stands before every late statement of the stream.
Sealed(d, l) ==
  \E c \in DOMAIN d :
    /\ d[c].kind = "close"
    /\ \A i \in DOMAIN d : i < c /\ d[i].kind = "query" => d[i].stmt \notin l

Sealing ==
  /\ closing \notin {"revoke", "done"} => late = {}
  /\ closing \in {"revoke", "done"} => serve \in {"killed", "ended"} \/ Sealed(down, late)
  /\ \A i \in DOMAIN held : held[i] \notin late

BatchInv == Turns /\ Reached /\ BatchUnbroken
CloseInv == Sealing /\ NothingAfterClose

\* Nothing is yet to be begun in a stream without queries.
LEMMA QuietPends ==
  NoQuery(down) /\ held = <<>> => \A q : ~Pending(q)
<1> SUFFICES ASSUME NoQuery(down), held = <<>>, NEW q, Pending(q) PROVE FALSE
  OBVIOUS
<1>1. DOMAIN held = {}
  OBVIOUS
<1> QED  BY Zenon, <1>1 DEF NoQuery, Pending

\* No batch breaks while nothing is executed.
LEMMA SameUnbroken == BatchUnbroken /\ order' = order => BatchUnbroken'
  BY DEF BatchUnbroken

\* A task that goes on, or ends, disturbs no batch.
LEMMA BatchKept ==
  ASSUME TypeOK, TypeOK', BatchInv, order' = order,
         \A q \in Stmt : Pending(q)' => Pending(q),
         \A t \in Task :
           /\ ord[t] <= ord'[t]
           /\ pc'[t] \in {"idle", "queued"} => pc[t] \in {"idle", "queued"}
           /\ pc'[t] = "gate" => \/ pc[t] = "gate"
                                 \/ ord[t] < ord'[t] /\ \A q \in Stmt : ~Pending(q)'
           /\ Registered(t)' => Registered(t)
  PROVE  BatchInv'
<1>0. /\ \A t \in Task : ord[t] \in Int /\ ord'[t] \in Int
      /\ \A q \in Stmt : q[1] \in Task /\ q[2] \in Int
      /\ \A i \in DOMAIN order : order[i] \in Stmt
  <2>1. ord \in [Task -> 1 .. MaxStatements] /\ ord' \in [Task -> 1 .. MaxStatements]
    BY Zenon DEF TypeOK
  <2>2. \A t \in Task : ord[t] \in Int /\ ord'[t] \in Int
    BY <2>1, BatchLength
  <2>3. \A q \in Stmt : q[1] \in Task /\ q[2] \in Int
    BY BatchLength DEF Stmt
  <2>4. order \in Seq(Stmt)
    BY Zenon DEF TypeOK
  <2>5. \A i \in DOMAIN order : order[i] \in Stmt
    BY <2>4
  <2> QED  BY Zenon, <2>2, <2>3, <2>5
<1>1. BatchUnbroken'
  BY Zenon, SameUnbroken DEF BatchInv
<1>2. Reached'
  <2> SUFFICES ASSUME NEW i \in DOMAIN order, NEW t \in Task, order[i][1] = t
               PROVE  /\ pc'[t] \notin {"idle", "queued"} /\ order[i][2] <= ord'[t]
                      /\ pc'[t] = "gate" => order[i][2] < ord'[t]
    BY Zenon DEF Reached
  <2>1. /\ pc[t] \notin {"idle", "queued"} /\ order[i][2] <= ord[t]
        /\ pc[t] = "gate" => order[i][2] < ord[t]
    BY Zenon DEF BatchInv, Reached
  <2>2. order[i][2] \in Int /\ ord[t] \in Int /\ ord'[t] \in Int
    BY Zenon, <1>0
  <2>3. ord[t] <= ord'[t] /\ (pc'[t] = "gate" => pc[t] = "gate" \/ ord[t] < ord'[t])
    BY Zenon
  <2>4. order[i][2] <= ord'[t] /\ (pc'[t] = "gate" => order[i][2] < ord'[t])
    BY <2>1, <2>2, <2>3
  <2> QED  BY Zenon, <2>1, <2>4
<1>3. Turns'
  <2>1. ASSUME NEW q \in Stmt, Pending(q)'
        PROVE  /\ OwnsTail(order', q[1]) /\ q[2] <= ord'[q[1]]
               /\ pc'[q[1]] \notin {"idle", "queued", "gate"}
    <3>1. Pending(q) /\ q[1] \in Task /\ q[2] \in Int /\ ord[q[1]] \in Int /\ ord'[q[1]] \in Int
      BY Zenon, <1>0, <2>1
    <3>2. OwnsTail(order, q[1]) /\ q[2] <= ord[q[1]] /\ pc[q[1]] \notin {"idle", "queued", "gate"}
      BY Zenon, <3>1 DEF BatchInv, Turns
    <3>3. ord[q[1]] <= ord'[q[1]] /\ pc'[q[1]] \notin {"idle", "queued", "gate"}
      BY Zenon, <2>1, <3>1, <3>2
    <3>4. q[2] <= ord'[q[1]]
      BY <3>1, <3>2, <3>3
    <3> QED  BY Zenon, <3>2, <3>3, <3>4
  <2>2. ASSUME NEW t \in Task, Registered(t)'
        PROVE  OwnsTail(order', t) /\ \A q \in Stmt : Pending(q)' => q[1] = t
    BY Zenon, <2>2 DEF BatchInv, Turns
  <2>3. \A p, q \in Stmt : Pending(p)' /\ Pending(q)' => p[1] = q[1]
    BY Zenon DEF BatchInv, Turns
  <2> QED  BY Zenon, <2>1, <2>2, <2>3 DEF Turns
<1> QED  BY Zenon, <1>1, <1>2, <1>3 DEF BatchInv

\* What continues the last batch leaves every batch in one piece.
LEMMA AppendOwned ==
  ASSUME NEW o \in Seq(Stmt), NEW q \in Stmt, OwnsTail(o, q[1]), BatchUnbroken, order = o,
         order' = Append(o, q)
  PROVE  OwnsTail(order', q[1]) /\ BatchUnbroken'
<1>1. /\ Len(order') = Len(o) + 1 /\ Len(o) \in Nat /\ DOMAIN order' = 1 .. Len(o) + 1
      /\ DOMAIN o = 1 .. Len(o)
      /\ \A i \in DOMAIN o : i \in Int /\ i <= Len(o) /\ i \in DOMAIN order' /\ order'[i] = o[i]
      /\ order'[Len(o) + 1] = q
  OBVIOUS
<1>2. \A i \in DOMAIN order' : i \in Int /\ (i \in DOMAIN o \/ i = Len(o) + 1)
  BY <1>1
<1>3. OwnsTail(order', q[1])
  <2> SUFFICES ASSUME NEW i \in DOMAIN order', NEW j \in DOMAIN order', i < j, order'[i][1] = q[1]
               PROVE  order'[j][1] = q[1]
    BY Zenon DEF OwnsTail
  <2>1. i \in DOMAIN o
    BY <1>1, <1>2
  <2>2. CASE j \in DOMAIN o
    <3>1. order'[j] = o[j] /\ order'[i] = o[i]
      BY Zenon, <1>1, <2>1, <2>2
    <3> QED  BY Zenon, <2>1, <2>2, <3>1 DEF OwnsTail
  <2>3. CASE j = Len(o) + 1
    BY Zenon, <1>1, <2>3
  <2> QED  BY Zenon, <1>2, <2>2, <2>3
<1>4. BatchUnbroken'
  <2> SUFFICES ASSUME NEW i \in DOMAIN order', NEW k \in DOMAIN order', i < k,
                      order'[i][1] = order'[k][1], NEW j \in i .. k
               PROVE  order'[j][1] = order'[i][1]
    BY Zenon DEF BatchUnbroken
  <2>1. j \in DOMAIN order' /\ i \in DOMAIN o /\ j \in Int /\ (j = i \/ i < j)
    BY <1>1, <1>2
  <2>2. CASE k \in DOMAIN o
    <3>1. j \in DOMAIN o
      BY <1>1, <1>2, <2>1, <2>2
    <3>2. order'[i] = o[i] /\ order'[j] = o[j] /\ order'[k] = o[k]
      BY Zenon, <1>1, <2>1, <2>2, <3>1
    <3>3. o[i][1] = o[k][1]
      BY Zenon, <3>2
    <3>4. \A x \in i .. k : o[x][1] = o[i][1]
      BY <2>1, <2>2, <3>3, Zenon DEF BatchUnbroken
    <3> QED  BY Zenon, <3>2, <3>4
  <2>3. CASE k = Len(o) + 1
    <3>1. order'[i][1] = q[1]
      BY Zenon, <1>1, <2>3
    <3>2. CASE j = i
      BY Zenon, <3>2
    <3>3. CASE i < j
      BY Zenon, <1>3, <2>1, <3>1, <3>3 DEF OwnsTail
    <3> QED  BY Zenon, <2>1, <3>2, <3>3
  <2> QED  BY Zenon, <1>2, <2>2, <2>3
<1> QED  BY <1>3, <1>4, Zenon

\* A statement that is begun continues the last batch.
LEMMA BatchBegun ==
  ASSUME TypeOK, BatchInv, Exchange, NEW q \in Stmt, Pending(q), UNCHANGED <<pc, ord>>,
         \A p \in Stmt : Pending(p)' => Pending(p), order' \in {order, Append(order, q)}
  PROVE  BatchInv'
<1>0. order \in Seq(Stmt) /\ q[1] \in Task
  BY Zenon DEF TypeOK, Stmt
<1>1. CASE order' = order
  <2>1. BatchUnbroken' /\ Reached'
    BY Zenon, <1>1, SameUnbroken DEF BatchInv, Reached
  <2>2. Turns'
    BY Zenon, <1>1 DEF BatchInv, Turns, Registered
  <2> QED  BY Zenon, <2>1, <2>2 DEF BatchInv
<1>2. CASE order' = Append(order, q)
  <2>0. /\ OwnsTail(order, q[1]) /\ q[2] <= ord[q[1]] /\ pc[q[1]] \notin {"idle", "queued", "gate"}
        /\ \A t \in Task : Registered(t) => q[1] = t
        /\ \A p \in Stmt : Pending(p) => p[1] = q[1]
    BY Zenon DEF BatchInv, Turns
  <2>1. OwnsTail(order', q[1]) /\ BatchUnbroken'
    BY Zenon, <1>0, <1>2, <2>0, AppendOwned DEF BatchInv
  <2>2. Turns'
    <3>1. \A t \in Task : Registered(t)' <=> Registered(t)
      BY Zenon DEF Registered
    <3>2. \A p \in Stmt : Pending(p)' => /\ OwnsTail(order', p[1]) /\ p[2] <= ord'[p[1]]
                                         /\ pc'[p[1]] \notin {"idle", "queued", "gate"}
      BY Zenon, <2>0, <2>1 DEF BatchInv, Turns
    <3>3. \A t \in Task : Registered(t)' => /\ OwnsTail(order', t)
                                            /\ \A p \in Stmt : Pending(p)' => p[1] = t
      BY Zenon, <2>0, <2>1, <3>1
    <3>4. \A p, r \in Stmt : Pending(p)' /\ Pending(r)' => p[1] = r[1]
      BY Zenon DEF BatchInv, Turns
    <3> QED  BY Zenon, <3>2, <3>3, <3>4 DEF Turns
  <2>3. \A i \in DOMAIN order' : (i \in DOMAIN order /\ order'[i] = order[i]) \/ order'[i] = q
    BY Zenon, <1>0, <1>2, AppendPlaces
  <2>4. Reached'
    BY Zenon, <2>0, <2>3 DEF BatchInv, Reached
  <2> QED  BY Zenon, <2>1, <2>2, <2>4 DEF BatchInv
<1> QED  BY Zenon, <1>1, <1>2

\* A task that acquires the mutex of an open session finds a quiet stream.
LEMMA BatchAcquired ==
  ASSUME TypeOK, TypeOK', Holding, Exchange, BatchInv, NEW t \in Task, Acquire(t), open
  PROVE  BatchInv'
<1> USE DEF task, session, cancels, proxy, Goto
<1>0. pc \in [Task -> Label] /\ order \in Seq(Stmt)
  BY Zenon DEF TypeOK
<1>1. /\ pc[t] = "queued" /\ mutex = NoTask /\ UNCHANGED <<ord, down, held, order>>
      /\ pc'[t] = "gate" /\ \A x \in Task \ {t} : pc'[x] = pc[x]
  BY <1>0, Zenon DEF Acquire
<1>2. \A x \in Task : ~Registered(x)
  BY Zenon, <1>1, NobodyIsNoTask DEF Holding
<1>3. Quiet
  BY Zenon, <1>2 DEF Exchange, Registered
<1>4. \A q : ~Pending(q)'
  <2>1. NoQuery(down') /\ held' = <<>>
    BY Zenon, <1>1, <1>3 DEF Quiet
  <2> QED  BY Zenon, <1>1, <1>3, QuietPends DEF Quiet, Pending
<1>5. \A i \in DOMAIN order : order[i][1] # t
  BY Zenon, <1>1 DEF BatchInv, Reached
<1>6. OwnsTail(order', t)
  BY Zenon, <1>1, <1>5 DEF OwnsTail
<1>7. \A x \in Task : Registered(x)' => x = t
  BY Zenon, <1>1, <1>2 DEF Registered
<1>8. Turns'
  BY Zenon, <1>4, <1>6, <1>7 DEF Turns
<1>9. Reached'
  BY Zenon, <1>1, <1>5 DEF BatchInv, Reached
<1> QED  BY Zenon, <1>1, <1>8, <1>9, SameUnbroken DEF BatchInv

\* A statement is sent into a quiet stream, by the holder of the mutex.
LEMMA BatchSent ==
  ASSUME TypeOK, TypeOK', Holding, Exchange, BatchInv, NEW t \in Task, Send(t), pc'[t] = "wait"
  PROVE  BatchInv'
<1> USE DEF task, session, cancels, proxy, Goto
<1>0. pc \in [Task -> Label] /\ down \in Seq(DownFrame) /\ ord \in [Task -> 1 .. MaxStatements]
  BY Zenon DEF TypeOK
<1>1. /\ pc[t] = "gate" /\ UNCHANGED <<ord, held, order>>
      /\ \A x \in Task \ {t} : pc'[x] = pc[x]
      /\ down' = down \/ down' = Append(down, [kind |-> "query", stmt |-> Current(t)])
  BY <1>0, Zenon DEF Send, ToProxy
<1>2. Quiet /\ Registered(t)
  BY Zenon, <1>1 DEF Exchange, Registered
<1>3. \A q \in Stmt : Pending(q)' => q = Current(t)
  <2>0. \A q : ~Pending(q)
    BY Zenon, <1>2, QuietPends DEF Quiet
  <2>1. CASE down' = down
    BY Zenon, <1>1, <2>0, <2>1 DEF Pending
  <2>2. CASE down' = Append(down, [kind |-> "query", stmt |-> Current(t)])
    <3>1. \A i \in DOMAIN down' : \/ i \in DOMAIN down /\ down'[i] = down[i]
                                  \/ down'[i] = [kind |-> "query", stmt |-> Current(t)]
      BY <1>0, <2>2
    <3>2. [kind |-> "query", stmt |-> Current(t)].stmt = Current(t)
      OBVIOUS
    <3> QED  BY Zenon, <1>1, <2>0, <3>1, <3>2 DEF Pending
  <2> QED  BY Zenon, <1>1, <2>1, <2>2
<1>4. Current(t) = <<t, ord[t]>> /\ Current(t)[1] = t /\ Current(t)[2] = ord'[t] /\ ord'[t] <= ord'[t]
  BY <1>0, <1>1, BatchLength DEF Current
<1>5. \A x \in Task : Registered(x) => x = t
  BY Zenon, <1>2 DEF Holding
<1>6. \A x \in Task : Registered(x)' => x = t
  BY Zenon, <1>1, <1>5 DEF Registered
<1>7. OwnsTail(order', t)
  BY Zenon, <1>1, <1>2 DEF BatchInv, Turns
<1>8. Turns'
  <2>1. \A q \in Stmt : Pending(q)' => q[1] = t /\ q[2] <= ord'[q[1]]
    BY Zenon, <1>3, <1>4
  <2>2. pc'[t] \notin {"idle", "queued", "gate"}
    BY Zenon
  <2> QED  BY Zenon, <1>6, <1>7, <2>1, <2>2 DEF Turns
<1>9. Reached'
  BY Zenon, <1>1 DEF BatchInv, Reached
<1> QED  BY Zenon, <1>1, <1>8, <1>9, SameUnbroken DEF BatchInv

\* What stays in the stream, or leaves it, was there.
LEMMA PendingKept ==
  ASSUME down \in Seq(DownFrame),
         \/ down' = down
         \/ down' = <<>>
         \/ down # <<>> /\ down' = Tail(down)
         \/ \E f \in DownFrame : f.kind # "query" /\ down' = Append(down, f),
         held' = held \/ held' = <<>>, NEW q
  PROVE  Pending(q)' => Pending(q)
<1>1. \A i \in DOMAIN down' : \/ \E j \in DOMAIN down : down'[i] = down[j]
                              \/ down'[i].kind # "query"
  <2>1. CASE down' = down \/ down' = <<>>
    BY <2>1
  <2>2. CASE down # <<>> /\ down' = Tail(down)
    <3>1. \A i \in DOMAIN down' : i + 1 \in DOMAIN down /\ down'[i] = down[i + 1]
      BY <2>2
    <3> QED  BY Zenon, <3>1
  <2>3. CASE \E f \in DownFrame : f.kind # "query" /\ down' = Append(down, f)
    <3>1. PICK f \in DownFrame : f.kind # "query" /\ down' = Append(down, f)
      BY Zenon, <2>3
    <3>2. \A i \in DOMAIN down' : (i \in DOMAIN down /\ down'[i] = down[i]) \/ down'[i] = f
      BY <3>1
    <3> QED  BY Zenon, <3>1, <3>2
  <2> QED  BY Zenon, <2>1, <2>2, <2>3
<1>2. \A i \in DOMAIN held' : i \in DOMAIN held /\ held'[i] = held[i]
  OBVIOUS
<1> QED  BY Zenon, <1>1, <1>2 DEF Pending

\* The proxy begins what was sent to it, and makes nothing up.
LEMMA ServingPends ==
  ASSUME TypeOK, Serving \/ ProxyGone
  PROVE  /\ \A q \in Stmt : Pending(q)' => Pending(q)
         /\ order' = order \/ \E q \in Stmt : Pending(q) /\ order' = Append(order, q)
         /\ UNCHANGED <<pc, ord, mutex>>
<1> USE DEF proxy, task, session, cancels
<1>0. down \in Seq(DownFrame) /\ held \in Seq(Stmt)
  BY Zenon DEF TypeOK
<1> DEFINE Kept == \A q \in Stmt : Pending(q)' => Pending(q)
<1>h. ASSUME down # <<>> PROVE Head(down) \in DownFrame /\ Head(down) = down[1] /\ 1 \in DOMAIN down
  BY <1>0, <1>h
<1>1. CASE NextHeld
  <2>1. Head(held) \in Stmt /\ 1 \in DOMAIN held /\ held[1] = Head(held)
    BY <1>0, <1>1 DEF NextHeld
  <2>2. Pending(Head(held)) /\ (order' = order \/ order' = Append(order, Head(held)))
    BY Zenon, <1>1, <2>1 DEF NextHeld, Begin, Pending
  <2>3. Kept
    <3>1. held' = <<>> /\ (down' = down \/ down' = <<>>)
      BY Zenon, <1>1 DEF NextHeld
    <3> QED  BY Zenon, <1>0, <3>1, PendingKept
  <2>4. UNCHANGED <<pc, ord, mutex>>
    BY Zenon, <1>1 DEF NextHeld
  <2> QED  BY Zenon, <2>1, <2>2, <2>3, <2>4
<1>2. CASE NextFrame
  <2>0. down # <<>> /\ UNCHANGED <<pc, ord, mutex>>
    BY Zenon, <1>2 DEF NextFrame
  <2>1. Kept
    <3>1. (held' = held \/ held' = <<>>) /\ (down' = <<>> \/ down' = Tail(down))
      BY Zenon, <1>2 DEF NextFrame, End
    <3> QED  BY Zenon, <1>0, <2>0, <3>1, PendingKept
  <2>2. CASE order' = order
    BY Zenon, <2>0, <2>1, <2>2
  <2>3. CASE Head(down).kind = "query" /\ Begin(Head(down).stmt)
    <3>1. Head(down).stmt \in Stmt
      BY Zenon, <1>h, <2>0, <2>3, Frames
    <3>2. Pending(Head(down).stmt)
      BY Zenon, <1>h, <2>0, <2>3 DEF Pending
    <3>3. order' = order \/ order' = Append(order, Head(down).stmt)
      BY Zenon, <2>3 DEF Begin
    <3> QED  BY Zenon, <2>0, <2>1, <3>1, <3>2, <3>3
  <2> QED  BY Zenon, <1>2, <2>2, <2>3 DEF NextFrame
<1>3. CASE FrameMeanwhile
  <2>0. down # <<>> /\ UNCHANGED <<pc, ord, mutex, order>>
    BY Zenon, <1>3 DEF FrameMeanwhile
  <2>1. CASE (held' = held \/ held' = <<>>) /\ (down' = <<>> \/ down' = Tail(down))
    BY Zenon, <1>0, <2>0, <2>1, PendingKept
  <2>2. CASE Head(down).kind = "query" /\ down' = Tail(down) /\ held' = <<Head(down).stmt>>
    <3>1. \A i \in DOMAIN down' : i + 1 \in DOMAIN down /\ down'[i] = down[i + 1]
      BY <1>0, <2>0, <2>2
    <3>2. \A i \in DOMAIN held' : held'[i] = Head(down).stmt
      BY <2>2
    <3>3. Kept
      BY Zenon, <1>h, <2>0, <2>2, <3>1, <3>2 DEF Pending
    <3> QED  BY Zenon, <2>0, <3>3
  <2> QED  BY Zenon, <1>3, <2>1, <2>2 DEF FrameMeanwhile, End
<1>4. CASE Reply \/ ReplyError \/ Report \/ ProxyGone
  <2>1. (held' = held \/ held' = <<>>) /\ (down' = down \/ down' = <<>>)
    BY Zenon, <1>4 DEF Reply, ReplyError, Report, ProxyGone, End
  <2>2. UNCHANGED <<pc, ord, mutex, order>>
    BY Zenon, <1>4 DEF Reply, ReplyError, Report, ProxyGone
  <2> QED  BY Zenon, <1>0, <2>1, <2>2, PendingKept
<1> QED  BY Zenon, <1>1, <1>2, <1>3, <1>4 DEF Serving

\* Every step leaves every batch in one piece.
LEMMA BatchStep ==
  IInv /\ TypeOK' /\ BatchInv /\ [Next]_vars => BatchInv'
<1> SUFFICES ASSUME IInv, TypeOK', BatchInv, [Next]_vars PROVE BatchInv'
  OBVIOUS
<1> USE DEF task, session, cancels, Goto
<1>i. TypeOK /\ Holding /\ Exchange
  BY Zenon DEF IInv
<1>0. /\ pc \in [Task -> Label] /\ ord \in [Task -> 1 .. MaxStatements]
      /\ down \in Seq(DownFrame) /\ up \in Seq(UpFrame)
  BY Zenon, <1>i DEF TypeOK
<1>n. \A x \in Task : ord[x] \in Int /\ ord[x] <= ord[x]
  BY <1>0, BatchLength
\* A step that leaves the ordinals and what is executed alone, and takes no task to the mutex.
<1>k. ASSUME UNCHANGED <<ord, order>>, \A q \in Stmt : Pending(q)' => Pending(q),
             \A x \in Task : \/ pc'[x] = pc[x]
                             \/ pc[x] = "idle" /\ pc'[x] = "queued"
                             \/ pc'[x] = "over"
                             \/ Registered(x) /\ pc'[x] \in {"fail", "failing", "unlock"}
      PROVE  BatchInv'
  <2>1. \A x \in Task :
           /\ ord[x] <= ord'[x]
           /\ pc'[x] \in {"idle", "queued"} => pc[x] \in {"idle", "queued"}
           /\ pc'[x] = "gate" => pc[x] = "gate"
           /\ Registered(x)' => Registered(x)
    BY Zenon, <1>n, <1>k DEF Registered
  <2> QED  BY Zenon, <1>i, <1>k, <2>1, BatchKept
<1>u. UNCHANGED <<down, held>> => \A q \in Stmt : Pending(q)' => Pending(q)
  BY Zenon DEF Pending
<1>1. ASSUME NEW t \in Task, Submit(t) PROVE BatchInv'
  BY <1>1, <1>0, <1>k, <1>u, Zenon DEF Submit, proxy
<1>2. ASSUME NEW t \in Task, Acquire(t) PROVE BatchInv'
  <2>1. CASE open
    BY Zenon, <1>i, <1>2, <2>1, BatchAcquired
  <2>2. CASE ~open
    BY <1>2, <1>0, <1>k, <1>u, <2>2, Zenon DEF Acquire, proxy
  <2> QED  BY Zenon, <2>1, <2>2
<1>3. ASSUME NEW t \in Task, Send(t) PROVE BatchInv'
  <2>1. CASE pc'[t] = "wait"
    BY Zenon, <1>i, <1>3, <2>1, BatchSent
  <2>2. CASE pc'[t] # "wait"
    BY <1>3, <1>0, <1>k, <1>u, <2>2, Zenon DEF Send, proxy, Registered
  <2> QED  BY Zenon, <2>1, <2>2
<1>4. ASSUME NEW t \in Task, TakeAnswer(t) PROVE BatchInv'
  <2>1. /\ pc[t] = "wait" /\ up # <<>> /\ UNCHANGED <<down, held, order>>
        /\ \A x \in Task \ {t} : pc'[x] = pc[x] /\ ord'[x] = ord[x]
        /\ \/ pc'[t] = "unlock" /\ ord' = ord
           \/ pc'[t] = "gate" /\ ord[t] < ord'[t] /\ ord[t] <= ord'[t]
    BY <1>4, <1>0, <1>n DEF TakeAnswer, proxy
  <2>2. Lone(Current(t))
    BY Zenon, <1>i, <2>1 DEF Exchange
  <2>3. NoQuery(down) /\ held = <<>>
    BY Zenon, <2>1, <2>2 DEF Lone, Quiet, Queued, HeldBack, Underway, Answered
  <2>4. \A q \in Stmt : ~Pending(q)'
    BY Zenon, <2>1, <2>3, QuietPends DEF Pending
  <2>5. \A x \in Task :
           /\ ord[x] <= ord'[x]
           /\ pc'[x] \in {"idle", "queued"} => pc[x] \in {"idle", "queued"}
           /\ pc'[x] = "gate" => pc[x] = "gate" \/ ord[x] < ord'[x]
           /\ Registered(x)' => Registered(x)
    BY Zenon, <1>n, <2>1 DEF Registered
  <2> QED  BY Zenon, <1>i, <2>1, <2>4, <2>5, BatchKept
<1>5. ASSUME NEW t \in Task, TakeError(t) PROVE BatchInv'
  BY <1>5, <1>0, <1>k, <1>u, Zenon DEF TakeError, proxy, Registered
<1>6. ASSUME NEW t \in Task, TimeOut(t) PROVE BatchInv'
  BY <1>6, <1>0, <1>k, <1>u, Zenon DEF TimeOut, proxy, Registered
<1>7. ASSUME NEW t \in Task, Fail(t) PROVE BatchInv'
  BY <1>7, <1>0, <1>k, <1>u, Zenon DEF Fail, proxy, Registered
<1>8. ASSUME NEW t \in Task, Unlock(t) PROVE BatchInv'
  BY <1>8, <1>0, <1>k, <1>u, Zenon DEF Unlock, proxy
<1>9. ASSUME NEW t \in Task, CancelCommits(t) \/ CancelFinds(t) PROVE BatchInv'
  <2>1. UNCHANGED <<pc, ord, down, held, order>>
    BY Zenon, <1>9 DEF CancelCommits, CancelFinds, proxy
  <2> QED  BY Zenon, <1>k, <1>u, <2>1
<1>10. ASSUME NEW t \in Task, CancelSignals(t) PROVE BatchInv'
  <2>1. UNCHANGED <<pc, ord, held, order>> /\ (down' = down \/ down' = Append(down, [kind |-> "cancel"]))
    BY Zenon, <1>10 DEF CancelSignals, ToProxy, proxy
  <2>2. [kind |-> "cancel"] \in DownFrame /\ [kind |-> "cancel"].kind # "query"
    BY Frames, Zenon
  <2>3. \A q \in Stmt : Pending(q)' => Pending(q)
    BY Zenon, <1>0, <2>1, <2>2, PendingKept
  <2> QED  BY Zenon, <1>k, <2>1, <2>3
<1>11. CASE CloseSession
  <2>1. UNCHANGED <<pc, ord, down, held, order>>
    BY Zenon, <1>11 DEF CloseSession, proxy
  <2> QED  BY Zenon, <1>k, <1>u, <2>1
<1>12. CASE CloseSends
  <2>1. UNCHANGED <<pc, ord, held, order>> /\ (down' = down \/ down' = Append(down, [kind |-> "close"]))
    BY Zenon, <1>12 DEF CloseSends, ToProxy, proxy
  <2>2. [kind |-> "close"] \in DownFrame /\ [kind |-> "close"].kind # "query"
    BY Frames, Zenon
  <2>3. \A q \in Stmt : Pending(q)' => Pending(q)
    BY Zenon, <1>0, <2>1, <2>2, PendingKept
  <2> QED  BY Zenon, <1>k, <2>1, <2>3
<1>13. CASE CloseRevokes
  <2>1. UNCHANGED <<ord, down, held, order>>
    BY Zenon, <1>13 DEF CloseRevokes, proxy
  <2>2. \A x \in Task : pc'[x] = pc[x] \/ (x = closer /\ pc'[x] = "unlock")
    BY <1>13, Zenon DEF CloseRevokes
  <2>3. \A x \in Task : x = closer => Registered(x)
    BY Zenon, <1>i, <1>13 DEF CloseRevokes, Holding, Registered
  <2> QED  BY Zenon, <1>k, <1>u, <2>1, <2>2, <2>3
<1>14. CASE Serving \/ ProxyGone
  <2>1. /\ \A q \in Stmt : Pending(q)' => Pending(q)
        /\ order' = order \/ \E q \in Stmt : Pending(q) /\ order' = Append(order, q)
        /\ UNCHANGED <<pc, ord, mutex>>
    BY Zenon, <1>i, <1>14, ServingPends
  <2>2. CASE order' = order
    BY Zenon, <1>k, <2>1, <2>2
  <2>3. CASE \E q \in Stmt : Pending(q) /\ order' = Append(order, q)
    BY Zenon, <1>i, <2>1, <2>3, BatchBegun
  <2> QED  BY Zenon, <2>1, <2>2, <2>3
<1>15. CASE UNCHANGED vars
  <2>1. UNCHANGED <<pc, ord, down, held, order>>
    BY Zenon, <1>15 DEF vars, proxy
  <2> QED  BY Zenon, <1>k, <1>u, <2>1
<1> QED
  BY <1>1, <1>2, <1>3, <1>4, <1>5, <1>6, <1>7, <1>8, <1>9, <1>10,
     <1>11, <1>12, <1>13, <1>14, <1>15, Zenon DEF Next, Run, Cancelling

-----------------------------------------------------------------------------
\* A frame joins a sealed stream.
LEMMA AppendSealed ==
  ASSUME NEW S, NEW d \in Seq(S), NEW f \in S, NEW l, Sealed(d, l)
  PROVE  Sealed(Append(d, f), l)
<1>1. PICK c \in DOMAIN d :
        /\ d[c].kind = "close"
        /\ \A i \in DOMAIN d : i < c /\ d[i].kind = "query" => d[i].stmt \notin l
  BY Zenon DEF Sealed
<1>2. /\ c \in DOMAIN Append(d, f) /\ Append(d, f)[c] = d[c]
      /\ \A i \in DOMAIN Append(d, f) : i < c => i \in DOMAIN d /\ Append(d, f)[i] = d[i]
  <2>1. c \in Int /\ Len(d) + 1 \in Int /\ c < Len(d) + 1
    BY <1>1
  <2>2. ~(Len(d) + 1 < c)
    BY <2>1
  <2>3. \A i \in DOMAIN Append(d, f) : i < c => i \in DOMAIN d /\ Append(d, f)[i] = d[i]
    BY Zenon, <2>2, AppendPlaces
  <2> QED  BY Zenon, <1>1, <2>3, AppendPlaces
<1>3. Append(d, f)[c].kind = "close"
  BY Zenon, <1>1, <1>2
<1>4. ASSUME NEW i \in DOMAIN Append(d, f), i < c, Append(d, f)[i].kind = "query"
      PROVE  Append(d, f)[i].stmt \notin l
  <2>1. i \in DOMAIN d /\ Append(d, f)[i] = d[i]
    BY Zenon, <1>2, <1>4
  <2> QED  BY Zenon, <1>1, <1>4, <2>1
<1> QED  BY Zenon, <1>2, <1>3, <1>4 DEF Sealed

\* EditorClose seals the stream.
LEMMA CloseSeals ==
  ASSUME NEW S, NEW d \in Seq(S), NEW f \in S, f.kind = "close"
  PROVE  Sealed(Append(d, f), {})
<1>1. Len(d) + 1 \in DOMAIN Append(d, f) /\ Append(d, f)[Len(d) + 1] = f
  OBVIOUS
<1> QED  BY <1>1, Zenon DEF Sealed

\* A statement that is not in the stream becomes a late one.
LEMMA LateSealed ==
  ASSUME NEW d, NoQuery(d), NEW l, Sealed(d, l), NEW m
  PROVE  Sealed(d, m)
  BY Zenon DEF Sealed, NoQuery

\* A frame that leaves a sealed stream is not a late statement.
LEMMA TailSealed ==
  ASSUME NEW S, NEW d \in Seq(S), d # <<>>, Head(d).kind # "close", NEW l, Sealed(d, l)
  PROVE  Sealed(Tail(d), l) /\ (Head(d).kind = "query" => Head(d).stmt \notin l)
<1>1. PICK c \in DOMAIN d :
        /\ d[c].kind = "close"
        /\ \A i \in DOMAIN d : i < c /\ d[i].kind = "query" => d[i].stmt \notin l
  BY Zenon DEF Sealed
<1>2. /\ Head(d) = d[1] /\ 1 \in DOMAIN d
      /\ \A i \in DOMAIN Tail(d) : i \in Int /\ i + 1 \in DOMAIN d /\ Tail(d)[i] = d[i + 1]
      /\ \A i \in DOMAIN d : i \in Int /\ (i # 1 => i - 1 \in DOMAIN Tail(d) /\ Tail(d)[i - 1] = d[i])
  OBVIOUS
<1>3. c # 1 /\ c \in Int /\ 1 < c
  <2>1. c # 1
    BY Zenon, <1>1, <1>2
  <2> QED  BY <2>1
<1>4. Tail(d)[c - 1] = d[c] /\ c - 1 \in DOMAIN Tail(d)
  BY <1>2, <1>3, Zenon
<1>5. \A i \in DOMAIN Tail(d) : i < c - 1 => i + 1 < c
  BY <1>2, <1>3
<1>6. \A i \in DOMAIN Tail(d) : i < c - 1 /\ Tail(d)[i].kind = "query" => Tail(d)[i].stmt \notin l
  BY Zenon, <1>1, <1>2, <1>5
<1>7. Sealed(Tail(d), l)
  BY Zenon, <1>1, <1>4, <1>6 DEF Sealed
<1>8. Head(d).kind = "query" => Head(d).stmt \notin l
  BY Zenon, <1>1, <1>2, <1>3
<1> QED  BY <1>7, <1>8, Zenon

\* A step that leaves the stream and its close alone.
LEMMA CloseKept ==
  ASSUME CloseInv, UNCHANGED <<down, serve, held, order, late>>,
         closing' \in {"revoke", "done"} <=> closing \in {"revoke", "done"}
  PROVE  CloseInv'
<1>1. Sealing'
  BY Zenon DEF CloseInv, Sealing
<1>2. NothingAfterClose'
  BY Zenon DEF CloseInv, NothingAfterClose
<1> QED  BY Zenon, <1>1, <1>2 DEF CloseInv

\* A statement sent after EditorClose is behind it in the stream.
LEMMA CloseSent ==
  ASSUME TypeOK, TypeOK', Holding, Exchange, BatchInv, CloseInv, NEW t \in Task, Send(t)
  PROVE  CloseInv'
<1> USE DEF task, session, cancels, proxy, Goto
<1>0. /\ down \in Seq(DownFrame) /\ ord \in [Task -> 1 .. MaxStatements] /\ order \in Seq(Stmt)
      /\ Current(t) \in Stmt
  BY Zenon, CurrentStmt DEF TypeOK
<1>1. /\ pc[t] = "gate" /\ UNCHANGED <<closing, serve, held, order>>
      /\ \/ UNCHANGED <<down, late>>
         \/ /\ ToProxy([kind |-> "query", stmt |-> Current(t)])
            /\ late' = IF closing \in {"revoke", "done"} THEN late \cup {Current(t)} ELSE late
  BY Zenon DEF Send
<1>2. CASE UNCHANGED <<down, late>>
  BY Zenon, <1>1, <1>2, CloseKept
<1>3. CASE /\ ToProxy([kind |-> "query", stmt |-> Current(t)])
           /\ late' = IF closing \in {"revoke", "done"} THEN late \cup {Current(t)} ELSE late
  <2>1. Quiet
    BY Zenon, <1>1 DEF Exchange
  <2>2. NoQuery(down) /\ held' = <<>> /\ DOMAIN held' = {}
    BY <1>1, <2>1 DEF Quiet
  <2>3. [kind |-> "query", stmt |-> Current(t)] \in DownFrame
    BY Zenon, <1>0, Frames
  <2>4. NothingAfterClose'
    <3>1. ASSUME NEW i \in DOMAIN order PROVE order[i] # Current(t)
      <4>1. order[i] \in Stmt
        BY <1>0
      <4>2. order[i][1] = t => order[i][2] < ord[t]
        BY Zenon, <1>1, <3>1 DEF BatchInv, Reached
      <4>3. Current(t)[1] = t /\ Current(t)[2] = ord[t] /\ ord[t] \in Int /\ ~(ord[t] < ord[t])
        BY <1>0, BatchLength DEF Current
      <4> QED  BY Zenon, <4>2, <4>3
    <3>2. \A i \in DOMAIN order : order[i] \notin late'
      BY Zenon, <1>3, <3>1 DEF CloseInv, NothingAfterClose
    <3> QED  BY Zenon, <1>1, <3>2 DEF NothingAfterClose
  <2>5. closing' \notin {"revoke", "done"} => late' = {}
    BY Zenon, <1>1, <1>3 DEF CloseInv, Sealing
  <2>6. ASSUME closing' \in {"revoke", "done"}, serve' \notin {"killed", "ended"}
        PROVE  Sealed(down', late')
    <3>1. Sealed(down, late)
      BY Zenon, <1>1, <2>6 DEF CloseInv, Sealing
    <3>2. Sealed(down, late')
      BY Zenon, <2>2, <3>1, LateSealed
    <3>3. down' = Append(down, [kind |-> "query", stmt |-> Current(t)])
      BY Zenon, <1>1, <1>3, <2>6 DEF ToProxy
    <3> QED  BY Zenon, <1>0, <2>3, <3>2, <3>3, AppendSealed
  <2>7. Sealing'
    BY Zenon, <2>2, <2>5, <2>6 DEF Sealing
  <2> QED  BY Zenon, <2>4, <2>7 DEF CloseInv
<1> QED  BY Zenon, <1>1, <1>2, <1>3

\* Nothing new is executed, nothing new is late, and nothing before EditorClose leaves the stream.
LEMMA CloseServed ==
  ASSUME CloseInv, UNCHANGED <<closing, order, late>>,
         \A i \in DOMAIN held' : held'[i] \notin late,
         \/ serve' \in {"killed", "ended"}
         \/ /\ serve \notin {"killed", "ended"}
            /\ Sealed(down, late) => Sealed(down', late)
  PROVE  CloseInv'
<1>1. NothingAfterClose'
  BY Zenon DEF CloseInv, NothingAfterClose
<1>2. Sealing'
  BY Zenon DEF CloseInv, Sealing
<1> QED  BY Zenon, <1>1, <1>2 DEF CloseInv

\* What the proxy begins is not late.
LEMMA CloseBegun ==
  ASSUME TypeOK, CloseInv, UNCHANGED <<closing, late>>, held' = <<>>, NEW q \in Stmt, Begin(q),
         q \notin late, serve \notin {"killed", "ended"},
         Sealed(down, late) => Sealed(down', late) \/ revoked
  PROVE  CloseInv'
<1>0. DOMAIN held' = {} /\ order \in Seq(Stmt)
  BY DEF TypeOK
<1>1. CASE revoked
  BY Zenon, <1>0, <1>1, CloseServed DEF Begin
<1>2. CASE ~revoked
  <2>0. order' = Append(order, q)
    BY <1>2, Zenon DEF Begin
  <2>1. \A i \in DOMAIN order' : (i \in DOMAIN order /\ order'[i] = order[i]) \/ order'[i] = q
    BY <1>0, <2>0
  <2>2. NothingAfterClose'
    BY Zenon, <2>1 DEF CloseInv, NothingAfterClose
  <2>3. Sealing'
    BY Zenon, <1>0, <1>2 DEF CloseInv, Sealing
  <2> QED  BY Zenon, <2>2, <2>3 DEF CloseInv
<1> QED  BY Zenon, <1>1, <1>2

\* Every step keeps EditorClose ahead of the statements sent after it, until the proxy has read it.
LEMMA CloseStep ==
  IInv /\ TypeOK' /\ BatchInv /\ CloseInv /\ [Next]_vars => CloseInv'
<1> SUFFICES ASSUME IInv, TypeOK', BatchInv, CloseInv, [Next]_vars PROVE CloseInv'
  OBVIOUS
<1> USE DEF task, session, cancels, proxy, Goto
<1>i. TypeOK /\ Holding /\ Exchange
  BY Zenon DEF IInv
<1>0. down \in Seq(DownFrame) /\ held \in Seq(Stmt) /\ order \in Seq(Stmt)
  BY Zenon, <1>i DEF TypeOK
<1>h. ASSUME down # <<>> PROVE Head(down) \in DownFrame
  BY <1>0, <1>h
<1>e. DOMAIN <<>> = {}
  OBVIOUS
<1>l. /\ closing \notin {"revoke", "done"} => late = {}
      /\ closing \in {"revoke", "done"} => serve \in {"killed", "ended"} \/ Sealed(down, late)
      /\ \A i \in DOMAIN held : held[i] \notin late
  BY Zenon DEF CloseInv, Sealing
<1>1. ASSUME NEW t \in Task,
             \/ Submit(t) \/ Acquire(t) \/ TakeAnswer(t) \/ TakeError(t) \/ TimeOut(t) \/ Unlock(t)
             \/ CancelCommits(t) \/ CancelFinds(t)
      PROVE CloseInv'
  <2>1. UNCHANGED <<down, serve, held, order, late, closing>>
    BY Zenon, <1>1 DEF Submit, Acquire, TakeAnswer, TakeError, TimeOut, Unlock, CancelCommits, CancelFinds
  <2> QED  BY Zenon, <2>1, CloseKept
<1>2. ASSUME NEW t \in Task, Send(t) PROVE CloseInv'
  BY Zenon, <1>i, <1>2, CloseSent
<1>3. ASSUME NEW t \in Task, Fail(t) PROVE CloseInv'
  <2>1. open => closing = "no"
    BY Zenon, <1>i DEF Holding
  <2>2. UNCHANGED <<down, serve, held, order, late>>
    BY Zenon, <1>3 DEF Fail
  <2>3. closing' = closing \/ (closing = "no" /\ closing' = "send")
    BY <1>3, <2>1, Zenon DEF Fail
  <2> QED  BY Zenon, <2>2, <2>3, CloseKept
<1>4. CASE CloseSession
  <2>1. closing = "no"
    BY Zenon, <1>i, <1>4 DEF Holding, CloseSession
  <2>2. UNCHANGED <<down, serve, held, order, late>> /\ closing' = "send"
    BY Zenon, <1>4 DEF CloseSession
  <2> QED  BY Zenon, <2>1, <2>2, CloseKept
<1>5. CASE CloseRevokes
  <2>1. UNCHANGED <<down, serve, held, order, late>> /\ closing = "revoke" /\ closing' = "done"
    BY Zenon, <1>5 DEF CloseRevokes
  <2> QED  BY Zenon, <2>1, CloseKept
<1>6. ASSUME NEW t \in Task, CancelSignals(t) PROVE CloseInv'
  <2>1. /\ UNCHANGED <<closing, held, order, late, serve>>
        /\ down' = down \/ down' = Append(down, [kind |-> "cancel"])
    BY Zenon, <1>6 DEF CancelSignals, ToProxy
  <2>2. [kind |-> "cancel"] \in DownFrame
    BY Zenon, Frames
  <2>3. Sealed(down, late) => Sealed(down', late)
    BY Zenon, <1>0, <2>1, <2>2, AppendSealed
  <2> QED  BY Zenon, <1>l, <2>1, <2>3, CloseServed
<1>7. CASE CloseSends
  <2>1. /\ UNCHANGED <<held, order, late, serve>> /\ closing = "send" /\ closing' = "revoke"
        /\ serve # "ended" => down' = Append(down, [kind |-> "close"])
    BY Zenon, <1>7 DEF CloseSends, ToProxy
  <2>2. [kind |-> "close"] \in DownFrame /\ [kind |-> "close"].kind = "close"
    BY Frames, Zenon
  <2>3. late = {}
    BY Zenon, <1>l, <2>1
  <2>4. serve' # "ended" => Sealed(down', late')
    BY Zenon, <1>0, <2>1, <2>2, <2>3, CloseSeals
  <2>5. Sealing'
    BY Zenon, <1>l, <2>1, <2>4 DEF Sealing
  <2>6. NothingAfterClose'
    BY Zenon, <2>1 DEF CloseInv, NothingAfterClose
  <2> QED  BY Zenon, <2>5, <2>6 DEF CloseInv
<1>8. CASE NextHeld
  <2>1. /\ UNCHANGED <<closing, late>> /\ held' = <<>> /\ Begin(Head(held)) /\ serve = "idle"
        /\ revoked \/ down' = down
    BY Zenon, <1>8 DEF NextHeld
  <2>2. Head(held) \in Stmt /\ 1 \in DOMAIN held /\ held[1] = Head(held)
    BY <1>0, <1>8 DEF NextHeld
  <2>3. Head(held) \notin late /\ serve \notin {"killed", "ended"}
    BY Zenon, <1>l, <2>1, <2>2
  <2> QED  BY Zenon, <1>i, <2>1, <2>2, <2>3, CloseBegun
<1>9. CASE NextFrame
  <2>0. down # <<>> /\ serve = "idle" /\ UNCHANGED <<closing, late>> /\ held = <<>>
    BY Zenon, <1>9 DEF NextFrame
  <2>1. CASE End /\ UNCHANGED order
    BY Zenon, <1>e, <2>0, <2>1, CloseServed DEF End
  <2>2. CASE Head(down).kind = "cancel" /\ down' = Tail(down) /\ UNCHANGED <<serve, held, order>>
    <3>1. Head(down).kind # "close"
      BY <2>2, Zenon
    <3>2. Sealed(down, late) => Sealed(down', late)
      BY Zenon, <1>0, <2>0, <2>2, <3>1, TailSealed
    <3>3. serve \notin {"killed", "ended"}
      BY Zenon, <2>0
    <3> QED  BY Zenon, <1>l, <2>0, <2>2, <3>2, <3>3, CloseServed
  <2>3. CASE /\ Head(down).kind = "query" /\ Begin(Head(down).stmt) /\ held' = <<>>
             /\ revoked \/ down' = Tail(down)
    <3>1. Head(down).kind # "close" /\ serve \notin {"killed", "ended"}
      BY <2>0, <2>3, Zenon
    <3>2. Head(down).stmt \in Stmt
      BY Zenon, <1>h, <2>0, <2>3, Frames
    <3>3. Sealed(down, late) => Sealed(Tail(down), late) /\ Head(down).stmt \notin late
      BY Zenon, <1>0, <2>0, <2>3, <3>1, TailSealed
    <3>4. Head(down).stmt \notin late
      BY Zenon, <1>l, <3>1, <3>3
    <3> QED  BY Zenon, <1>i, <2>0, <2>3, <3>1, <3>2, <3>3, <3>4, CloseBegun
  <2> QED  BY Zenon, <1>9, <2>0, <2>1, <2>2, <2>3 DEF NextFrame
<1>10. CASE FrameMeanwhile
  <2>0. down # <<>> /\ serve \in {"exec", "replied"} /\ UNCHANGED <<closing, order, late>>
    BY Zenon, <1>10 DEF FrameMeanwhile
  <2>s. serve \notin {"killed", "ended"}
    BY Zenon, <2>0
  <2>1. CASE End
    BY Zenon, <1>e, <2>0, <2>1, CloseServed DEF End
  <2>2. CASE serve' = "killed" /\ UNCHANGED held
    BY Zenon, <1>l, <2>0, <2>2, CloseServed
  <2>3. CASE Head(down).kind # "close" /\ down' = Tail(down) /\ UNCHANGED <<serve, held>>
    <3>2. Sealed(down, late) => Sealed(down', late)
      BY Zenon, <1>0, <2>0, <2>3, TailSealed
    <3> QED  BY Zenon, <1>l, <2>0, <2>s, <2>3, <3>2, CloseServed
  <2>4. CASE /\ Head(down).kind = "query" /\ down' = Tail(down) /\ held' = <<Head(down).stmt>>
             /\ UNCHANGED serve
    <3>1. Head(down).kind # "close"
      BY <2>4, Zenon
    <3>2. Sealed(down, late) => Sealed(down', late) /\ Head(down).stmt \notin late
      BY Zenon, <1>0, <2>0, <2>4, <3>1, TailSealed
    <3>3. Head(down).stmt \notin late
      BY Zenon, <1>l, <2>s, <3>2
    <3>4. \A i \in DOMAIN held' : held'[i] = Head(down).stmt
      BY <2>4
    <3> QED  BY Zenon, <2>0, <2>s, <2>4, <3>2, <3>3, <3>4, CloseServed
  <2> QED  
    <3>1. Head(down).kind \in {"cancel", "query"} => Head(down).kind # "close"
      OBVIOUS
    <3> QED  BY Zenon, <1>10, <2>1, <2>2, <2>3, <2>4, <3>1 DEF FrameMeanwhile
<1>11. CASE Reply \/ ReplyError \/ Report \/ ProxyGone
  <2>1. /\ UNCHANGED <<closing, order, late>>
        /\ \/ End
           \/ serve \in {"exec", "replied"} /\ serve' \in {"replied", "idle"} /\ UNCHANGED <<down, held>>
    BY Zenon, <1>11 DEF Reply, ReplyError, Report, ProxyGone
  <2>2. CASE End
    BY Zenon, <1>e, <2>1, <2>2, CloseServed DEF End
  <2>3. CASE serve \in {"exec", "replied"} /\ serve' \in {"replied", "idle"} /\ UNCHANGED <<down, held>>
    <3>1. serve \notin {"killed", "ended"}
      BY Zenon, <2>3
    <3> QED  BY Zenon, <1>l, <2>1, <2>3, <3>1, CloseServed
  <2> QED  BY Zenon, <2>1, <2>2, <2>3
<1>12. CASE UNCHANGED vars
  <2>1. UNCHANGED <<down, serve, held, order, late, closing>>
    BY Zenon, <1>12 DEF vars
  <2> QED  BY Zenon, <2>1, CloseKept
<1> QED
  BY <1>1, <1>2, <1>3, <1>4, <1>5, <1>6, <1>7, <1>8, <1>9, <1>10, <1>11, <1>12, Zenon
     DEF Next, Run, Cancelling, Serving

\* A session starts with neither statements nor a close.
LEMMA BatchInit == Init => BatchInv /\ CloseInv
<1> SUFFICES ASSUME Init PROVE BatchInv /\ CloseInv
  OBVIOUS
<1>1. /\ order = <<>> /\ late = {} /\ held = <<>> /\ down = <<>> /\ closing = "no"
      /\ DOMAIN order = {} /\ DOMAIN held = {} /\ DOMAIN down = {}
  BY DEF Init
<1>2. \A t \in Task : pc[t] = "idle"
  BY Zenon DEF Init
<1>3. Turns
  BY Zenon, <1>1, <1>2 DEF Turns, Pending, Registered
<1>4. Reached /\ BatchUnbroken
  BY Zenon, <1>1 DEF Reached, BatchUnbroken
<1>5. Sealing /\ NothingAfterClose
  BY Zenon, <1>1 DEF Sealing, NothingAfterClose
<1> QED  BY <1>3, <1>4, <1>5, Zenon DEF BatchInv, CloseInv

\* The batches and the close fit together in every reachable state: what is yet to be begun belongs to
\* the task whose batch runBatchOnSession is executing, and EditorClose is ahead of what is sent after it.
THEOREM BatchInvariant == Spec => [](IInv /\ BatchInv /\ CloseInv)
<1>1. IInv /\ BatchInv /\ CloseInv /\ [Next]_vars => IInv' /\ BatchInv' /\ CloseInv'
  <2>1. IInv /\ [Next]_vars => IInv'
    BY TypeStep, HoldingStep, ExchangeStep, Zenon DEF IInv
  <2>2. IInv' => TypeOK'
    BY Zenon DEF IInv
  <2> QED  BY <2>1, <2>2, BatchStep, CloseStep, Zenon
<1>2. Init => IInv /\ BatchInv /\ CloseInv
  BY InvInit, BatchInit, Zenon
<1> QED  BY <1>1, <1>2, PTL DEF Spec

\* The mutex of runBatchOnSession keeps every batch in one piece on the target connection, although
\* timeouts, cancels and closeSession take no lock and leave statements in the stream.
THEOREM BatchesAreWhole == Spec => []BatchUnbroken
<1>1. IInv /\ BatchInv /\ CloseInv => BatchUnbroken
  BY Zenon DEF BatchInv
<1> QED  BY <1>1, BatchInvariant, PTL

\* No statement that was sent after closeSession's EditorClose is executed by the proxy's Serve, also
\* by a batch under way that does not look at openSessions again.
THEOREM CloseIsFinal == Spec => []NothingAfterClose
<1>1. IInv /\ BatchInv /\ CloseInv => NothingAfterClose
  BY Zenon DEF CloseInv
<1> QED  BY <1>1, BatchInvariant, PTL

=============================================================================
