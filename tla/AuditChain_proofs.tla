-------------------------- MODULE AuditChain_proofs --------------------------
(***************************************************************************)
(* Proofs about the audit chain, for any number of writers and any hash.   *)
(* The inductive invariant adds to the properties what a transaction that  *)
(* holds the head lock has built so far: its rows continue the committed   *)
(* ones without a gap, and nobody else has rows at all.                    *)
(***************************************************************************)
EXTENDS AuditChain, SequenceTheorems, TLAPS

\* A session without the lock has inserted nothing and is between statements.
Outside ==
  \A w \in Writer : lock # w => pending[w] = Empty /\ pc[w] \in {"idle", "open"}

\* The session with the lock is inside a transaction whose rows follow the committed ones.
Holding(w) ==
  /\ pc[w] # "idle"
  /\ head.id <= txHead[w].id
  /\ Last(w) <= MaxId
  /\ DOMAIN pending[w] = (head.id + 1)..Last(w)
  /\ Linked(pending[w], head.id + 1, Last(w), head.hash)
  /\ txHead[w].hash = EndHash(pending[w], head.id + 1, txHead[w].id, head.hash)
  /\ pc[w] = "inserted" => pending[w][NewId(w)] = NewRow(w)
Inside == \A w \in Writer : lock = w => Holding(w)

Reader ==
  /\ cursor <= head.id
  /\ DOMAIN delivered = 1..cursor
  /\ \A i \in 1..cursor : delivered[i] = rows[i]

IInv == TypeOK /\ ChainVerifies /\ Outside /\ Inside /\ Reader

USE NoneIsNoWriter, MaxIdNat

LEMMA InitIInv == Init => IInv
<1> SUFFICES ASSUME Init PROVE IInv
  OBVIOUS
<1> USE DEF Init
<1>1. TypeOK
  BY DigestClosed DEF TypeOK, Row, ChainHead, Empty
<1>2. ChainVerifies
  BY DEF ChainVerifies, Linked, EndHash, Empty
<1>3. Outside /\ Inside /\ Reader
  BY DEF Outside, Inside, Holding, Reader, Empty
<1> QED
  BY <1>1, <1>2, <1>3 DEF IInv

LEMMA NewRowType ==
  ASSUME IInv, NEW w \in Writer, NewId(w) <= MaxId
  PROVE  NewRow(w) \in Row /\ NewId(w) \in 1..MaxId
BY DigestClosed DEF IInv, TypeOK, NewRow, NewId, Row, ChainHead

\* h holds the linked rows 1..m of f followed by the linked rows m+1..n of g.
Joined(f, g, h, m, n, base, mid) ==
  /\ m \in Nat /\ n \in Nat /\ m <= n
  /\ \A i \in 1..m : h[i] = f[i]
  /\ \A i \in (m + 1)..n : h[i] = g[i]
  /\ Linked(f, 1, m, base) /\ mid = EndHash(f, 1, m, base)
  /\ Linked(g, m + 1, n, mid)

LEMMA LinkedJoin ==
  ASSUME NEW f, NEW g, NEW h, NEW m, NEW n, NEW base, NEW mid, Joined(f, g, h, m, n, base, mid)
  PROVE  Linked(h, 1, n, base) /\ EndHash(g, m + 1, n, mid) = EndHash(h, 1, n, base)
<1> USE DEF Joined
<1>1. \A i \in 1..m : Linked(h, i, i, h[i].prev) /\ h[i].prev = IF i = 1 THEN base ELSE h[i - 1].hash
  BY DEF Linked
<1>2. mid = IF m = 0 THEN base ELSE h[m].hash
  BY DEF EndHash
<1>3. \A i \in (m + 1)..n : Linked(h, i, i, h[i].prev) /\ h[i].prev = IF i = 1 THEN base ELSE h[i - 1].hash
  <2> SUFFICES ASSUME NEW i \in (m + 1)..n
               PROVE  /\ h[i].hash = RowHash(i, h[i].event, h[i].prev)
                      /\ h[i].prev = IF i = 1 THEN base ELSE h[i - 1].hash
    BY DEF Linked
  <2>1. h[i] = g[i] /\ g[i].hash = RowHash(i, g[i].event, g[i].prev)
        /\ g[i].prev = IF i = m + 1 THEN mid ELSE g[i - 1].hash
    BY DEF Linked
  <2>2. CASE i = m + 1
    BY <1>2, <2>1, <2>2
  <2>3. CASE i # m + 1
    BY <2>1, <2>3
  <2> QED BY <2>2, <2>3
<1>4. Linked(h, 1, n, base)
  BY <1>1, <1>3 DEF Linked
<1>5. EndHash(g, m + 1, n, mid) = EndHash(h, 1, n, base)
  BY <1>2 DEF EndHash
<1> QED BY <1>4, <1>5

\* h holds the linked rows m+1..n of g and one more that links to them.
Extended(g, h, m, n, base) ==
  /\ m \in Nat /\ n \in Nat /\ m <= n
  /\ \A i \in (m + 1)..n : h[i] = g[i]
  /\ Linked(g, m + 1, n, base)
  /\ h[n + 1].prev = EndHash(g, m + 1, n, base)
  /\ h[n + 1].hash = RowHash(n + 1, h[n + 1].event, h[n + 1].prev)

LEMMA LinkedExtend ==
  ASSUME NEW g, NEW h, NEW m, NEW n, NEW base, Extended(g, h, m, n, base)
  PROVE  Linked(h, m + 1, n + 1, base) /\ EndHash(h, m + 1, n, base) = EndHash(g, m + 1, n, base)
<1> USE DEF Extended
<1>1. EndHash(h, m + 1, n, base) = EndHash(g, m + 1, n, base)
  BY DEF EndHash
<1>2. \A i \in (m + 1)..n :
        /\ h[i].prev = IF i = m + 1 THEN base ELSE h[i - 1].hash
        /\ h[i].hash = RowHash(i, h[i].event, h[i].prev)
  BY DEF Linked
<1>3. h[n + 1].prev = IF n + 1 = m + 1 THEN base ELSE h[n].hash
  BY <1>1 DEF EndHash
<1>4. \A i \in (m + 1)..(n + 1) : i = n + 1 \/ i \in (m + 1)..n
  OBVIOUS
<1>5. Linked(h, m + 1, n + 1, base)
  BY <1>2, <1>3, <1>4 DEF Linked
<1> QED BY <1>1, <1>5

LEMMA RangeExtend ==
  ASSUME NEW m \in Nat, NEW n \in Nat, m <= n
  PROVE  ((m + 1)..n) \cup {n + 1} = (m + 1)..(n + 1)
OBVIOUS

LEMMA StepIInv == IInv /\ [Next]_vars => IInv'
<1> SUFFICES ASSUME IInv, [Next]_vars PROVE IInv'
  OBVIOUS
<1>1. ASSUME NEW w \in Writer, Begin(w) PROVE IInv'
  <2> USE <1>1 DEF IInv, Begin, readVars
  <2>1. TypeOK' /\ ChainVerifies' /\ Reader'
    BY DEF TypeOK, ChainVerifies, Linked, EndHash, Reader
  <2>2. Outside' /\ Inside'
    BY DEF TypeOK, Outside, Inside, Holding, Last, NewId, NewRow, Linked, EndHash
  <2> QED BY <2>1, <2>2
<1>2. ASSUME NEW w \in Writer, NEW e \in Event, LockHead(w, e) PROVE IInv'
  <2> USE <1>2 DEF IInv, LockHead, readVars
  <2>1. TypeOK' /\ ChainVerifies' /\ Reader'
    BY DEF TypeOK, ChainVerifies, Linked, EndHash, Reader
  <2>2. Outside'
    BY DEF TypeOK, Outside
  <2>3. CASE lock = w
    BY <2>1, <2>2, <2>3 DEF TypeOK, Inside, Holding, Last, NewId, NewRow, Linked, EndHash
  <2>4. CASE lock # w
    BY <2>1, <2>2, <2>4 DEF TypeOK, Outside, Inside, Holding, Last, NewId, NewRow, Linked, EndHash, ChainHead, Empty
  <2> QED BY <2>3, <2>4
<1>3. ASSUME NEW w \in Writer, InsertRow(w) PROVE IInv'
  <2> USE <1>3 DEF IInv, InsertRow, readVars
  <2>0. NewRow(w) \in Row /\ NewId(w) \in 1..MaxId
    BY NewRowType
  <2>1. ChainVerifies' /\ Reader'
    BY DEF ChainVerifies, Linked, EndHash, Reader
  <2>2. TypeOK'
    BY <2>0 DEF TypeOK
  <2>3. lock = w
    BY DEF Outside
  <2>4. Outside'
    BY <2>3 DEF TypeOK, Outside
  <2>5. Inside'
    <3>1. /\ Last(w) = txHead[w].id /\ Last(w)' = NewId(w)
          /\ NewId(w)' = NewId(w) /\ NewRow(w)' = NewRow(w)
          /\ pc'[w] = "inserted" /\ lock' = w
      BY <2>3 DEF TypeOK, Last, NewId, NewRow
    <3>2. /\ DOMAIN pending'[w] = DOMAIN pending[w] \cup {NewId(w)}
          /\ pending'[w][NewId(w)] = NewRow(w)
          /\ \A i \in DOMAIN pending[w] : i # NewId(w) => pending'[w][i] = pending[w][i]
      BY DEF TypeOK
    <3>3. /\ head.id \in Nat /\ txHead[w].id \in Nat /\ head.id <= txHead[w].id
          /\ NewId(w) = txHead[w].id + 1
          /\ DOMAIN pending[w] = (head.id + 1)..txHead[w].id
          /\ Linked(pending[w], head.id + 1, txHead[w].id, head.hash)
          /\ txHead[w].hash = EndHash(pending[w], head.id + 1, txHead[w].id, head.hash)
      BY <2>3, <3>1 DEF TypeOK, Inside, Holding, NewId, ChainHead
    <3>4. DOMAIN pending'[w] = (head.id + 1)..NewId(w)
      <4> HIDE <1>3 DEF IInv, InsertRow
      <4> QED BY <3>2, <3>3, RangeExtend
    <3>5. /\ Linked(pending'[w], head.id + 1, NewId(w), head.hash)
          /\ txHead[w].hash = EndHash(pending'[w], head.id + 1, txHead[w].id, head.hash)
      <4> HIDE <1>3 DEF IInv, InsertRow
      <4>1. Extended(pending[w], pending'[w], head.id, txHead[w].id, head.hash)
        BY <3>2, <3>3 DEF Extended, NewRow
      <4> QED BY <4>1, <3>3, LinkedExtend
    <3>6. Holding(w)'
      <4>1. head' = head /\ txHead' = txHead
        OBVIOUS
      <4> HIDE <1>3 DEF IInv, InsertRow
      <4>2. pc'[w] # "idle" /\ head'.id <= txHead'[w].id /\ Last(w)' <= MaxId
        BY <2>0, <3>1, <3>3, <4>1
      <4>3. DOMAIN pending'[w] = (head'.id + 1)..Last(w)'
        BY <3>1, <3>4, <4>1
      <4>4. /\ Linked(pending'[w], head'.id + 1, Last(w)', head'.hash)
            /\ txHead'[w].hash = EndHash(pending'[w], head'.id + 1, txHead'[w].id, head'.hash)
        BY Zenon, <3>1, <3>5, <4>1
      <4>5. pending'[w][NewId(w)'] = NewRow(w)'
        BY Zenon, <3>1, <3>2
      <4> QED BY Zenon, <4>2, <4>3, <4>4, <4>5 DEF Holding
    <3> QED
      BY <3>1, <3>6 DEF Inside
  <2> QED BY <2>1, <2>2, <2>4, <2>5
<1>4. ASSUME NEW w \in Writer, AdvanceHead(w) PROVE IInv'
  <2> USE <1>4 DEF IInv, AdvanceHead, readVars
  <2>1. ChainVerifies' /\ Reader'
    BY DEF ChainVerifies, Linked, EndHash, Reader
  <2>2. lock = w
    BY DEF Outside
  <2>3. NewId(w) \in 1..MaxId /\ NewRow(w) \in Row
    BY <2>2, NewRowType DEF Inside, Holding, Last
  <2>4. TypeOK'
    BY <2>3 DEF TypeOK, ChainHead, Row
  <2>5. Outside'
    BY <2>2 DEF TypeOK, Outside
  <2>6. Inside'
    BY <2>2, <2>3 DEF TypeOK, Inside, Holding, Last, NewId, NewRow, Linked, EndHash, ChainHead
  <2> QED BY <2>1, <2>4, <2>5, <2>6
<1>5. ASSUME NEW w \in Writer, Commit(w) PROVE IInv'
  <2> USE <1>5 DEF IInv, Commit, readVars
  <2>1. CASE lock # w
    <3>1. rows' = rows /\ head' = head /\ lock' = lock
      BY <2>1 DEF Outside, Empty, TypeOK, ChainVerifies
    <3>2. TypeOK' /\ ChainVerifies' /\ Reader'
      BY ZenonT(60), <3>1 DEF TypeOK, ChainVerifies, Linked, EndHash, Reader, Empty
    <3>3. Outside'
      BY <2>1, <3>1 DEF TypeOK, Outside
    <3>4. Inside'
      BY <2>1, <3>1 DEF TypeOK, Inside, Holding, Last, NewId, NewRow, Linked, EndHash
    <3> QED BY <3>2, <3>3, <3>4
  <2>2. CASE lock = w
    <3>1. DOMAIN pending[w] = (head.id + 1)..txHead[w].id
      BY <2>2 DEF Inside, Holding, Last
    <3>2. TypeOK'
      BY <2>2 DEF TypeOK, Empty
    <3>3. ChainVerifies'
      <4>1. head.id \in Nat /\ txHead[w].id \in Nat /\ head.id <= txHead[w].id /\ head' = txHead[w]
        BY <2>2 DEF TypeOK, Inside, Holding, ChainHead
      <4>2. DOMAIN rows' = 1..head'.id
        BY <3>1, <4>1 DEF ChainVerifies
      <4>3. \A i \in 1..head.id : rows'[i] = rows[i]
        BY <3>1, <4>1 DEF ChainVerifies
      <4>4. \A i \in (head.id + 1)..head'.id : rows'[i] = pending[w][i]
        BY <3>1, <4>1 DEF ChainVerifies
      <4>5. Linked(rows, 1, head.id, Genesis) /\ head.hash = EndHash(rows, 1, head.id, Genesis)
        BY DEF ChainVerifies
      <4>6. /\ Linked(pending[w], head.id + 1, head'.id, head.hash)
            /\ head'.hash = EndHash(pending[w], head.id + 1, head'.id, head.hash)
        BY <2>2, <4>1 DEF Inside, Holding, Last
      <4>7. /\ Linked(rows', 1, head'.id, Genesis)
            /\ head'.hash = EndHash(rows', 1, head'.id, Genesis)
        <5> HIDE <1>5, <2>2 DEF IInv, Commit
        <5>1. head.id \in Nat /\ head'.id \in Nat /\ head.id <= head'.id
          BY <4>1
        <5>2. Joined(rows, pending[w], rows', head.id, head'.id, Genesis, head.hash)
          BY <5>1, <4>3, <4>4, <4>5, <4>6 DEF Joined
        <5>3. /\ Linked(rows', 1, head'.id, Genesis)
              /\ EndHash(pending[w], head.id + 1, head'.id, head.hash) = EndHash(rows', 1, head'.id, Genesis)
          BY <5>2, LinkedJoin
        <5> QED BY <5>3, <4>6
      <4> QED BY <4>2, <4>7 DEF ChainVerifies
    <3>4. Reader'
      BY <2>2, <3>1 DEF TypeOK, Reader, ChainVerifies, Inside, Holding, ChainHead
    <3>5. Outside' /\ Inside'
      BY <2>2 DEF TypeOK, Outside, Inside, Holding
    <3> QED BY <3>2, <3>3, <3>4, <3>5
  <2> QED BY <2>1, <2>2
<1>6. ASSUME NEW w \in Writer, Rollback(w) PROVE IInv'
  <2> USE <1>6 DEF IInv, Rollback, readVars
  <2>1. TypeOK' /\ ChainVerifies' /\ Reader'
    BY DEF TypeOK, ChainVerifies, Linked, EndHash, Reader, Empty
  <2>2. Outside'
    BY DEF TypeOK, Outside
  <2>3. Inside'
    BY DEF TypeOK, Outside, Inside, Holding, Last, NewId, NewRow, Linked, EndHash
  <2> QED BY <2>1, <2>2, <2>3
<1>7. ASSUME NEW last \in 1..MaxId, TailEvents(last) PROVE IInv'
  <2> USE <1>7 DEF IInv, TailEvents
  <2>1. TypeOK' /\ ChainVerifies'
    BY DEF TypeOK, ChainVerifies, Linked, EndHash
  <2>2. Outside' /\ Inside'
    BY DEF Outside, Inside, Holding, Last, NewId, NewRow, Linked, EndHash
  <2>3. Reader'
    BY DEF TypeOK, ChainVerifies, Reader, ChainHead
  <2> QED BY <2>1, <2>2, <2>3
<1>8. CASE UNCHANGED vars
  BY <1>8 DEF vars, IInv, TypeOK, ChainVerifies, Outside, Inside, Holding, Reader, Last, NewId, NewRow, Linked, EndHash
<1> QED
  BY <1>1, <1>2, <1>3, <1>4, <1>5, <1>6, <1>7, <1>8 DEF Next, Session

THEOREM InductiveInvariant == Spec => []IInv
BY InitIInv, StepIInv, PTL DEF Spec

\* The committed trail always verifies from genesis, whatever AuditStore.insert and audit.Insert
\* transactions interleave, commit and fail.
THEOREM TrailVerifies == Spec => []ChainVerifies
<1>1. IInv => ChainVerifies
  BY DEF IInv
<1> QED BY <1>1, InductiveInvariant, PTL

\* Every variable keeps its type.
THEOREM TypeCorrect == Spec => []TypeOK
<1>1. IInv => TypeOK
  BY DEF IInv
<1> QED BY <1>1, InductiveInvariant, PTL

\* auditmon's paging reader is given every row at or below its cursor, in its final version.
THEOREM ReaderComplete == Spec => []ReaderMissesNothing
<1>1. IInv => ReaderMissesNothing
  BY DEF IInv, ReaderMissesNothing, ChainVerifies, Reader, TypeOK, ChainHead
<1> QED BY <1>1, InductiveInvariant, PTL

-----------------------------------------------------------------------------
(* The trail implements the append-only log of AuditLog.                   *)

Trail == [i \in 1..head.id |-> rows[i].event]
Open == {w \in Writer : pc[w] # "idle"}
IssuedBy(w) ==
  IF lock = w THEN [k \in 1..(Last(w) - head.id) |-> pending[w][head.id + k].event] ELSE <<>>
Issued == [w \in Writer |-> IssuedBy(w)]

LEMMA SeqAppend ==
  ASSUME NEW S, NEW n \in Nat, NEW f \in [1..n -> S], NEW g \in [1..(n + 1) -> S],
         \A k \in 1..n : g[k] = f[k]
  PROVE  g = Append(f, g[n + 1])
<1>1. f \in Seq(S) /\ Len(f) = n
  OBVIOUS
<1>2. Append(f, g[n + 1]) \in Seq(S) /\ Len(Append(f, g[n + 1])) = n + 1
  BY <1>1
<1>3. \A k \in 1..(n + 1) : g[k] = Append(f, g[n + 1])[k]
  BY <1>1
<1> QED BY <1>2, <1>3

Concatenated(S, m, n, f, g, h) ==
  /\ m \in Nat /\ n \in Nat
  /\ f \in [1..m -> S] /\ g \in [1..n -> S] /\ h \in [1..(m + n) -> S]
  /\ \A k \in 1..m : h[k] = f[k]
  /\ \A k \in 1..n : h[m + k] = g[k]

LEMMA SeqConcat ==
  ASSUME NEW S, NEW m, NEW n, NEW f, NEW g, NEW h, Concatenated(S, m, n, f, g, h)
  PROVE  h = f \o g
<1> USE DEF Concatenated
<1>1. f \in Seq(S) /\ Len(f) = m /\ g \in Seq(S) /\ Len(g) = n /\ h \in Seq(S) /\ Len(h) = m + n
  OBVIOUS
<1>2. /\ f \o g \in Seq(S) /\ Len(f \o g) = m + n
      /\ \A k \in 1..(m + n) : (f \o g)[k] = IF k <= m THEN f[k] ELSE g[k - m]
  BY <1>1, ConcatProperties
<1>3. \A k \in 1..(m + n) : h[k] = IF k <= m THEN f[k] ELSE g[k - m]
  <2> SUFFICES ASSUME NEW k \in 1..(m + n) PROVE h[k] = IF k <= m THEN f[k] ELSE g[k - m]
    OBVIOUS
  <2>1. CASE k <= m
    BY <2>1
  <2>2. CASE ~(k <= m)
    <3>1. k - m \in 1..n /\ k = m + (k - m)
      BY <2>2
    <3>2. h[m + (k - m)] = g[k - m]
      BY <3>1
    <3> QED BY <2>2, <3>1, <3>2
  <2> QED BY <2>1, <2>2
<1>4. \A k \in 1..Len(h) : h[k] = (f \o g)[k]
  BY <1>1, <1>2, <1>3
<1> QED BY ZenonT(60), <1>1, <1>2, <1>4, SeqEqual

LEMMA TrailTypes ==
  ASSUME IInv
  PROVE  Trail \in Seq(Event) /\ \A w \in Writer : IssuedBy(w) \in Seq(Event)
<1>1. head.id \in Nat
  BY DEF IInv, TypeOK, ChainHead
<1>2. \A i \in 1..head.id : rows[i].event \in Event
  BY DEF IInv, TypeOK, ChainVerifies, Row
<1>3. Trail \in [1..head.id -> Event]
  BY <1>2 DEF Trail
<1>4. ASSUME NEW w \in Writer PROVE IssuedBy(w) \in Seq(Event)
  <2>1. CASE lock # w
    BY <2>1 DEF IssuedBy
  <2>2. CASE lock = w
    <3>1. Last(w) - head.id \in Nat
      BY <2>2, <1>1 DEF IInv, TypeOK, ChainHead, Inside, Holding, Last, NewId
    <3>2. \A k \in 1..(Last(w) - head.id) : head.id + k \in DOMAIN pending[w]
      BY <2>2, <1>1, <3>1 DEF IInv, TypeOK, ChainHead, Inside, Holding, Last, NewId
    <3>3. \A i \in DOMAIN pending[w] : pending[w][i].event \in Event
      BY DEF IInv, TypeOK, Row
    <3>4. IssuedBy(w) \in [1..(Last(w) - head.id) -> Event]
      BY <2>2, <3>2, <3>3 DEF IssuedBy
    <3> QED BY <3>1, <3>4
  <2> QED BY <2>1, <2>2
<1> QED BY <1>1, <1>3, <1>4

\* The committed rows and the open transactions do not change.
LEMMA SameView ==
  ASSUME IInv, head' = head, rows' = rows, lock' = lock, pending' = pending,
         \A w \in Writer : lock = w => Last(w)' = Last(w)
  PROVE  Trail' = Trail /\ Issued' = Issued
BY ZenonT(60) DEF Trail, Issued, IssuedBy

LEMMA RefineInit == Init => Log!Init
<1> SUFFICES ASSUME Init PROVE Log!Init
  OBVIOUS
<1>1. Trail = <<>> /\ Open = {} /\ Issued = [w \in Writer |-> <<>>]
  BY DEF Init, Trail, Open, Issued, IssuedBy
<1> QED BY <1>1 DEF Log!Init, Trail, Open, Issued, IssuedBy

LEMMA RefineStep == IInv /\ IInv' /\ [Next]_vars => [Log!Next]_(Log!vars)
<1> SUFFICES ASSUME IInv, IInv', [Next]_vars
             PROVE  \/ UNCHANGED <<Trail, Open, Issued>>
                    \/ \E w \in Writer :
                         \/ w \notin Open /\ Open' = Open \cup {w} /\ Trail' = Trail /\ Issued' = Issued
                         \/ \E e \in Event : /\ w \in Open /\ Open' = Open /\ Trail' = Trail
                                             /\ Issued' = [Issued EXCEPT ![w] = Append(@, e)]
                         \/ /\ w \in Open /\ Open' = Open \ {w} /\ Trail' = Trail \o Issued[w]
                            /\ Issued' = [Issued EXCEPT ![w] = <<>>]
                         \/ /\ w \in Open /\ Open' = Open \ {w} /\ Trail' = Trail
                            /\ Issued' = [Issued EXCEPT ![w] = <<>>]
  BY ZenonT(60) DEF Log!Next, Log!vars, Log!Begin, Log!Issue, Log!Commit, Log!Rollback, Trail, Open, Issued, IssuedBy
<1>0. TypeOK /\ TypeOK'
  BY DEF IInv
<1>e. /\ head.id \in Nat /\ \A v \in Writer : txHead[v].id \in Nat
      /\ \A i \in DOMAIN rows : rows[i].event \in Event
      /\ \A v \in Writer : \A i \in DOMAIN pending[v] : pending[v][i].event \in Event
  <2>1. TypeOK
    BY <1>0
  <2> QED BY <2>1 DEF TypeOK, Row, ChainHead
<1>e1. \A i \in DOMAIN rows' : rows'[i].event \in Event
  <2>1. TypeOK'
    BY <1>0
  <2> QED BY <2>1 DEF TypeOK, Row
<1>c. DOMAIN rows = 1..head.id /\ DOMAIN rows' = 1..head'.id
  BY DEF IInv, ChainVerifies
<1>i. \A v \in Writer : lock = v => /\ head.id <= txHead[v].id
                                 /\ DOMAIN pending[v] = (head.id + 1)..Last(v)
  BY DEF IInv, Inside, Holding
<1>1. ASSUME NEW w \in Writer, Begin(w)
      PROVE  w \notin Open /\ Open' = Open \cup {w} /\ Trail' = Trail /\ Issued' = Issued
  <2>1. lock # w
    BY <1>1 DEF Begin, IInv, Inside, Holding
  <2>2. Trail' = Trail /\ Issued' = Issued
    BY <1>0, <1>1, <2>1, SameView DEF Begin, Last, NewId, TypeOK
  <2> QED BY <1>0, <1>1, <2>2 DEF Begin, Open, TypeOK
<1>2. ASSUME NEW w \in Writer, NEW e \in Event, LockHead(w, e) PROVE UNCHANGED <<Trail, Open, Issued>>
  <2>1. UNCHANGED <<Trail, Open>>
    BY <1>0, <1>2 DEF LockHead, Trail, Open, TypeOK
  <2>2. ASSUME NEW v \in Writer PROVE IssuedBy(v)' = IssuedBy(v)
    <3>1. CASE v # w
      BY <1>0, <1>2, <3>1 DEF LockHead, IssuedBy
    <3>2. CASE v = w /\ lock = w
      BY <1>0, <1>2, <3>2 DEF LockHead, IssuedBy, Last, NewId, TypeOK
    <3>3. CASE v = w /\ lock # w
      <4>1. Last(w)' = head.id /\ head' = head /\ lock' = w /\ head.id \in Nat
        BY <1>0, <1>2, <3>3 DEF LockHead, Last, TypeOK, ChainHead
      <4> QED BY <1>0, <1>2, <3>3, <4>1 DEF IssuedBy
    <3> QED BY <3>1, <3>2, <3>3
  <2> QED BY <2>1, <2>2 DEF Issued
<1>3. ASSUME NEW w \in Writer, InsertRow(w)
      PROVE  /\ w \in Open /\ Open' = Open /\ Trail' = Trail
             /\ \E e \in Event : Issued' = [Issued EXCEPT ![w] = Append(@, e)]
  <2>1. w \in Open /\ Open' = Open /\ Trail' = Trail
    BY <1>0, <1>3 DEF InsertRow, Trail, Open, TypeOK
  <2>2. lock = w /\ event[w] \in Event
    BY <1>0, <1>3 DEF InsertRow, IInv, Outside, TypeOK
  <2>3. ASSUME NEW v \in Writer, v # w PROVE IssuedBy(v)' = IssuedBy(v)
    BY <1>3, <2>2, <2>3 DEF InsertRow, IssuedBy
  <2>4. IssuedBy(w)' = Append(IssuedBy(w), event[w])
    <3>1. /\ head' = head /\ lock' = lock
          /\ head.id \in Nat /\ txHead[w].id \in Nat /\ head.id <= txHead[w].id
          /\ Last(w) = txHead[w].id /\ Last(w)' = txHead[w].id + 1
          /\ DOMAIN pending[w] = (head.id + 1)..txHead[w].id
      <4>1. head' = head /\ lock' = lock /\ txHead' = txHead /\ pc[w] = "read" /\ pc'[w] = "inserted"
        BY <1>0, <1>3 DEF InsertRow, TypeOK
      <4>2. Last(w) = txHead[w].id /\ Last(w)' = txHead[w].id + 1
        BY Zenon, <4>1 DEF Last, NewId
      <4> QED BY <1>e, <1>i, <2>2, <4>1, <4>2
    <3>2. /\ pending'[w][txHead[w].id + 1].event = event[w]
          /\ \A i \in DOMAIN pending[w] : pending'[w][i] = pending[w][i]
      BY <1>0, <1>3, <3>1 DEF InsertRow, TypeOK, NewRow, NewId
    <3> DEFINE n == txHead[w].id - head.id
               f == [k \in 1..n |-> pending[w][head.id + k].event]
               g == [k \in 1..(n + 1) |-> pending'[w][head.id + k].event]
    <3>3. n \in Nat
      BY <3>1
    <3>4. IssuedBy(w) = f /\ IssuedBy(w)' = g
      BY <2>2, <3>1 DEF IssuedBy
    <3>5. \A k \in 1..n : pending[w][head.id + k].event \in Event /\ g[k] = f[k]
      <4>1. \A k \in 1..n : head.id + k \in DOMAIN pending[w] /\ k \in 1..(n + 1)
        <5>1. DOMAIN pending[w] = (head.id + 1)..(head.id + n) /\ head.id \in Nat
          BY <3>1
        <5> HIDE DEF n, f, g
        <5> QED BY <3>3, <5>1
      <4>2. \A i \in DOMAIN pending[w] : pending[w][i].event \in Event
        BY Zenon, <1>e
      <4> QED BY <3>2, <4>1, <4>2
    <3>6. g[n + 1] = event[w]
      <4>1. n + 1 \in 1..(n + 1) /\ head.id + (n + 1) = txHead[w].id + 1
        BY <3>1
      <4>2. g[n + 1] = pending'[w][head.id + (n + 1)].event
        BY <4>1
      <4> QED BY <3>2, <4>1, <4>2
    <3>7. f \in [1..n -> Event]
      BY ZenonT(60), <3>5
    <3>8. g \in [1..(n + 1) -> Event]
      <4>1. \A k \in 1..(n + 1) : k = n + 1 \/ k \in 1..n
        BY <3>3
      <4>2. \A k \in 1..(n + 1) : g[k] \in Event
        BY ZenonT(60), <4>1, <3>5, <3>6, <3>7, <2>2
      <4> QED BY <4>2
    <3> HIDE DEF n, f, g
    <3>9. \A k \in 1..n : g[k] = f[k]
      BY Zenon, <3>5
    <3>10. g = Append(f, g[n + 1])
      BY <3>3, <3>7, <3>8, <3>9, SeqAppend
    <3> QED BY Zenon, <3>4, <3>6, <3>10
  <2> QED BY ZenonT(60), <2>1, <2>2, <2>3, <2>4 DEF Issued
<1>4. ASSUME NEW w \in Writer, AdvanceHead(w) PROVE UNCHANGED <<Trail, Open, Issued>>
  <2>1. Open' = Open
    BY <1>0, <1>4 DEF AdvanceHead, Open, TypeOK
  <2>2. \A v \in Writer : Last(v)' = Last(v)
    BY <1>0, <1>4 DEF AdvanceHead, Last, NewId, TypeOK
  <2> QED BY <1>4, <2>1, <2>2, SameView DEF AdvanceHead
<1>5. ASSUME NEW w \in Writer, Commit(w)
      PROVE  /\ w \in Open /\ Open' = Open \ {w} /\ Trail' = Trail \o Issued[w]
             /\ Issued' = [Issued EXCEPT ![w] = <<>>]
  <2>1. w \in Open /\ Open' = Open \ {w}
    BY <1>0, <1>5 DEF Commit, Open, TypeOK
  <2>2. head.id \in Nat
    BY <1>0 DEF TypeOK, ChainHead
  <2>3. IssuedBy(w)' = <<>>
    BY <1>5 DEF Commit, IssuedBy, TypeOK
  <2>4. CASE lock = w
    <3>1. \A v \in Writer : v # w => IssuedBy(v) = <<>> /\ IssuedBy(v)' = <<>>
      BY <1>5, <2>4 DEF Commit, IssuedBy
    <3>2. Issued' = [Issued EXCEPT ![w] = <<>>]
      <4>1. \A v \in Writer : IssuedBy(v)' = IF v = w THEN <<>> ELSE IssuedBy(v)
        BY Zenon, <2>3, <3>1
      <4> QED BY Zenon, <4>1 DEF Issued
    <3> DEFINE m == head.id
               n == txHead[w].id - head.id
    <3>3. /\ m \in Nat /\ n \in Nat /\ head'.id = m + n
          /\ DOMAIN pending[w] = (m + 1)..(m + n)
          /\ Last(w) - head.id = n
      <4>1. head' = txHead[w] /\ Last(w) = txHead[w].id
        BY <1>5, <2>4 DEF Commit, Last
      <4> QED BY <1>e, <1>i, <2>4, <4>1
    <3>4. /\ \A i \in 1..m : rows'[i] = rows[i]
          /\ \A k \in 1..n : rows'[m + k] = pending[w][m + k]
      <4>1. rows' = [i \in DOMAIN rows \cup DOMAIN pending[w] |->
                       IF i \in DOMAIN pending[w] THEN pending[w][i] ELSE rows[i]]
        BY <1>5 DEF Commit
      <4>2. \A i \in 1..m : i \in DOMAIN rows /\ i \notin DOMAIN pending[w]
        BY <1>c, <3>3
      <4>3. \A k \in 1..n : m + k \in DOMAIN pending[w]
        BY <3>3
      <4> HIDE DEF m, n
      <4> QED BY Zenon, <4>1, <4>2, <4>3
    <3>5. /\ Trail = [i \in 1..m |-> rows[i].event]
          /\ Trail' = [i \in 1..(m + n) |-> rows'[i].event]
          /\ IssuedBy(w) = [k \in 1..n |-> pending[w][m + k].event]
      BY <2>4, <3>3 DEF Trail, IssuedBy
    <3>6. /\ \A i \in 1..m : rows[i].event \in Event
          /\ \A i \in 1..(m + n) : rows'[i].event \in Event
      BY Zenon, <1>c, <1>e, <1>e1, <3>3
    <3>7. \A k \in 1..n : pending[w][m + k].event \in Event
      <4>1. \A k \in 1..n : m + k \in DOMAIN pending[w]
        BY <3>3
      <4> QED BY <1>e, <4>1
    <3>8. /\ Trail \in [1..m -> Event] /\ Trail' \in [1..(m + n) -> Event]
          /\ IssuedBy(w) \in [1..n -> Event]
      <4>1. Trail \in [1..m -> Event]
        BY Zenon, <3>5, <3>6
      <4>2. Trail' \in [1..(m + n) -> Event]
        BY Zenon, <3>5, <3>6
      <4>3. IssuedBy(w) \in [1..n -> Event]
        BY Zenon, <3>5, <3>7
      <4> QED BY Zenon, <4>1, <4>2, <4>3
    <3>9. /\ \A k \in 1..m : Trail'[k] = Trail[k]
          /\ \A k \in 1..n : Trail'[m + k] = IssuedBy(w)[k]
      <4>1. m \in Nat /\ n \in Nat
        BY <3>3
      <4> HIDE DEF m, n
      <4>2. (\A k \in 1..m : k \in 1..(m + n)) /\ \A k \in 1..n : m + k \in 1..(m + n)
        BY <4>1
      <4> QED BY Zenon, <3>4, <3>5, <4>2
    <3>10. Trail' = Trail \o IssuedBy(w)
      <4>1. Concatenated(Event, m, n, Trail, IssuedBy(w), Trail')
        BY ZenonT(60), <3>3, <3>8, <3>9 DEF Concatenated
      <4> QED BY <4>1, SeqConcat
    <3> QED BY <2>1, <3>2, <3>10 DEF Issued
  <2>5. CASE lock # w
    <3>1. pending[w] = Empty /\ IssuedBy(w) = <<>>
      BY <2>5 DEF IInv, Outside, IssuedBy
    <3>2. rows' = rows /\ head' = head /\ lock' = lock
      BY <1>0, <1>5, <2>5, <3>1 DEF Commit, TypeOK, Empty
    <3>3. ASSUME NEW v \in Writer PROVE IssuedBy(v)' = IssuedBy(v)
      <4>1. CASE v = w
        BY <2>3, <3>1, <4>1
      <4>2. CASE v # w
        <5>1. pc'[v] = pc[v] /\ pending'[v] = pending[v] /\ txHead' = txHead
          BY <1>0, <1>5, <4>2 DEF Commit, TypeOK
        <5> QED BY Zenon, <3>2, <5>1 DEF IssuedBy, Last, NewId
      <4> QED BY <4>1, <4>2
    <3>4. Trail' = Trail /\ Trail \in Seq(Event)
      BY <3>2, TrailTypes DEF Trail
    <3>5. Trail \o Issued[w] = Trail
      BY <3>1, <3>4, ConcatEmptySeq DEF Issued
    <3>6. Issued' = [Issued EXCEPT ![w] = <<>>]
      BY <3>1, <3>3 DEF Issued
    <3> QED BY <2>1, <3>4, <3>5, <3>6
  <2> QED BY <2>4, <2>5
<1>6. ASSUME NEW w \in Writer, Rollback(w)
      PROVE  /\ w \in Open /\ Open' = Open \ {w} /\ Trail' = Trail
             /\ Issued' = [Issued EXCEPT ![w] = <<>>]
  <2>1. w \in Open /\ Open' = Open \ {w} /\ Trail' = Trail
    BY <1>0, <1>6 DEF Rollback, Open, Trail, TypeOK
  <2>2. IssuedBy(w)' = <<>>
    BY <1>0, <1>6 DEF Rollback, IssuedBy, TypeOK
  <2>3. ASSUME NEW v \in Writer, v # w PROVE IssuedBy(v)' = IssuedBy(v)
    BY <1>0, <1>6, <2>3 DEF Rollback, IssuedBy, Last, NewId, TypeOK
  <2> QED BY ZenonT(60), <2>1, <2>2, <2>3 DEF Issued
<1>7. ASSUME NEW last \in 1..MaxId, TailEvents(last) PROVE UNCHANGED <<Trail, Open, Issued>>
  <2>1. UNCHANGED <<rows, head, lock, pc, txHead, pending>>
    BY <1>7 DEF TailEvents
  <2>2. \A v \in Writer : IssuedBy(v)' = IssuedBy(v)
    BY Zenon, <2>1 DEF IssuedBy, Last, NewId
  <2>3. Trail' = Trail /\ Open' = Open
    BY Zenon, <2>1 DEF Trail, Open
  <2> QED BY Zenon, <2>2, <2>3 DEF Issued
<1>8. CASE UNCHANGED vars
  BY <1>8 DEF vars, Trail, Open, Issued, IssuedBy, Last, NewId
<1> QED
  BY <1>1, <1>2, <1>3, <1>4, <1>5, <1>6, <1>7, <1>8 DEF Next, Session

\* The audit_event table, as its writers build it row by row under the head lock, is an
\* append-only log of whole transactions in commit order.
THEOREM ImplementsLog == Spec => AppendOnlyLog
BY InductiveInvariant, RefineInit, RefineStep, PTL DEF Spec, AppendOnlyLog, Log!Spec
=============================================================================
