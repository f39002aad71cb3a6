-------------------------- MODULE AuditMonitor_proofs --------------------------
(***************************************************************************)
(* The audit monitor signs and ships only what the control plane wrote,    *)
(* ships a row before an anchor covers it, and keeps the anchors it has    *)
(* written: for any number of rows, page size and out-of-band changes.     *)
(***************************************************************************)
EXTENDS AuditMonitor, WellFoundedInduction, TLAPS

-----------------------------------------------------------------------------
\* The inductive invariant.

Label == {"idle", "baseline", "pin", "page", "export", "getCheckpoint", "putCheckpoint", "getFinal",
          "putFinal", "witness", "full", "diagnosed", "rechecked"}
Hash == Seq(Nat \X Content)
Shipment == [id : 1..MaxRows, c : Content, hash : Hash]
Locals == [cmd : {"none", "poll", "sign", "resume"}, id : 0..MaxRows, hash : Hash, present : BOOLEAN,
           target : 0..MaxRows, batch : SUBSET Shipment]

\* What the variables of the walks hold.
Shape ==
  /\ Ids \subseteq 1..MaxRows
  /\ rows \in [Ids -> [c : Content, prev : Hash, hash : Hash]]
  /\ chainHead \in [id : 0..MaxRows, hash : Hash]
  /\ anchors \in [Signed -> Hash] /\ Signed \subseteq 0..MaxRows
  /\ exported \subseteq Shipment
  /\ pc \in [Proc -> Label] /\ walk \in [Proc -> Locals] /\ exp \in [Proc -> Nat]
  /\ changes \in Seq({"edit", "delete", "restore"})

\* A row as the control plane wrote it.
Sound(e) == e.hash \in genuine /\ e.hash[Len(e.hash)] = <<e.id, e.c>>

\* Every hash the table, the walks and the anchors hold was written by the control plane.
Written ==
  /\ Genesis \in genuine /\ chainHead.hash \in genuine
  /\ \A i \in Ids : rows[i].hash \in genuine
  /\ \A p \in Proc : walk[p].hash \in genuine /\ \A e \in walk[p].batch : Sound(e)
  /\ \A a \in Signed : anchors[a] \in genuine
  /\ \A e \in exported : Sound(e)

\* The history up to row i.
Prefix(i) == SubSeq(chainHead.hash, 1, i)

\* Row i is shipped as the head of the chain has it.
Shipped(i) == \E e \in exported : e.id = i /\ e.hash = Prefix(i)
Covered(n) == \A i \in 1..n : Shipped(i)

NoRestore == "restore" \notin Range(changes)

\* Without a restore there is one history, ...
OneHistory ==
  /\ Len(chainHead.hash) = chainHead.id
  /\ \A i \in Ids : i <= chainHead.id /\ rows[i].hash = Prefix(i) /\ rows[i].prev = Prefix(i - 1)
  /\ \A p \in Proc : /\ walk[p].id <= chainHead.id /\ walk[p].hash = Prefix(walk[p].id)
                     /\ \A e \in walk[p].batch : e.id <= chainHead.id /\ e.hash = Prefix(e.id)
  /\ \A a \in Signed : a <= chainHead.id /\ anchors[a] = Prefix(a)

\* ... and it is shipped up to each watermark, each anchor and each verified head.
Marked == \A p \in Proc : exp[p] <= chainHead.id /\ Covered(exp[p])
Anchored == \A a \in Signed : Covered(a)
Walked ==
  \A p \in Proc : \A i \in 1..walk[p].id :
    Shipped(i) \/ (pc[p] = "export" /\ \E e \in walk[p].batch : e.id = i)
Paged == \A p \in Proc : pc[p] = "export" => \A e \in walk[p].batch : e.id <= walk[p].id
Coverage == Marked /\ Anchored /\ Walked /\ Paged

\* Only accept-break writes beside the daemon.
Single ==
  accepted = {} =>
    /\ pc[Op] \in {"idle", "diagnosed", "rechecked"}
    /\ pc[Daemon] \in {"putCheckpoint", "putFinal"} /\ walk[Daemon].id \in Signed =>
         anchors[walk[Daemon].id] = walk[Daemon].hash

-----------------------------------------------------------------------------
\* Least and greatest elements.

\* The least of some numbers.
LEMMA LeastOf ==
  ASSUME NEW S, S \subseteq Nat, S # {}
  PROVE  Min(S) \in S /\ \A y \in S : Min(S) <= y
<1> DEFINE R == OpToRel(<, Nat)
<1>1. IsWellFoundedOn(R, Nat)
  BY Zenon, NatLessThanWellFounded
<1>2. \A x \in Nat, y \in Nat : y < x => <<y, x>> \in R
  BY Zenon DEF OpToRel
<1> HIDE DEF R
<1>3. PICK x \in S : \A y \in S : ~(<<y, x>> \in R)
  BY Zenon, <1>1, WFMin
<1>4. ASSUME NEW y \in S PROVE x <= y
  <2>1. x \in Nat /\ y \in Nat /\ ~(y < x)
    BY Zenon, <1>2, <1>3
  <2> QED  BY <2>1
<1> QED  BY Zenon, <1>4 DEF Min

\* The greatest of some numbers up to n.
LEMMA GreatestOf ==
  ASSUME NEW n \in Nat, NEW S, S \subseteq 0..n, S # {}
  PROVE  Max(S) \in S /\ \A y \in S : y <= Max(S)
<1> DEFINE T == {k \in 0..n : n - k \in S}
<1>0. \A y \in 0..n : n - y \in 0..n /\ n - (n - y) = y
  OBVIOUS
<1>1. ASSUME NEW y \in S PROVE y \in 0..n /\ n - y \in T
  BY Zenon, <1>0
<1>2. T \subseteq Nat /\ T # {}
  <2>1. 0..n \subseteq Nat
    OBVIOUS
  <2> QED  BY Zenon, <1>1, <2>1
<1>3. Min(T) \in T /\ \A k \in T : Min(T) <= k
  BY Zenon, <1>2, LeastOf
<1>4. PICK m \in 0..n : n - m \in S /\ \A k \in T : m <= k
  BY Zenon, <1>3
<1> HIDE DEF T
<1>5. ASSUME NEW y \in S PROVE n - m >= y
  <2>1. y \in 0..n /\ m <= n - y
    BY Zenon, <1>1, <1>4
  <2> QED  BY <2>1
<1>6. Max(S) \in S /\ \A y \in S : Max(S) >= y
  BY Zenon, <1>4, <1>5 DEF Max
<1>7. ASSUME NEW y \in S PROVE y <= Max(S)
  <2>1. y \in 0..n /\ Max(S) \in 0..n /\ Max(S) >= y
    BY Zenon, <1>6
  <2> HIDE DEF Max
  <2> QED  BY <2>1
<1> QED  BY Zenon, <1>6, <1>7

-----------------------------------------------------------------------------
\* The page and its verification.

\* Where a walk goes after a page.
LEMMA PageLabels == \A w : AfterPage(w) \in {"idle", "getFinal", "page"}
  BY DEF AfterPage

\* A finding about a row is one.
LEMMA FindingIsOne == \A i, why, x, y : why # "none" => Finding(i, why, x, y) # NoFinding
  BY DEF Finding, NoFinding

\* VerifyTail passes a page whose rows follow one another and hold what their hashes digest.
LEMMA VerifiedPage ==
  ASSUME NEW B, B \subseteq Nat, NEW head, VerifyTail(B, head) = NoFinding, NEW i \in B
  PROVE  rows[i].prev = HashBefore(B, i, head) /\ rows[i].hash = Recomputed(i)
<1> DEFINE bad == {j \in B : RowFinding(j, HashBefore(B, j, head)) # NoFinding}
<1>1. bad # {} => RowFinding(Min(bad), HashBefore(B, Min(bad), head)) = NoFinding
  BY DEF VerifyTail
<1>2. bad # {} => Min(bad) \in bad
  <2>1. bad \subseteq Nat
    BY Zenon
  <2> QED  BY <2>1, LeastOf, Zenon
<1>3. bad = {}
  BY <1>1, <1>2
<1>4. RowFinding(i, HashBefore(B, i, head)) = NoFinding
  BY <1>3
<1> HIDE DEF bad
<1>5. LinkFinding(i, HashBefore(B, i, head)) = NoFinding /\ ContentFinding(i) = NoFinding
  BY <1>4, Zenon DEF RowFinding
<1>6. rows[i].prev = HashBefore(B, i, head)
  BY <1>5, FindingIsOne DEF LinkFinding
<1>7. rows[i].hash = Recomputed(i)
  BY <1>5, FindingIsOne DEF ContentFinding
<1> QED  BY <1>6, <1>7

\* TailEvents returns rows after id.
LEMMA PageIds == \A n : TailIds(n) \subseteq Ids /\ \A i \in TailIds(n) : i > n
  BY DEF TailIds

-----------------------------------------------------------------------------
\* Prefixes of a history.

\* A prefix is a history of its length.
LEMMA PrefixLength ==
  ASSUME NEW h \in Hash, NEW i \in 0..Len(h)
  PROVE  SubSeq(h, 1, i) \in Hash /\ Len(SubSeq(h, 1, i)) = i
<1>1. Len(h) \in Nat /\ \A j \in 1..i : h[j] \in Nat \X Content
  BY DEF Hash
<1>2. SubSeq(h, 1, i) \in Seq(Nat \X Content) /\ Len(SubSeq(h, 1, i)) = IF 1 <= i THEN i - 1 + 1 ELSE 0
  BY <1>1
<1> QED  BY <1>1, <1>2 DEF Hash

\* A history that grows keeps its prefixes, and ends with the new row.
LEMMA PrefixAppend ==
  ASSUME NEW h \in Hash, NEW x \in Nat \X Content
  PROVE  /\ Append(h, x) \in Hash /\ Len(Append(h, x)) = Len(h) + 1
         /\ Append(h, x)[Len(h) + 1] = x
         /\ SubSeq(Append(h, x), 1, Len(h)) = h
         /\ SubSeq(Append(h, x), 1, Len(h) + 1) = Append(h, x)
         /\ \A i \in 0..Len(h) : SubSeq(Append(h, x), 1, i) = SubSeq(h, 1, i)
<1>1. h \in Seq(Nat \X Content) /\ Len(h) \in Nat
  BY DEF Hash
<1>2. /\ Append(h, x) \in Seq(Nat \X Content) /\ Len(Append(h, x)) = Len(h) + 1
      /\ Append(h, x)[Len(h) + 1] = x
      /\ \A i \in 1..Len(h) : Append(h, x)[i] = h[i]
  BY <1>1
<1>3. SubSeq(Append(h, x), 1, Len(h) + 1) = Append(h, x)
  BY <1>2
<1>4. ASSUME NEW i \in 0..Len(h) PROVE SubSeq(Append(h, x), 1, i) = SubSeq(h, 1, i)
  <2>1. CASE i = 0
    BY <2>1
  <2>2. CASE i # 0
    <3>1. Append(h, x) = h \o <<x>> /\ <<x>> \in Seq(Nat \X Content)
      BY <1>1
    <3>2. 1 \in 1..Len(h) /\ i \in 1..Len(h)
      BY <1>1, <1>4, <2>2
    <3> QED  BY <1>1, <3>1, <3>2
  <2> QED  BY <2>1, <2>2
<1>5. SubSeq(h, 1, Len(h)) = h
  BY <1>1
<1>6. SubSeq(Append(h, x), 1, Len(h)) = h
  BY <1>1, <1>4, <1>5
<1> QED  BY <1>2, <1>3, <1>4, <1>6 DEF Hash

-----------------------------------------------------------------------------
\* The steps of the walks.

Admissible(w, l) ==
  /\ w \in Locals /\ w.hash \in genuine /\ \A e \in w.batch : Sound(e)
  /\ NoRestore =>
       /\ w.id <= chainHead.id /\ w.hash = Prefix(w.id)
       /\ \A e \in w.batch : e.id <= chainHead.id /\ e.hash = Prefix(e.id)
       /\ \A i \in 1..w.id : Shipped(i) \/ (l = "export" /\ \E e \in w.batch : e.id = i)
       /\ l = "export" => \A e \in w.batch : e.id <= w.id

\* Nothing lies before the first row.
LEMMA Beginning ==
  ASSUME Shape
  PROVE  /\ MaxRows \in Nat /\ 1..0 = {} /\ 0 \in 0..MaxRows /\ 0 <= chainHead.id
         /\ Prefix(0) = Genesis /\ Genesis \in Hash /\ chainHead.hash \in Hash /\ chainHead.id \in 0..MaxRows
<1>1. MaxRows \in Nat
  BY BoundsNat
<1>2. 1..0 = {} /\ 0 \in 0..MaxRows
  BY <1>1
<1>3. chainHead \in [id : 0..MaxRows, hash : Hash]
  BY Zenon DEF Shape
<1>4. chainHead.id \in 0..MaxRows /\ chainHead.hash \in Hash
  BY <1>3
<1>5. 0 <= chainHead.id
  BY <1>1, <1>4
<1>6. Prefix(0) = <<>>
  <2>1. SubSeq(chainHead.hash, 1, 0) = <<>>
    OBVIOUS
  <2> QED  BY Zenon, <2>1 DEF Prefix
<1>7. Genesis \in Hash /\ Genesis = <<>>
  BY DEF Genesis, Hash
<1> QED  BY Zenon, <1>1, <1>2, <1>4, <1>5, <1>6, <1>7

\* A walk that has not begun.
LEMMA NoWalkFields ==
  /\ NoWalk.cmd = "none" /\ NoWalk.id = 0 /\ NoWalk.hash = Genesis /\ NoWalk.batch = {}
  /\ (0 \in 0..MaxRows /\ Genesis \in Hash => NoWalk \in Locals)
  /\ \A c : LET w == [NoWalk EXCEPT !.cmd = c] IN
       /\ w.id = 0 /\ w.hash = Genesis /\ w.batch = {}
       /\ (0 \in 0..MaxRows /\ Genesis \in Hash /\ c \in {"poll", "sign", "resume"} => w \in Locals)
  BY Zenon DEF NoWalk, Locals

\* It is admissible, under every command.
LEMMA StartAdmissible ==
  ASSUME Shape, Written, NEW l
  PROVE  /\ Admissible(NoWalk, l)
         /\ \A c \in {"poll", "sign", "resume"} : Admissible([NoWalk EXCEPT !.cmd = c], l)
<1>0. /\ 1..0 = {} /\ 0 \in 0..MaxRows /\ 0 <= chainHead.id /\ Prefix(0) = Genesis /\ Genesis \in Hash
      /\ Genesis \in genuine
  BY Zenon, Beginning DEF Written
<1>1. ASSUME NEW w \in Locals, w.id = 0, w.hash = Genesis, w.batch = {} PROVE Admissible(w, l)
  BY Zenon, <1>0, <1>1 DEF Admissible
<1>2. Admissible(NoWalk, l)
  BY Zenon, <1>0, <1>1, NoWalkFields
<1>3. ASSUME NEW c \in {"poll", "sign", "resume"} PROVE Admissible([NoWalk EXCEPT !.cmd = c], l)
  BY Zenon, <1>0, <1>1, NoWalkFields
<1> QED  BY Zenon, <1>2, <1>3

MonitorInv == Shape /\ Written /\ (NoRestore => OneHistory /\ Coverage)

\* The locals of a walk that has exported its page.
LEMMA OwnAdmissible ==
  ASSUME MonitorInv, NEW p \in Proc, pc[p] # "export", NEW l
  PROVE  l # "export" => Admissible(walk[p], l)
<1>1. walk[p] \in Locals
  BY DEF MonitorInv, Shape
<1>2. walk[p].hash \in genuine /\ \A e \in walk[p].batch : Sound(e)
  BY Zenon DEF MonitorInv, Written
<1>3. NoRestore =>
       /\ walk[p].id <= chainHead.id /\ walk[p].hash = Prefix(walk[p].id)
       /\ \A e \in walk[p].batch : e.id <= chainHead.id /\ e.hash = Prefix(e.id)
  BY Zenon DEF MonitorInv, OneHistory
<1>4. NoRestore => \A i \in 1..walk[p].id : Shipped(i)
  BY Zenon DEF MonitorInv, Coverage, Walked
<1> QED  BY Zenon, <1>1, <1>2, <1>3, <1>4 DEF Admissible

\* Where Goto goes.
LEMMA Went ==
  ASSUME Shape, NEW p \in Proc, NEW l \in Label, NEW w \in Locals, Goto(p, l, w)
  PROVE  /\ pc' \in [Proc -> Label] /\ walk' \in [Proc -> Locals]
         /\ pc'[p] = l /\ walk'[p] = (IF l = "idle" THEN NoWalk ELSE w)
         /\ \A x \in Proc : x # p => pc'[x] = pc[x] /\ walk'[x] = walk[x]
<1>1. pc \in [Proc -> Label] /\ walk \in [Proc -> Locals]
  BY Zenon DEF Shape
<1>2. NoWalk \in Locals
  BY Zenon, Beginning, NoWalkFields
<1> DEFINE v == IF l = "idle" THEN NoWalk ELSE w
<1>3. v \in Locals
  BY Zenon, <1>2
<1>4. pc' = [pc EXCEPT ![p] = l] /\ walk' = [walk EXCEPT ![p] = v]
  BY Zenon DEF Goto
<1> HIDE DEF v
<1>5. /\ pc' \in [Proc -> Label] /\ walk' \in [Proc -> Locals]
      /\ pc'[p] = l /\ walk'[p] = v
      /\ \A x \in Proc : x # p => pc'[x] = pc[x] /\ walk'[x] = walk[x]
  BY Zenon, <1>1, <1>3, <1>4
<1> QED  BY Zenon, <1>5 DEF v

\* A walk that goes on with admissible locals, or ends, keeps the invariant.
LEMMA MoveInv ==
  ASSUME MonitorInv, NEW p \in Proc, NEW l \in Label, NEW w \in Locals, Goto(p, l, w),
         l = "idle" \/ Admissible(w, l),
         UNCHANGED <<rows, chainHead, genuine, anchors, exported, changes>>,
         exp' \in [Proc -> Nat], \A x \in Proc : exp'[x] = exp[x] \/ exp'[x] = 0
  PROVE  MonitorInv'
<1>0. /\ 1..0 = {} /\ 0 <= chainHead.id
  BY Zenon, Beginning DEF MonitorInv
<1>1. PICK v \in Locals : v = walk'[p] /\ Admissible(v, l)
  <2>0. Shape
    BY Zenon DEF MonitorInv
  <2>1. walk'[p] = (IF l = "idle" THEN NoWalk ELSE w)
    <3>1. walk \in [Proc -> Locals]
      BY Zenon, <2>0 DEF Shape
    <3> QED  BY Zenon, <3>1 DEF Goto
  <2>2. Admissible(NoWalk, l) /\ NoWalk \in Locals
    BY Zenon, StartAdmissible DEF MonitorInv, Admissible
  <2> QED  BY Zenon, <2>1, <2>2
<1>2. /\ pc' \in [Proc -> Label] /\ walk' \in [Proc -> Locals] /\ pc'[p] = l
      /\ \A x \in Proc : x # p => pc'[x] = pc[x] /\ walk'[x] = walk[x]
  BY Zenon, Went DEF MonitorInv
<1>3. Shape'
  BY Zenon, <1>2 DEF MonitorInv, Shape, Ids, Signed
<1>4. Written'
  <2>1. \A x \in Proc : walk'[x].hash \in genuine /\ \A e \in walk'[x].batch : Sound(e)
    BY Zenon, <1>1, <1>2 DEF MonitorInv, Written, Admissible
  <2> QED  BY Zenon, <2>1 DEF MonitorInv, Written, Sound, Ids, Signed
<1>5. ASSUME NoRestore' PROVE OneHistory'
  <2>1. NoRestore /\ OneHistory
    BY Zenon, <1>5 DEF MonitorInv, NoRestore
  <2>2. \A x \in Proc : /\ walk'[x].id <= chainHead.id /\ walk'[x].hash = Prefix(walk'[x].id)
                        /\ \A e \in walk'[x].batch : e.id <= chainHead.id /\ e.hash = Prefix(e.id)
    <3> SUFFICES ASSUME NEW x \in Proc
                 PROVE  /\ walk'[x].id <= chainHead.id /\ walk'[x].hash = Prefix(walk'[x].id)
                        /\ \A e \in walk'[x].batch : e.id <= chainHead.id /\ e.hash = Prefix(e.id)
      BY Zenon
    <3>1. CASE x = p
      BY Zenon, <1>1, <2>1, <3>1 DEF Admissible
    <3>2. CASE x # p
      BY Zenon, <1>2, <2>1, <3>2 DEF OneHistory
    <3> QED  BY Zenon, <3>1, <3>2
  <2> QED  BY Zenon, <2>1, <2>2 DEF OneHistory, Prefix, Ids, Signed
<1>6. ASSUME NoRestore' PROVE Coverage'
  <2>1. NoRestore /\ Coverage
    BY Zenon, <1>6 DEF MonitorInv, NoRestore
  <2>2. \A x \in Proc : \A i \in 1..walk'[x].id :
          Shipped(i) \/ (pc'[x] = "export" /\ \E e \in walk'[x].batch : e.id = i)
    <3> SUFFICES ASSUME NEW x \in Proc, NEW i \in 1..walk'[x].id
                 PROVE  Shipped(i) \/ (pc'[x] = "export" /\ \E e \in walk'[x].batch : e.id = i)
      BY Zenon
    <3>1. CASE x = p
      BY Zenon, <1>1, <1>2, <2>1, <3>1 DEF Admissible
    <3>2. CASE x # p
      <4>1. pc'[x] = pc[x] /\ walk'[x] = walk[x]
        BY Zenon, <1>2, <3>2
      <4>2. i \in 1..walk[x].id
        BY Zenon, <4>1
      <4>3. Shipped(i) \/ (pc[x] = "export" /\ \E e \in walk[x].batch : e.id = i)
        BY Zenon, <2>1, <4>2 DEF Coverage, Walked
      <4> QED  BY Zenon, <4>1, <4>3
    <3> QED  BY Zenon, <3>1, <3>2
  <2>3. \A x \in Proc : exp'[x] <= chainHead.id /\ \A i \in 1..exp'[x] : Shipped(i)
    BY Zenon, <1>0, <2>1 DEF Coverage, Marked, Covered
  <2>4. \A i : Shipped(i)' <=> Shipped(i)
    BY Zenon DEF Shipped, Prefix
  <2>5. \A x \in Proc : exp'[x] <= chainHead'.id /\ Covered(exp[x])'
    BY Zenon, <2>3, <2>4 DEF Covered
  <2>6. \A a \in Signed' : Covered(a)'
    BY Zenon, <2>1, <2>4 DEF Coverage, Anchored, Covered, Signed
  <2>7. \A x \in Proc : \A i \in 1..walk'[x].id :
          Shipped(i)' \/ (pc'[x] = "export" /\ \E e \in walk'[x].batch : e.id = i)
    BY Zenon, <2>2, <2>4
  <2>8. \A x \in Proc : pc'[x] = "export" => \A e \in walk'[x].batch : e.id <= walk'[x].id
    <3>1. ASSUME NEW x \in Proc, x # p, pc'[x] = "export"
          PROVE  \A e \in walk'[x].batch : e.id <= walk'[x].id
      <4>1. pc[x] = "export" /\ walk'[x] = walk[x]
        BY Zenon, <1>2, <3>1
      <4>2. \A e \in walk[x].batch : e.id <= walk[x].id
        BY Zenon, <2>1, <4>1 DEF Coverage, Paged
      <4> QED  BY Zenon, <4>1, <4>2
    <3>2. pc'[p] = "export" => \A e \in walk'[p].batch : e.id <= walk'[p].id
      BY Zenon, <1>1, <1>2, <2>1 DEF Admissible
    <3> QED  BY Zenon, <3>1, <3>2
  <2> QED  BY Zenon, <2>5, <2>6, <2>7, <2>8 DEF Coverage, Marked, Anchored, Walked, Paged
<1> QED  BY Zenon, <1>3, <1>4, <1>5, <1>6 DEF MonitorInv

\* Numbers above n, each n + 1 or the successor of another, leave no gap.
LEMMA NoGap ==
  ASSUME NEW B, B \subseteq Nat, NEW n \in Nat, \A i \in B : i > n /\ (i = n + 1 \/ i - 1 \in B),
         NEW m \in B, NEW j \in Nat, n < j, j <= m
  PROVE  j \in B
<1> SUFFICES ASSUME j \notin B PROVE FALSE
  OBVIOUS
<1> DEFINE S == {i \in B : i > j}
<1>1. m \in Nat /\ m # j /\ m > j
  OBVIOUS
<1>2. S \subseteq Nat /\ S # {}
  BY Zenon, <1>1
<1>3. PICK k \in S : \A y \in S : k <= y
  BY Zenon, <1>2, LeastOf
<1>4. k \in Nat /\ k \in B /\ k > j /\ (k = n + 1 \/ k - 1 \in B)
  BY Zenon, <1>3
<1>5. k # n + 1
  BY <1>4
<1>6. k - 1 \in B /\ k - 1 # j
  BY Zenon, <1>4, <1>5
<1>7. k - 1 > j /\ ~(k <= k - 1)
  BY <1>4, <1>6
<1> QED  BY Zenon, <1>3, <1>6, <1>7

\* Without a restore, the rows of a verified page follow the verified head without a gap.
LEMMA PageFollows ==
  ASSUME MonitorInv, NoRestore, NEW p \in Proc, NEW B, B = TailIds(walk[p].id),
         VerifyTail(B, walk[p].hash) = NoFinding, NEW i \in B
  PROVE  i = walk[p].id + 1 \/ i - 1 \in B
<1>0. /\ Shape /\ OneHistory /\ MaxRows \in Nat /\ chainHead.hash \in Hash
      /\ chainHead.id \in 0..MaxRows /\ Ids \subseteq 1..MaxRows
  BY Zenon, Beginning DEF MonitorInv, Shape
<1>1. B \subseteq Ids /\ B \subseteq Nat /\ i \in Ids /\ i \in 1..MaxRows
  <2>1. B \subseteq Ids
    BY Zenon, PageIds
  <2>2. 1..MaxRows \subseteq Nat
    OBVIOUS
  <2> QED  BY Zenon, <1>0, <2>1, <2>2
<1>2. \A j \in 0..chainHead.id : Len(Prefix(j)) = j
  <2>1. Len(chainHead.hash) = chainHead.id
    BY Zenon, <1>0 DEF OneHistory
  <2> QED  BY Zenon, <1>0, <2>1, PrefixLength DEF Prefix
<1>3. rows[i].prev = HashBefore(B, i, walk[p].hash)
  BY Zenon, <1>1, VerifiedPage
<1>4. rows[i].prev = Prefix(i - 1) /\ i <= chainHead.id
  BY Zenon, <1>0, <1>1 DEF OneHistory
<1>5. i - 1 \in 0..chainHead.id
  BY <1>0, <1>1, <1>4
<1>6. Len(HashBefore(B, i, walk[p].hash)) = i - 1
  BY Zenon, <1>2, <1>3, <1>4, <1>5
<1> DEFINE below == {j \in B : j < i}
<1>7. CASE below = {}
  <2>1. HashBefore(B, i, walk[p].hash) = walk[p].hash
    BY Zenon, <1>7 DEF HashBefore
  <2>2. walk[p].hash = Prefix(walk[p].id) /\ walk[p].id <= chainHead.id
    BY Zenon, <1>0 DEF OneHistory
  <2>3. walk[p].id \in 0..MaxRows
    BY <1>0 DEF Shape, Locals
  <2>4. walk[p].id \in 0..chainHead.id
    BY <1>0, <2>2, <2>3
  <2>5. walk[p].id = i - 1
    BY Zenon, <1>2, <1>6, <2>1, <2>2, <2>4
  <2> QED  BY <1>1, <2>3, <2>5
<1>8. CASE below # {}
  <2>1. below \subseteq 0..MaxRows
    BY <1>0, <1>1
  <2>2. PICK m \in below : m = Max(below)
    BY Zenon, <1>0, <1>8, <2>1, GreatestOf
  <2>3. HashBefore(B, i, walk[p].hash) = rows[m].hash
    BY Zenon, <1>8, <2>2 DEF HashBefore
  <2>4. m \in B /\ m \in Ids /\ m \in 0..MaxRows
    BY Zenon, <1>1, <2>1, <2>2
  <2>5. rows[m].hash = Prefix(m) /\ m <= chainHead.id
    BY Zenon, <1>0, <2>4 DEF OneHistory
  <2>6. m \in 0..chainHead.id
    BY <1>0, <2>4, <2>5
  <2>7. m = i - 1
    BY Zenon, <1>2, <1>6, <2>3, <2>5, <2>6
  <2> QED  BY Zenon, <2>4, <2>7
<1> QED  BY Zenon, <1>7, <1>8

\* The locals after a page that was verified.
LEMMA PageAdmissible ==
  ASSUME MonitorInv, NEW p \in Proc, pc[p] = "page", NEW B, B = TailIds(walk[p].id), B # {},
         VerifyTail(B, walk[p].hash) = NoFinding, NEW page,
         page = {[id |-> i, c |-> rows[i].c, hash |-> rows[i].hash] : i \in B},
         NEW w, w = [walk[p] EXCEPT !.batch = page, !.id = Max(B), !.hash = rows[Max(B)].hash]
  PROVE  w \in Locals /\ Admissible(w, "export")
<1>0. /\ Shape /\ Written /\ MaxRows \in Nat /\ Ids \subseteq 1..MaxRows
      /\ rows \in [Ids -> [c : Content, prev : Hash, hash : Hash]] /\ walk[p] \in Locals
      /\ chainHead.id \in 0..MaxRows
  BY Zenon, Beginning DEF MonitorInv, Shape
<1>1. B \subseteq Ids /\ \A i \in B : i > walk[p].id
  BY Zenon, PageIds
<1>2. B \subseteq 0..MaxRows /\ B \subseteq Nat /\ B \subseteq 1..MaxRows
  <2>1. 1..MaxRows \subseteq 0..MaxRows /\ 1..MaxRows \subseteq Nat
    BY <1>0
  <2> QED  BY Zenon, <1>0, <1>1, <2>1
<1>3. PICK m \in B : m = Max(B) /\ \A i \in B : i <= m
  BY Zenon, <1>0, <1>2, GreatestOf
<1>4. \A i \in B : rows[i].c \in Content /\ rows[i].prev \in Hash /\ rows[i].hash \in Hash
  BY <1>0, <1>1
<1>5. page \subseteq Shipment
  <2> SUFFICES ASSUME NEW i \in B PROVE [id |-> i, c |-> rows[i].c, hash |-> rows[i].hash] \in Shipment
    BY Zenon
  <2> QED  BY Zenon, <1>2, <1>4 DEF Shipment
<1>6. w \in Locals /\ w.id = m /\ w.hash = rows[m].hash /\ w.batch = page
  <2>1. m \in 0..MaxRows /\ rows[m].hash \in Hash /\ page \in SUBSET Shipment
    BY Zenon, <1>2, <1>3, <1>4, <1>5
  <2> QED  BY Zenon, <1>0, <1>3, <2>1 DEF Locals
<1>f. ASSUME NEW i \in B, NEW e, e = [id |-> i, c |-> rows[i].c, hash |-> rows[i].hash]
      PROVE  e.id = i /\ e.c = rows[i].c /\ e.hash = rows[i].hash
  BY Zenon, <1>f
<1>7. ASSUME NEW e \in page PROVE e.id \in B /\ e.c = rows[e.id].c /\ e.hash = rows[e.id].hash
  <2>1. PICK i \in B : e = [id |-> i, c |-> rows[i].c, hash |-> rows[i].hash]
    BY Zenon, <1>7
  <2> QED  BY Zenon, <1>f, <2>1
<1>8. ASSUME NEW i \in B PROVE rows[i].hash \in genuine /\ rows[i].hash[Len(rows[i].hash)] = <<i, rows[i].c>>
  <2>1. rows[i].hash \in genuine
    BY Zenon, <1>0, <1>1 DEF Written
  <2>2. rows[i].hash = Append(rows[i].prev, <<i, rows[i].c>>)
    BY Zenon, <1>2, VerifiedPage DEF Recomputed, RowHash
  <2>3. rows[i].prev \in Hash /\ <<i, rows[i].c>> \in Nat \X Content
    BY Zenon, <1>2, <1>4
  <2>4. /\ Len(Append(rows[i].prev, <<i, rows[i].c>>)) = Len(rows[i].prev) + 1
        /\ Append(rows[i].prev, <<i, rows[i].c>>)[Len(rows[i].prev) + 1] = <<i, rows[i].c>>
    BY Zenon, <2>3, PrefixAppend
  <2> QED  BY Zenon, <2>1, <2>2, <2>4
<1>9. \A e \in w.batch : Sound(e)
  <2> SUFFICES ASSUME NEW e \in page PROVE e.hash \in genuine /\ e.hash[Len(e.hash)] = <<e.id, e.c>>
    BY Zenon, <1>6 DEF Sound
  <2>1. PICK i \in B : e.id = i /\ e.c = rows[i].c /\ e.hash = rows[i].hash
    BY Zenon, <1>7
  <2>2. rows[i].hash \in genuine /\ rows[i].hash[Len(rows[i].hash)] = <<i, rows[i].c>>
    BY Zenon, <1>8
  <2> QED  BY Zenon, <2>1, <2>2
<1>10. w.hash \in genuine
  BY Zenon, <1>3, <1>6, <1>8
<1>11. ASSUME NoRestore
       PROVE  /\ w.id <= chainHead.id /\ w.hash = Prefix(w.id)
              /\ \A e \in w.batch : e.id <= chainHead.id /\ e.hash = Prefix(e.id)
  <2>1. \A i \in B : i <= chainHead.id /\ rows[i].hash = Prefix(i)
    BY Zenon, <1>1, <1>11 DEF MonitorInv, OneHistory
  <2>2. w.id <= chainHead.id /\ w.hash = Prefix(w.id)
    BY Zenon, <1>3, <1>6, <2>1
  <2>3. \A e \in w.batch : e.id <= chainHead.id /\ e.hash = Prefix(e.id)
    BY Zenon, <1>6, <1>7, <2>1
  <2> QED  BY Zenon, <2>2, <2>3
<1>12. ASSUME NoRestore, NEW i \in 1..w.id
       PROVE  Shipped(i) \/ \E e \in w.batch : e.id = i
  <2>0. walk[p].id \in 0..MaxRows /\ m \in 0..MaxRows /\ i \in 1..m
    BY Zenon, <1>0, <1>2, <1>3, <1>6, <1>12 DEF Locals
  <2>1. i \in Nat /\ i <= m /\ walk[p].id \in Nat /\ (i \in 1..walk[p].id \/ walk[p].id < i)
    BY <1>0, <2>0
  <2>2. CASE i \in 1..walk[p].id
    BY Zenon, <1>12, <2>2 DEF MonitorInv, Coverage, Walked
  <2>3. CASE walk[p].id < i
    <3>1. \A j \in B : j > walk[p].id /\ (j = walk[p].id + 1 \/ j - 1 \in B)
      BY Zenon, <1>1, <1>12, PageFollows
    <3>2. i \in B
      BY Zenon, <1>2, <1>3, <2>1, <2>3, <3>1, NoGap
    <3>3. [id |-> i, c |-> rows[i].c, hash |-> rows[i].hash] \in page
      BY Zenon, <3>2
    <3> QED  BY Zenon, <1>6, <1>f, <3>2, <3>3
  <2> QED  BY Zenon, <2>1, <2>2, <2>3
<1>13. \A e \in w.batch : e.id <= w.id
  BY Zenon, <1>3, <1>6, <1>7
<1> QED  BY Zenon, <1>6, <1>9, <1>10, <1>11, <1>12, <1>13 DEF Admissible

\* processFreshMode ships what its watermark does not cover, and the page is covered.
LEMMA ExportInv ==
  ASSUME MonitorInv, NEW p \in Proc, ExportBatch(p)
  PROVE  MonitorInv'
<1> DEFINE fresh == {e \in walk[p].batch : e.id > exp[p]}
<1>0. /\ Shape /\ Written /\ MaxRows \in Nat /\ walk[p] \in Locals /\ exp \in [Proc -> Nat]
      /\ exported \subseteq Shipment /\ chainHead.id \in 0..MaxRows /\ pc[p] = "export"
  BY Zenon, Beginning DEF MonitorInv, Shape, ExportBatch
<1>1. /\ UNCHANGED <<rows, chainHead, genuine, anchors, changes>> /\ exported' = exported \cup fresh
      /\ exp' = [exp EXCEPT ![p] = IF fresh = {} THEN exp[p] ELSE Max({e.id : e \in fresh})]
  BY Zenon DEF ExportBatch, dbVars
<1>2. PICK l \in Label : l # "export" /\ Goto(p, l, walk[p])
  <2>1. {"idle", "getFinal", "page", "getCheckpoint"} \subseteq Label \ {"export"}
    BY DEF Label
  <2>2. AfterPage(walk[p]) \in {"idle", "getFinal", "page"}
    BY Zenon, PageLabels
  <2>3. Goto(p, IF Cardinality(walk[p].batch) = TailBatch THEN "getCheckpoint" ELSE AfterPage(walk[p]), walk[p])
    BY Zenon DEF ExportBatch
  <2> QED  BY Zenon, <2>1, <2>2, <2>3
<1>3. /\ pc' \in [Proc -> Label] /\ walk' \in [Proc -> Locals]
      /\ pc'[p] = l /\ walk'[p] = (IF l = "idle" THEN NoWalk ELSE walk[p])
      /\ \A x \in Proc : x # p => pc'[x] = pc[x] /\ walk'[x] = walk[x]
  BY Zenon, <1>0, <1>2, Went
<1>4. fresh \subseteq walk[p].batch /\ walk[p].batch \subseteq Shipment
  BY Zenon, <1>0 DEF Locals
<1>5. /\ exp' \in [Proc -> Nat] /\ \A x \in Proc : x # p => exp'[x] = exp[x]
      /\ exp'[p] = exp[p] \/ \E e \in fresh : exp'[p] = e.id
  <2> DEFINE ids == {e.id : e \in fresh}
             n == IF fresh = {} THEN exp[p] ELSE Max(ids)
  <2>1. \A e \in fresh : e.id \in 1..MaxRows
    BY Zenon, <1>4 DEF Shipment
  <2>2. 1..MaxRows \subseteq 0..MaxRows /\ 1..MaxRows \subseteq Nat
    BY <1>0
  <2>3. fresh # {} => Max(ids) \in ids
    <3>1. fresh # {} => ids # {}
      BY Zenon
    <3>2. ids \subseteq 0..MaxRows
      BY Zenon, <2>1, <2>2
    <3> HIDE DEF ids
    <3> QED  BY Zenon, <1>0, <3>1, <3>2, GreatestOf
  <2>4. n = exp[p] \/ \E e \in fresh : n = e.id
    BY Zenon, <2>3
  <2>5. n \in Nat
    BY Zenon, <1>0, <2>1, <2>2, <2>4
  <2>6. exp' = [exp EXCEPT ![p] = n]
    BY Zenon, <1>1
  <2> HIDE DEF n, ids, fresh
  <2> QED  BY Zenon, <1>0, <2>4, <2>5, <2>6
<1>6. Shape'
  <2>1. exported' \subseteq Shipment
    BY Zenon, <1>0, <1>1, <1>4
  <2> QED  BY Zenon, <1>0, <1>1, <1>3, <1>5, <2>1 DEF Shape, Ids, Signed
<1>a. Admissible(NoWalk, "idle")
  BY Zenon, <1>0, StartAdmissible
<1>7. Written'
  <2>1. \A e \in exported' : Sound(e)
    BY Zenon, <1>0, <1>1 DEF Written
  <2>2. NoWalk.hash \in genuine /\ \A e \in NoWalk.batch : Sound(e)
    BY Zenon, <1>a DEF Admissible
  <2>3. \A x \in Proc : walk'[x] = walk[x] \/ walk'[x] = NoWalk
    BY Zenon, <1>3
  <2>4. \A x \in Proc : walk'[x].hash \in genuine /\ \A e \in walk'[x].batch : Sound(e)
    BY Zenon, <1>0, <2>2, <2>3 DEF Written
  <2> QED  BY Zenon, <1>0, <1>1, <2>1, <2>4 DEF Written, Sound, Ids, Signed
<1>8. ASSUME NoRestore' PROVE OneHistory'
  <2>1. NoRestore /\ OneHistory
    BY Zenon, <1>1, <1>8 DEF MonitorInv, NoRestore
  <2>2. /\ NoWalk.id <= chainHead.id /\ NoWalk.hash = Prefix(NoWalk.id)
        /\ \A e \in NoWalk.batch : e.id <= chainHead.id /\ e.hash = Prefix(e.id)
    BY Zenon, <1>a, <2>1 DEF Admissible
  <2>3. \A x \in Proc : walk'[x] = walk[x] \/ walk'[x] = NoWalk
    BY Zenon, <1>3
  <2>4. ASSUME NEW x \in Proc
        PROVE  /\ walk'[x].id <= chainHead.id /\ walk'[x].hash = Prefix(walk'[x].id)
               /\ \A e \in walk'[x].batch : e.id <= chainHead.id /\ e.hash = Prefix(e.id)
    <3>1. CASE walk'[x] = walk[x]
      BY Zenon, <2>1, <3>1 DEF OneHistory
    <3>2. CASE walk'[x] = NoWalk
      BY Zenon, <2>2, <3>2
    <3> QED  BY Zenon, <2>3, <3>1, <3>2
  <2> QED  BY Zenon, <1>1, <2>1, <2>4 DEF OneHistory, Prefix, Ids, Signed
<1>9. ASSUME NoRestore' PROVE Coverage'
  <2>1. NoRestore /\ Coverage /\ OneHistory
    BY Zenon, <1>1, <1>9 DEF MonitorInv, NoRestore
  <2>2. \A i : Shipped(i) => Shipped(i)'
    BY Zenon, <1>1 DEF Shipped, Prefix
  <2>3. \A e \in fresh : Shipped(e.id)'
    BY Zenon, <1>1, <2>1 DEF OneHistory, Shipped, Prefix
  <2>4. exp[p] \in Nat /\ \A i \in 1..exp[p] : Shipped(i)
    BY Zenon, <1>0, <2>1 DEF Coverage, Marked, Covered
  <2>5. ASSUME NEW i \in 1..walk[p].id PROVE Shipped(i)'
    <3>1. CASE Shipped(i)
      BY Zenon, <2>2, <3>1
    <3>2. CASE \E e \in walk[p].batch : e.id = i
      <4>1. i \in 1..exp[p] \/ i > exp[p]
        BY <2>4, <2>5
      <4> QED  BY Zenon, <2>2, <2>3, <2>4, <3>2, <4>1
    <3> QED  BY Zenon, <2>1, <3>1, <3>2 DEF Coverage, Walked
  <2>6. ASSUME NEW e \in fresh, NEW i \in 1..e.id PROVE Shipped(i)'
    <3>1. e.id \in 1..MaxRows /\ walk[p].id \in 0..MaxRows /\ e.id <= walk[p].id
      BY Zenon, <1>0, <1>4, <2>1, <2>6 DEF Shipment, Locals, Coverage, Paged
    <3>2. i \in 1..walk[p].id
      BY <1>0, <2>6, <3>1
    <3> QED  BY Zenon, <2>5, <3>2
  <2>7. Marked'
    <3>1. \A e \in fresh : e.id <= chainHead.id
      BY Zenon, <2>1 DEF OneHistory
    <3>2. \A x \in Proc : exp'[x] <= chainHead.id
      BY Zenon, <1>5, <2>1, <3>1 DEF Coverage, Marked
    <3>3. \A x \in Proc : \A i \in 1..exp'[x] : Shipped(i)'
      <4>1. ASSUME NEW x \in Proc, exp'[x] = exp[x], NEW i \in 1..exp'[x] PROVE Shipped(i)'
        BY Zenon, <2>1, <2>2, <4>1 DEF Coverage, Marked, Covered
      <4>2. ASSUME NEW e \in fresh, exp'[p] = e.id, NEW i \in 1..exp'[p] PROVE Shipped(i)'
        BY Zenon, <2>6, <4>2
      <4> HIDE DEF fresh
      <4> QED  BY Zenon, <1>5, <4>1, <4>2
    <3> QED  BY Zenon, <1>1, <3>2, <3>3 DEF Marked, Covered
  <2>8. Anchored'
    BY Zenon, <1>1, <2>1, <2>2 DEF Coverage, Anchored, Covered, Signed
  <2>9. Walked'
    <3>1. ASSUME NEW i \in 1..walk'[p].id PROVE Shipped(i)'
      <4>1. NoWalk.id = 0 /\ 1..0 = {}
        BY Zenon, <1>0, NoWalkFields, Beginning
      <4>2. walk'[p] = walk[p] \/ walk'[p] = NoWalk
        BY Zenon, <1>3
      <4> QED  BY Zenon, <2>5, <3>1, <4>1, <4>2
    <3>2. ASSUME NEW x \in Proc, x # p, NEW i \in 1..walk'[x].id
          PROVE  Shipped(i)' \/ (pc'[x] = "export" /\ \E e \in walk'[x].batch : e.id = i)
      <4>1. pc'[x] = pc[x] /\ walk'[x] = walk[x]
        BY Zenon, <1>3, <3>2
      <4>2. i \in 1..walk[x].id
        BY Zenon, <3>2, <4>1
      <4>3. Shipped(i) \/ (pc[x] = "export" /\ \E e \in walk[x].batch : e.id = i)
        BY Zenon, <2>1, <4>2 DEF Coverage, Walked
      <4> QED  BY Zenon, <2>2, <4>1, <4>3
    <3> QED  BY Zenon, <3>1, <3>2 DEF Walked
  <2>10. Paged'
    <3>1. ASSUME NEW x \in Proc, pc'[x] = "export" PROVE \A e \in walk'[x].batch : e.id <= walk'[x].id
      <4>1. pc'[x] = pc[x] /\ walk'[x] = walk[x]
        BY Zenon, <1>2, <1>3, <3>1
      <4>2. \A e \in walk[x].batch : e.id <= walk[x].id
        BY Zenon, <2>1, <3>1, <4>1 DEF Coverage, Paged
      <4> QED  BY Zenon, <4>1, <4>2
    <3> QED  BY Zenon, <3>1 DEF Paged
  <2> QED  BY Zenon, <2>7, <2>8, <2>9, <2>10 DEF Coverage
<1> QED  BY Zenon, <1>6, <1>7, <1>8, <1>9 DEF MonitorInv

\* WriteAnchor signs a verified head, all of whose rows are shipped.
LEMMA PutInv ==
  ASSUME MonitorInv, NEW p \in Proc, PutAnchor(p)
  PROVE  MonitorInv'
<1>0. /\ Shape /\ Written /\ walk[p] \in Locals /\ exp \in [Proc -> Nat]
      /\ anchors \in [Signed -> Hash] /\ Signed \subseteq 0..MaxRows
  BY Zenon DEF MonitorInv, Shape
<1>1. /\ UNCHANGED <<rows, chainHead, genuine, exported, changes, exp>>
      /\ anchors' = [i \in Signed \cup {walk[p].id} |->
                       IF i = walk[p].id THEN walk[p].hash ELSE anchors[i]]
  BY Zenon DEF PutAnchor, dbVars
<1>2. pc[p] # "export" /\ \E k \in Label : k # "export" /\ Goto(p, k, walk[p])
  <2>1. {"idle", "getFinal", "page"} \subseteq Label \ {"export"}
    BY DEF Label
  <2>2. AfterPage(walk[p]) \in {"idle", "getFinal", "page"}
    BY Zenon, PageLabels
  <2>3. CASE pc[p] = "putCheckpoint" /\ Goto(p, AfterPage(walk[p]), walk[p])
    BY Zenon, <2>1, <2>2, <2>3
  <2>4. CASE pc[p] = "putFinal" /\ Goto(p, "idle", walk[p])
    BY Zenon, <2>1, <2>4
  <2> QED  BY Zenon, <2>3, <2>4 DEF PutAnchor
<1>3. PICK l \in Label : l # "export" /\ Goto(p, l, walk[p])
  BY Zenon, <1>2
<1>4. /\ pc' \in [Proc -> Label] /\ walk' \in [Proc -> Locals]
      /\ pc'[p] = l /\ walk'[p] = (IF l = "idle" THEN NoWalk ELSE walk[p])
      /\ \A x \in Proc : x # p => pc'[x] = pc[x] /\ walk'[x] = walk[x]
  BY Zenon, <1>0, <1>3, Went
<1>5. PICK v \in Locals : v = walk'[p] /\ Admissible(v, l)
  <2>1. Admissible(NoWalk, l) /\ NoWalk \in Locals
    BY Zenon, <1>0, StartAdmissible DEF Admissible
  <2>2. Admissible(walk[p], l)
    BY Zenon, <1>2, <1>3, OwnAdmissible
  <2> QED  BY Zenon, <1>0, <1>4, <2>1, <2>2
<1>6. /\ DOMAIN anchors' = Signed \cup {walk[p].id}
      /\ anchors' \in [Signed \cup {walk[p].id} -> Hash]
      /\ walk[p].id \in 0..MaxRows /\ anchors'[walk[p].id] = walk[p].hash
      /\ \A a \in Signed : a # walk[p].id => anchors'[a] = anchors[a]
  <2>1. walk[p].id \in 0..MaxRows /\ walk[p].hash \in Hash
    BY Zenon, <1>0 DEF Locals
  <2> QED  BY Zenon, <1>0, <1>1, <2>1
<1>7. Signed' = Signed \cup {walk[p].id}
  BY Zenon, <1>6 DEF Signed
<1>8. Shape'
  <2>1. anchors' \in [Signed' -> Hash] /\ Signed' \subseteq 0..MaxRows
    BY Zenon, <1>0, <1>6, <1>7
  <2> QED  BY Zenon, <1>0, <1>1, <1>4, <2>1 DEF Shape, Ids
<1>9. Written'
  <2>1. \A x \in Proc : walk'[x].hash \in genuine /\ \A e \in walk'[x].batch : Sound(e)
    BY Zenon, <1>0, <1>4, <1>5 DEF Written, Admissible
  <2>2. \A a \in Signed' : anchors'[a] \in genuine
    BY Zenon, <1>0, <1>6, <1>7 DEF Written
  <2> QED  BY Zenon, <1>0, <1>1, <2>1, <2>2 DEF Written, Sound, Ids
<1>10. ASSUME NoRestore' PROVE OneHistory'
  <2>1. NoRestore /\ OneHistory
    BY Zenon, <1>1, <1>10 DEF MonitorInv, NoRestore
  <2>2. ASSUME NEW x \in Proc
        PROVE  /\ walk'[x].id <= chainHead.id /\ walk'[x].hash = Prefix(walk'[x].id)
               /\ \A e \in walk'[x].batch : e.id <= chainHead.id /\ e.hash = Prefix(e.id)
    <3>1. CASE x = p
      BY Zenon, <1>5, <2>1, <3>1 DEF Admissible
    <3>2. CASE x # p
      BY Zenon, <1>4, <2>1, <3>2 DEF OneHistory
    <3> QED  BY Zenon, <3>1, <3>2
  <2>3. ASSUME NEW a \in Signed' PROVE a <= chainHead.id /\ anchors'[a] = Prefix(a)
    <3>1. walk[p].id <= chainHead.id /\ walk[p].hash = Prefix(walk[p].id)
      BY Zenon, <2>1 DEF OneHistory
    <3>2. CASE a = walk[p].id
      BY Zenon, <1>6, <3>1, <3>2
    <3>3. CASE a \in Signed /\ a # walk[p].id
      <4>1. a <= chainHead.id /\ anchors[a] = Prefix(a)
        BY Zenon, <2>1, <3>3 DEF OneHistory
      <4> QED  BY Zenon, <1>6, <3>3, <4>1
    <3> QED  BY Zenon, <1>7, <2>3, <3>2, <3>3
  <2> QED  BY Zenon, <1>1, <2>1, <2>2, <2>3 DEF OneHistory, Prefix, Ids
<1>11. ASSUME NoRestore' PROVE Coverage'
  <2>1. NoRestore /\ Coverage
    BY Zenon, <1>1, <1>11 DEF MonitorInv, NoRestore
  <2>2. \A i : Shipped(i)' <=> Shipped(i)
    BY Zenon, <1>1 DEF Shipped, Prefix
  <2>3. Marked'
    BY Zenon, <1>1, <2>1, <2>2 DEF Coverage, Marked, Covered
  <2>4. Anchored'
    <3>1. \A i \in 1..walk[p].id : Shipped(i)
      BY Zenon, <1>2, <2>1 DEF Coverage, Walked
    <3> QED  BY Zenon, <1>7, <2>1, <2>2, <3>1 DEF Coverage, Anchored, Covered
  <2>5. Walked'
    <3>1. ASSUME NEW i \in 1..walk'[p].id PROVE Shipped(i)'
      BY Zenon, <1>3, <1>5, <2>1, <2>2, <3>1 DEF Admissible
    <3>2. ASSUME NEW x \in Proc, x # p, NEW i \in 1..walk'[x].id
          PROVE  Shipped(i)' \/ (pc'[x] = "export" /\ \E e \in walk'[x].batch : e.id = i)
      <4>1. pc'[x] = pc[x] /\ walk'[x] = walk[x]
        BY Zenon, <1>4, <3>2
      <4>2. i \in 1..walk[x].id
        BY Zenon, <3>2, <4>1
      <4>3. Shipped(i) \/ (pc[x] = "export" /\ \E e \in walk[x].batch : e.id = i)
        BY Zenon, <2>1, <4>2 DEF Coverage, Walked
      <4> QED  BY Zenon, <2>2, <4>1, <4>3
    <3> QED  BY Zenon, <3>1, <3>2 DEF Walked
  <2>6. Paged'
    <3>1. ASSUME NEW x \in Proc, pc'[x] = "export" PROVE \A e \in walk'[x].batch : e.id <= walk'[x].id
      <4>1. pc'[x] = pc[x] /\ walk'[x] = walk[x]
        BY Zenon, <1>3, <1>4, <3>1
      <4>2. \A e \in walk[x].batch : e.id <= walk[x].id
        BY Zenon, <2>1, <3>1, <4>1 DEF Coverage, Paged
      <4> QED  BY Zenon, <4>1, <4>2
    <3> QED  BY Zenon, <3>1 DEF Paged
  <2> QED  BY Zenon, <2>3, <2>4, <2>5, <2>6 DEF Coverage
<1> QED  BY Zenon, <1>8, <1>9, <1>10, <1>11 DEF MonitorInv

-----------------------------------------------------------------------------
\* The table.

\* The control plane appends a row: the history grows, and all there was is part of it.
LEMMA AppendInv ==
  ASSUME MonitorInv, NEW c \in Content, AppendEvent(c)
  PROVE  MonitorInv'
<1>m. PICK m, id : m = chainHead.id /\ id = chainHead.id + 1
  BY Zenon
<1> DEFINE x == <<id, c>>
           hash == Append(chainHead.hash, x)
<1>0. /\ Shape /\ Written /\ MaxRows \in Nat /\ chainHead.hash \in Hash /\ chainHead.id \in 0..MaxRows
      /\ Ids \subseteq 1..MaxRows /\ rows \in [Ids -> [c : Content, prev : Hash, hash : Hash]]
  BY Zenon, Beginning DEF MonitorInv, Shape
<1>1. /\ id <= MaxRows
      /\ rows' = [i \in Ids \cup {id} |->
                    IF i = id THEN [c |-> c, prev |-> chainHead.hash, hash |-> hash] ELSE rows[i]]
      /\ chainHead' = [id |-> id, hash |-> hash] /\ genuine' = genuine \cup {hash}
      /\ UNCHANGED <<changes, anchors, exported, accepted, pc, walk, exp>>
  BY Zenon, <1>m DEF AppendEvent, RowHash, storeVars
<1>2. id \in 1..MaxRows /\ id \in 0..MaxRows /\ id \in Nat /\ x \in Nat \X Content
  <2>1. id \in 1..MaxRows /\ id \in 0..MaxRows /\ id \in Nat
    BY <1>0, <1>1, <1>m
  <2> QED  BY Zenon, <2>1
<1>3. /\ hash \in Hash /\ Len(hash) = Len(chainHead.hash) + 1 /\ hash[Len(chainHead.hash) + 1] = x
      /\ SubSeq(hash, 1, Len(chainHead.hash)) = chainHead.hash
      /\ SubSeq(hash, 1, Len(chainHead.hash) + 1) = hash
      /\ \A i \in 0..Len(chainHead.hash) : SubSeq(hash, 1, i) = SubSeq(chainHead.hash, 1, i)
  BY Zenon, <1>0, <1>2, PrefixAppend
<1> HIDE DEF hash, x
<1>4. /\ chainHead'.id = id /\ chainHead'.hash = hash /\ chainHead' \in [id : 0..MaxRows, hash : Hash]
  BY Zenon, <1>1, <1>2, <1>3
<1>5. Ids' = Ids \cup {id} /\ DOMAIN rows' = Ids \cup {id}
  BY Zenon, <1>1 DEF Ids
<1>6. /\ rows'[id] = [c |-> c, prev |-> chainHead.hash, hash |-> hash]
      /\ \A i \in Ids : i # id => rows'[i] = rows[i]
  BY Zenon, <1>1
<1>7. rows'[id].prev = chainHead.hash /\ rows'[id].hash = hash
  BY <1>6
<1>8. Shape'
  <2>1. rows' \in [Ids \cup {id} -> [c : Content, prev : Hash, hash : Hash]]
    <3>1. [c |-> c, prev |-> chainHead.hash, hash |-> hash] \in [c : Content, prev : Hash, hash : Hash]
      BY Zenon, <1>0, <1>3
    <3> QED  BY Zenon, <1>0, <1>1, <3>1
  <2>2. Ids' \subseteq 1..MaxRows
    BY Zenon, <1>0, <1>2, <1>5
  <2> QED  BY Zenon, <1>0, <1>1, <1>4, <1>5, <2>1, <2>2 DEF Shape, Signed
<1>9. Written'
  <2>1. \A i \in Ids' : rows'[i].hash \in genuine'
    BY Zenon, <1>0, <1>1, <1>5, <1>6, <1>7 DEF Written
  <2>2. \A e : Sound(e) => Sound(e)'
    BY Zenon, <1>1 DEF Sound
  <2>3. /\ \A p \in Proc : walk'[p].hash \in genuine' /\ \A e \in walk'[p].batch : Sound(e)'
        /\ \A e \in exported' : Sound(e)'
    BY Zenon, <1>0, <1>1, <2>2 DEF Written
  <2>4. Genesis \in genuine' /\ chainHead'.hash \in genuine' /\ \A a \in Signed' : anchors'[a] \in genuine'
    BY Zenon, <1>0, <1>1, <1>4 DEF Written, Signed
  <2> QED  BY Zenon, <2>1, <2>3, <2>4 DEF Written
<1>10. ASSUME NoRestore'
       PROVE  /\ OneHistory /\ Coverage /\ Len(chainHead.hash) = chainHead.id
              /\ \A i \in 0..chainHead.id : Prefix(i)' = Prefix(i)
              /\ chainHead'.hash = Prefix(id)' /\ chainHead.hash = Prefix(m)'
  <2>1. OneHistory /\ Coverage
    BY Zenon, <1>1, <1>10 DEF MonitorInv, NoRestore
  <2>2. Len(chainHead.hash) = chainHead.id
    BY Zenon, <2>1 DEF OneHistory
  <2>3. \A i \in 0..chainHead.id : Prefix(i)' = Prefix(i)
    BY Zenon, <1>3, <1>4, <2>2 DEF Prefix
  <2>4. id = Len(chainHead.hash) + 1 /\ m = Len(chainHead.hash)
    BY Zenon, <1>m, <2>2
  <2>5. chainHead'.hash = Prefix(id)' /\ chainHead.hash = Prefix(m)'
    BY Zenon, <1>3, <1>4, <2>4 DEF Prefix
  <2> QED  BY Zenon, <2>1, <2>2, <2>3, <2>5
<1>n. \A i \in 0..MaxRows : i <= chainHead.id => i \in 0..chainHead.id /\ i <= id
  BY <1>0, <1>m
<1>11. ASSUME NoRestore' PROVE OneHistory'
  <2>1. Len(chainHead'.hash) = chainHead'.id
    BY Zenon, <1>m, <1>3, <1>4, <1>10, <1>11
  <2>2. ASSUME NEW i \in Ids'
        PROVE  i <= chainHead'.id /\ rows'[i].hash = Prefix(i)' /\ rows'[i].prev = Prefix(i - 1)'
    <3>1. CASE i = id
      <4>1. i <= id /\ i - 1 = m
        BY <1>0, <1>m, <3>1
      <4>2. Prefix(i - 1)' = chainHead.hash
        BY Zenon, <1>10, <1>11, <4>1
      <4> QED  BY Zenon, <1>4, <1>7, <1>10, <1>11, <3>1, <4>1, <4>2
    <3>2. CASE i \in Ids /\ i # id
      <4>1. i <= chainHead.id /\ rows[i].hash = Prefix(i) /\ rows[i].prev = Prefix(i - 1)
        BY Zenon, <1>10, <1>11, <3>2 DEF OneHistory
      <4>2. i \in 0..chainHead.id /\ i - 1 \in 0..chainHead.id /\ i <= id
        BY <1>0, <1>m, <3>2, <4>1
      <4> QED  BY Zenon, <1>4, <1>6, <1>10, <1>11, <3>2, <4>1, <4>2
    <3> QED  BY Zenon, <1>5, <2>2, <3>1, <3>2
  <2>3. ASSUME NEW p \in Proc
        PROVE  /\ walk'[p].id <= chainHead'.id /\ walk'[p].hash = Prefix(walk[p].id)'
               /\ \A e \in walk'[p].batch : e.id <= chainHead'.id /\ e.hash = Prefix(e.id)'
    <3>1. walk[p] \in Locals
      BY Zenon, <1>0 DEF Shape
    <3>2. walk[p].id \in 0..MaxRows /\ \A e \in walk[p].batch : e.id \in 0..MaxRows
      <4>1. \A e \in walk[p].batch : e.id \in 1..MaxRows
        BY Zenon, <3>1 DEF Locals, Shipment
      <4>2. 1..MaxRows \subseteq 0..MaxRows
        BY <1>0
      <4> QED  BY Zenon, <3>1, <4>1, <4>2 DEF Locals
    <3>3. /\ walk[p].id <= chainHead.id /\ walk[p].hash = Prefix(walk[p].id)
          /\ \A e \in walk[p].batch : e.id <= chainHead.id /\ e.hash = Prefix(e.id)
      BY Zenon, <1>10, <1>11 DEF OneHistory
    <3>4. walk'[p].id <= chainHead'.id /\ walk'[p].hash = Prefix(walk[p].id)'
      BY Zenon, <1>1, <1>4, <1>10, <1>11, <1>n, <3>2, <3>3
    <3>5. ASSUME NEW e \in walk[p].batch PROVE e.id <= chainHead'.id /\ e.hash = Prefix(e.id)'
      BY Zenon, <1>4, <1>10, <1>11, <1>n, <3>2, <3>3, <3>5
    <3> QED  BY Zenon, <1>1, <3>4, <3>5
  <2>4. ASSUME NEW a \in Signed' PROVE a <= chainHead'.id /\ anchors'[a] = Prefix(a)'
    <3>1. a \in Signed /\ a \in 0..MaxRows
      BY Zenon, <1>0, <1>1, <2>4 DEF Signed, Shape
    <3>2. a <= chainHead.id /\ anchors[a] = Prefix(a)
      BY Zenon, <1>10, <1>11, <3>1 DEF OneHistory
    <3> QED  BY Zenon, <1>1, <1>4, <1>10, <1>11, <1>n, <3>1, <3>2
  <2> QED  BY Zenon, <2>1, <2>2, <2>3, <2>4 DEF OneHistory
<1>12. ASSUME NoRestore' PROVE Coverage'
  <2>1. \A i \in 0..MaxRows : i <= chainHead.id /\ Shipped(i) => Shipped(i)'
    BY Zenon, <1>1, <1>10, <1>12, <1>n DEF Shipped
  <2>2. ASSUME NEW n \in 0..MaxRows, n <= chainHead.id, NEW i \in 1..n
        PROVE  i \in 0..MaxRows /\ i <= chainHead.id
    BY <1>0, <2>2
  <2>3. \A p \in Proc : exp[p] \in 0..MaxRows /\ exp[p] <= chainHead.id
    <3>1. \A p \in Proc : exp[p] <= chainHead.id /\ exp[p] \in Nat
      BY Zenon, <1>0, <1>10, <1>12 DEF Coverage, Marked, Shape
    <3> QED  BY <1>0, <3>1
  <2>4. Marked'
    <3>1. \A p \in Proc : \A i \in 1..exp[p] : Shipped(i)'
      BY Zenon, <1>10, <1>12, <2>1, <2>2, <2>3 DEF Coverage, Marked, Covered
    <3> QED  BY Zenon, <1>1, <1>4, <1>n, <2>3, <3>1 DEF Marked, Covered
  <2>5. \A a \in Signed : a \in 0..MaxRows /\ a <= chainHead.id
    BY Zenon, <1>0, <1>10, <1>12 DEF OneHistory, Shape
  <2>6. Anchored'
    BY Zenon, <1>1, <1>10, <1>12, <2>1, <2>2, <2>5 DEF Coverage, Anchored, Covered, Signed
  <2>7. ASSUME NEW p \in Proc, NEW i \in 1..walk'[p].id
        PROVE  Shipped(i)' \/ (pc'[p] = "export" /\ \E e \in walk'[p].batch : e.id = i)
    <3>1. walk[p] \in Locals
      BY Zenon, <1>0 DEF Shape
    <3>2. walk[p].id \in 0..MaxRows /\ walk[p].id <= chainHead.id
      BY Zenon, <1>10, <1>12, <3>1 DEF OneHistory, Locals
    <3>3. i \in 1..walk[p].id
      BY Zenon, <1>1, <2>7
    <3>4. Shipped(i) \/ (pc[p] = "export" /\ \E e \in walk[p].batch : e.id = i)
      BY Zenon, <1>10, <1>12, <3>3 DEF Coverage, Walked
    <3> QED  BY Zenon, <1>1, <2>1, <2>2, <3>2, <3>3, <3>4
  <2>8. Paged'
    BY Zenon, <1>1, <1>10, <1>12 DEF Coverage, Paged
  <2>9. Walked'
    BY Zenon, <2>7 DEF Walked
  <2> QED  BY Zenon, <2>4, <2>6, <2>8, <2>9 DEF Coverage
<1> QED  BY Zenon, <1>8, <1>9, <1>11, <1>12 DEF MonitorInv

\* One more out-of-band change.
LEMMA ChangeRecorded ==
  ASSUME Shape, NEW kind \in {"edit", "delete", "restore"}, changes' = Append(changes, kind)
  PROVE  /\ changes' \in Seq({"edit", "delete", "restore"})
         /\ NoRestore' => NoRestore
         /\ kind = "restore" => ~NoRestore'
<1>1. changes \in Seq({"edit", "delete", "restore"})
  BY Zenon DEF Shape
<1>2. /\ changes' \in Seq({"edit", "delete", "restore"}) /\ Len(changes) \in Nat
      /\ DOMAIN changes = 1..Len(changes) /\ DOMAIN changes' = 1..(Len(changes) + 1)
      /\ changes'[Len(changes) + 1] = kind
      /\ \A i \in 1..Len(changes) : changes'[i] = changes[i]
  BY <1>1
<1>3. 1..Len(changes) \subseteq 1..(Len(changes) + 1) /\ Len(changes) + 1 \in 1..(Len(changes) + 1)
  BY <1>2
<1>4. Range(changes) \subseteq Range(changes') /\ kind \in Range(changes')
  BY Zenon, <1>2, <1>3 DEF Range
<1> QED  BY Zenon, <1>2, <1>4 DEF NoRestore

\* A change of rows that leaves the hashes of the ones that remain.
LEMMA TamperInv ==
  ASSUME MonitorInv, Ids' \subseteq Ids, rows' \in [Ids' -> [c : Content, prev : Hash, hash : Hash]],
         \A i \in Ids' : rows'[i].hash = rows[i].hash /\ rows'[i].prev = rows[i].prev,
         changes' \in Seq({"edit", "delete", "restore"}), NoRestore' => NoRestore,
         UNCHANGED <<chainHead, genuine, anchors, exported, pc, walk, exp>>
  PROVE  MonitorInv'
<1>1. Shape /\ Written
  BY Zenon DEF MonitorInv
<1>2. Shape'
  BY Zenon, <1>1 DEF Shape, Signed
<1>3. Written'
  BY Zenon, <1>1 DEF Written, Sound, Signed
<1>4. ASSUME NoRestore' PROVE OneHistory' /\ Coverage'
  <2>1. OneHistory /\ Coverage
    BY Zenon, <1>4 DEF MonitorInv
  <2>2. OneHistory'
    BY Zenon, <2>1 DEF OneHistory, Prefix, Signed
  <2>3. Coverage'
    <3>1. \A i : Shipped(i)' <=> Shipped(i)
      BY Zenon DEF Shipped, Prefix
    <3>2. Marked' /\ Anchored'
      BY Zenon, <2>1, <3>1 DEF Coverage, Marked, Anchored, Covered, Signed
    <3>3. Walked' /\ Paged'
      BY Zenon, <2>1, <3>1 DEF Coverage, Walked, Paged
    <3> QED  BY Zenon, <3>2, <3>3 DEF Coverage
  <2> QED  BY Zenon, <2>2, <2>3
<1> QED  BY Zenon, <1>2, <1>3, <1>4 DEF MonitorInv

LEMMA EditInv ==
  ASSUME MonitorInv, NEW i \in Ids, NEW c \in Content, EditRow(i, c)
  PROVE  MonitorInv'
<1>1. Shape /\ rows \in [Ids -> [c : Content, prev : Hash, hash : Hash]]
  BY Zenon DEF MonitorInv, Shape
<1>2. /\ rows' = [rows EXCEPT ![i].c = c] /\ changes' = Append(changes, "edit")
      /\ UNCHANGED <<chainHead, genuine, anchors, exported, pc, walk, exp>>
  BY Zenon DEF EditRow, Changed, storeVars
<1>3. /\ Ids' = Ids /\ rows' \in [Ids -> [c : Content, prev : Hash, hash : Hash]]
      /\ \A j \in Ids : rows'[j].hash = rows[j].hash /\ rows'[j].prev = rows[j].prev
  BY <1>1, <1>2 DEF Ids
<1>4. changes' \in Seq({"edit", "delete", "restore"}) /\ (NoRestore' => NoRestore)
  BY Zenon, <1>1, <1>2, ChangeRecorded
<1> QED  BY Zenon, <1>2, <1>3, <1>4, TamperInv

LEMMA DeleteInv ==
  ASSUME MonitorInv, NEW i \in Ids, DeleteRow(i)
  PROVE  MonitorInv'
<1>1. Shape /\ rows \in [Ids -> [c : Content, prev : Hash, hash : Hash]]
  BY Zenon DEF MonitorInv, Shape
<1>2. /\ rows' = [j \in Ids \ {i} |-> rows[j]] /\ changes' = Append(changes, "delete")
      /\ UNCHANGED <<chainHead, genuine, anchors, exported, pc, walk, exp>>
  BY Zenon DEF DeleteRow, Changed, storeVars
<1>3. Ids' = Ids \ {i}
  BY Zenon, <1>2 DEF Ids
<1>4. /\ rows' \in [Ids' -> [c : Content, prev : Hash, hash : Hash]]
      /\ \A j \in Ids' : rows'[j].hash = rows[j].hash /\ rows'[j].prev = rows[j].prev
  BY Zenon, <1>1, <1>2, <1>3
<1>5. changes' \in Seq({"edit", "delete", "restore"}) /\ (NoRestore' => NoRestore)
  BY Zenon, <1>1, <1>2, ChangeRecorded
<1>6. Ids' \subseteq Ids
  BY Zenon, <1>3
<1> QED  BY Zenon, <1>2, <1>4, <1>5, <1>6, TamperInv

\* After a restore the head of the chain is again one that the control plane wrote.
LEMMA RestoreInv ==
  ASSUME MonitorInv, NEW k \in 0..MaxRows, RestoreBackup(k)
  PROVE  MonitorInv'
<1>0. /\ Shape /\ Written /\ rows \in [Ids -> [c : Content, prev : Hash, hash : Hash]]
      /\ MaxRows \in Nat /\ Genesis \in Hash /\ Ids \subseteq 1..MaxRows
  BY Zenon, Beginning DEF MonitorInv, Shape
<1>1. /\ rows' = [j \in 1..k |-> rows[j]] /\ 1..k \subseteq Ids /\ changes' = Append(changes, "restore")
      /\ chainHead' = [id |-> k, hash |-> IF k = 0 THEN Genesis ELSE rows[k].hash]
      /\ UNCHANGED <<genuine, anchors, exported, pc, walk, exp>>
  BY Zenon DEF RestoreBackup, Changed, storeVars
<1>2. k = 0 \/ k \in Ids
  <2>1. k = 0 \/ k \in 1..k
    BY <1>0
  <2> QED  BY Zenon, <1>1, <2>1
<1>3. PICK h : chainHead' = [id |-> k, hash |-> h] /\ h = (IF k = 0 THEN Genesis ELSE rows[k].hash)
  BY Zenon, <1>1
<1>4. h \in Hash /\ h \in genuine
  <2>1. \A i \in Ids : rows[i].hash \in Hash
    BY <1>0
  <2> QED  BY Zenon, <1>0, <1>2, <1>3, <2>1 DEF Written
<1>5. chainHead' \in [id : 0..MaxRows, hash : Hash] /\ chainHead'.hash = h
  BY Zenon, <1>3, <1>4
<1>6. Ids' = 1..k /\ rows' \in [1..k -> [c : Content, prev : Hash, hash : Hash]]
      /\ \A i \in 1..k : rows'[i] = rows[i]
  BY Zenon, <1>0, <1>1 DEF Ids
<1>7. changes' \in Seq({"edit", "delete", "restore"}) /\ ~NoRestore'
  BY Zenon, <1>0, <1>1, ChangeRecorded
<1>8. Shape'
  <2>1. Ids' \subseteq 1..MaxRows /\ rows' \in [Ids' -> [c : Content, prev : Hash, hash : Hash]]
    BY Zenon, <1>0, <1>1, <1>6
  <2> QED  BY Zenon, <1>0, <1>1, <1>5, <1>7, <2>1 DEF Shape, Signed
<1>9. Written'
  <2>1. \A i \in Ids' : rows'[i].hash \in genuine
    BY Zenon, <1>0, <1>1, <1>6 DEF Written
  <2> QED  BY Zenon, <1>0, <1>1, <1>4, <1>5, <2>1 DEF Written, Sound, Signed
<1> QED  BY Zenon, <1>7, <1>8, <1>9 DEF MonitorInv

-----------------------------------------------------------------------------
\* The steps that only move a process.

LEMMA Labels == /\ {"idle", "pin", "page", "getFinal", "putCheckpoint", "putFinal", "baseline",
                    "witness", "full", "diagnosed", "rechecked"} \subseteq Label \ {"export"}
                /\ "export" \in Label
  BY DEF Label

LEMMA QuietInv ==
  ASSUME MonitorInv, NEW p \in Proc, NEW l \in Label, NEW w \in Locals, Goto(p, l, w),
         l = "idle" \/ Admissible(w, l), UNCHANGED <<dbVars, anchors, exported, exp>>
  PROVE  MonitorInv'
<1>1. UNCHANGED <<rows, chainHead, genuine, anchors, exported, changes>> /\ exp' = exp
  BY Zenon DEF dbVars
<1>2. exp \in [Proc -> Nat]
  BY Zenon DEF MonitorInv, Shape
<1> QED  BY Zenon, <1>1, <1>2, MoveInv

\* A process that keeps its locals, or is done with them.
LEMMA StayInv ==
  ASSUME MonitorInv, NEW p \in Proc, NEW l \in Label \ {"export"}, Goto(p, l, walk[p]),
         l = "idle" \/ pc[p] # "export", UNCHANGED <<dbVars, anchors, exported, exp>>
  PROVE  MonitorInv'
<1>1. walk[p] \in Locals /\ l \in Label /\ l # "export"
  BY Zenon DEF MonitorInv, Shape
<1>2. l = "idle" \/ Admissible(walk[p], l)
  BY Zenon, <1>1, OwnAdmissible
<1> QED  BY Zenon, <1>1, <1>2, QuietInv

\* A process that starts afresh.
LEMMA FreshInv ==
  ASSUME MonitorInv, NEW p \in Proc, NEW l \in Label, UNCHANGED <<dbVars, anchors, exported, exp>>,
         \/ Goto(p, l, NoWalk)
         \/ \E c \in {"poll", "sign", "resume"} : Goto(p, l, [NoWalk EXCEPT !.cmd = c])
  PROVE  MonitorInv'
<1>1. /\ Admissible(NoWalk, l)
      /\ \A c \in {"poll", "sign", "resume"} : Admissible([NoWalk EXCEPT !.cmd = c], l)
  BY Zenon, StartAdmissible DEF MonitorInv
<1>2. CASE Goto(p, l, NoWalk)
  <2>1. NoWalk \in Locals
    BY Zenon, <1>1 DEF Admissible
  <2> QED  BY Zenon, <1>1, <1>2, <2>1, QuietInv
<1>3. ASSUME NEW c \in {"poll", "sign", "resume"}, Goto(p, l, [NoWalk EXCEPT !.cmd = c]) PROVE MonitorInv'
  <2>1. PICK w : w = [NoWalk EXCEPT !.cmd = c]
    BY Zenon
  <2>2. Admissible(w, l) /\ w \in Locals /\ Goto(p, l, w)
    BY Zenon, <1>1, <1>3, <2>1 DEF Admissible
  <2> QED  BY Zenon, <2>2, QuietInv
<1> QED  BY Zenon, <1>2, <1>3

LEMMA BaselineInv ==
  ASSUME MonitorInv, NEW p \in Proc, SelectBaseline(p)
  PROVE  MonitorInv'
<1>0. /\ Shape /\ Written /\ MaxRows \in Nat /\ walk[p] \in Locals
      /\ anchors \in [Signed -> Hash] /\ Signed \subseteq 0..MaxRows
  BY Zenon, Beginning DEF MonitorInv, Shape
<1>1. pc[p] = "baseline" /\ UNCHANGED <<dbVars, anchors, exported, exp>>
  BY Zenon DEF SelectBaseline, storeVars
<1>2. PICK V \in SUBSET Signed :
        IF V # {}
          THEN Goto(p, "pin", [walk[p] EXCEPT !.id = Max(V), !.hash = anchors[Max(V)], !.present = TRUE])
        ELSE Goto(p, IF Signed = {} THEN "pin" ELSE "idle", walk[p])
  BY Zenon DEF SelectBaseline
<1>3. CASE V = {}
  <2>1. PICK l \in Label \ {"export"} : Goto(p, l, walk[p])
    BY Zenon, <1>2, <1>3, Labels
  <2>2. pc[p] # "export"
    BY Zenon, <1>1
  <2> QED  BY Zenon, <1>1, <2>1, <2>2, StayInv
<1>4. CASE V # {}
  <2>1. PICK m \in V : m = Max(V)
    BY Zenon, <1>0, <1>4, GreatestOf
  <2>2. PICK w : w = [walk[p] EXCEPT !.id = m, !.hash = anchors[m], !.present = TRUE]
    BY Zenon
  <2>3. m \in Signed /\ m \in 0..MaxRows /\ anchors[m] \in Hash
    BY Zenon, <1>0, <2>1
  <2>4. w \in Locals /\ w.id = m /\ w.hash = anchors[m] /\ w.batch = walk[p].batch
    BY Zenon, <1>0, <2>2, <2>3 DEF Locals
  <2>5. Admissible(walk[p], "pin") /\ "pin" \in Label /\ "pin" # "export"
    BY Zenon, <1>1, OwnAdmissible, Labels
  <2>6. NoRestore => m <= chainHead.id /\ anchors[m] = Prefix(m) /\ \A i \in 1..m : Shipped(i)
    BY Zenon, <2>3 DEF MonitorInv, OneHistory, Coverage, Anchored, Covered
  <2>7. anchors[m] \in genuine
    BY Zenon, <1>0, <2>3 DEF Written
  <2>8. Admissible(w, "pin")
    BY Zenon, <2>4, <2>5, <2>6, <2>7 DEF Admissible
  <2>9. Goto(p, "pin", w)
    BY Zenon, <1>2, <1>4, <2>1, <2>2
  <2> QED  BY Zenon, <1>1, <2>4, <2>5, <2>8, <2>9, QuietInv
<1> QED  BY Zenon, <1>3, <1>4

LEMMA PinInv ==
  ASSUME MonitorInv, NEW p \in Proc, PinTarget(p)
  PROVE  MonitorInv'
<1>0. Shape /\ MaxRows \in Nat /\ walk[p] \in Locals /\ Ids \subseteq 1..MaxRows
  BY Zenon, Beginning DEF MonitorInv, Shape
<1>1. pc[p] = "pin" /\ UNCHANGED <<dbVars, anchors, exported, exp>>
  BY Zenon DEF PinTarget, storeVars
<1>2. MaxId \in 0..MaxRows
  <2>1. 1..MaxRows \subseteq 0..MaxRows /\ 0 \in 0..MaxRows
    BY <1>0
  <2>2. PICK S : S = Ids \cup {0}
    BY Zenon
  <2>3. S \subseteq 0..MaxRows /\ S # {}
    BY Zenon, <1>0, <2>1, <2>2
  <2>4. Max(S) \in S
    BY Zenon, <1>0, <2>3, GreatestOf
  <2> QED  BY Zenon, <2>2, <2>3, <2>4 DEF MaxId
<1>3. PICK w : w = [walk[p] EXCEPT !.target = MaxId]
  BY Zenon
<1>4. w \in Locals /\ w.id = walk[p].id /\ w.hash = walk[p].hash /\ w.batch = walk[p].batch
  BY Zenon, <1>0, <1>2, <1>3 DEF Locals
<1>5. Admissible(walk[p], "page") /\ "page" \in Label
  BY Zenon, <1>1, OwnAdmissible, Labels
<1>6. Admissible(w, "page")
  BY Zenon, <1>4, <1>5 DEF Admissible
<1>7. Goto(p, "page", w)
  BY Zenon, <1>3 DEF PinTarget
<1> QED  BY Zenon, <1>1, <1>4, <1>5, <1>6, <1>7, QuietInv

LEMMA PageInv ==
  ASSUME MonitorInv, NEW p \in Proc, ReadPage(p)
  PROVE  MonitorInv'
<1>1. PICK B : B = TailIds(walk[p].id)
  BY Zenon
<1>2. PICK page : page = {[id |-> i, c |-> rows[i].c, hash |-> rows[i].hash] : i \in B}
  BY Zenon
<1>3. PICK w : w = (IF B = {} THEN [walk[p] EXCEPT !.batch = {}]
                    ELSE [walk[p] EXCEPT !.batch = page, !.id = Max(B), !.hash = rows[Max(B)].hash])
  BY Zenon
<1>4. /\ pc[p] = "page" /\ UNCHANGED <<dbVars, anchors, exported, exp>>
      /\ Goto(p, IF VerifyTail(B, walk[p].hash) # NoFinding THEN "idle"
                 ELSE IF B = {} THEN AfterPage(w) ELSE "export", w)
  BY Zenon, <1>1, <1>2, <1>3 DEF ReadPage, storeVars
<1>5. CASE VerifyTail(B, walk[p].hash) # NoFinding
  <2>1. Goto(p, "idle", w)
    BY Zenon, <1>4, <1>5
  <2>2. Goto(p, "idle", walk[p]) /\ "idle" \in Label \ {"export"}
    BY Zenon, <2>1, Labels DEF Goto
  <2> QED  BY Zenon, <1>4, <2>2, StayInv
<1>6. CASE VerifyTail(B, walk[p].hash) = NoFinding /\ B # {}
  <2>1. Goto(p, "export", w) /\ w = [walk[p] EXCEPT !.batch = page, !.id = Max(B), !.hash = rows[Max(B)].hash]
    BY Zenon, <1>3, <1>4, <1>6
  <2>2. w \in Locals /\ Admissible(w, "export")
    BY Zenon, <1>1, <1>2, <1>4, <1>6, <2>1, PageAdmissible
  <2>3. "export" \in Label
    BY Zenon, Labels
  <2> QED  BY Zenon, <1>4, <2>1, <2>2, <2>3, QuietInv
<1>7. CASE VerifyTail(B, walk[p].hash) = NoFinding /\ B = {}
  <2>1. Goto(p, AfterPage(w), w) /\ w = [walk[p] EXCEPT !.batch = {}]
    BY Zenon, <1>3, <1>4, <1>7
  <2>2. PICK l \in Label \ {"export"} : l = AfterPage(w)
    BY Zenon, PageLabels, Labels
  <2>3. Admissible(walk[p], l)
    BY Zenon, <1>4, <2>2, OwnAdmissible
  <2>4. walk[p] \in Locals
    BY Zenon DEF MonitorInv, Shape
  <2>5. w \in Locals /\ w.id = walk[p].id /\ w.hash = walk[p].hash /\ w.batch = {}
    BY Zenon, <2>1, <2>4 DEF Locals
  <2>6. Admissible(w, l)
    BY Zenon, <2>2, <2>3, <2>5 DEF Admissible
  <2> QED  BY Zenon, <1>4, <2>1, <2>2, <2>5, <2>6, QuietInv
<1> QED  BY Zenon, <1>5, <1>6, <1>7

LEMMA GetInv ==
  ASSUME MonitorInv, NEW p \in Proc, GetAnchor(p)
  PROVE  MonitorInv'
<1>1. UNCHANGED <<dbVars, anchors, exported, exp>>
  BY Zenon DEF GetAnchor, storeVars
<1>2. PICK conflict \in BOOLEAN :
        \/ /\ pc[p] = "getCheckpoint"
           /\ Goto(p, IF conflict THEN AfterPage(walk[p]) ELSE "putCheckpoint", walk[p])
        \/ /\ pc[p] = "getFinal"
           /\ Goto(p, IF conflict THEN "idle" ELSE "putFinal", walk[p])
  BY Zenon DEF GetAnchor
<1>3. /\ (IF conflict THEN AfterPage(walk[p]) ELSE "putCheckpoint") \in Label \ {"export"}
      /\ (IF conflict THEN "idle" ELSE "putFinal") \in Label \ {"export"}
  BY Zenon, PageLabels, Labels
<1>4. pc[p] # "export" /\ \E l \in Label \ {"export"} : Goto(p, l, walk[p])
  BY Zenon, <1>2, <1>3
<1> QED  BY Zenon, <1>1, <1>4, StayInv

LEMMA WalkErrorInv ==
  ASSUME MonitorInv, NEW p \in Proc, WalkError(p)
  PROVE  MonitorInv'
<1>1. UNCHANGED <<dbVars, anchors, exported, exp>>
  BY Zenon DEF WalkError, storeVars
<1>2. AfterPage(walk[p]) \in Label \ {"export"} /\ "idle" \in Label \ {"export"}
  BY Zenon, PageLabels, Labels
<1>3. CASE Goto(p, "idle", walk[p])
  BY Zenon, <1>1, <1>2, <1>3, StayInv
<1>4. CASE pc[p] \in {"getCheckpoint", "putCheckpoint"} /\ Goto(p, AfterPage(walk[p]), walk[p])
  <2>1. pc[p] # "export"
    BY Zenon, <1>4
  <2> QED  BY Zenon, <1>1, <1>2, <1>4, <2>1, StayInv
<1> QED  BY Zenon, <1>3, <1>4 DEF WalkError

\* The daemon's loop and the operator's command.
LEMMA ControlInv ==
  ASSUME MonitorInv,
         \/ Tick("poll") \/ Tick("sign") \/ FullTick \/ ReadWitnesses \/ FullVerify \/ FullVerifyError
         \/ Crash \/ OpDiagnose \/ OpRecheck \/ OpAccept \/ OpError
  PROVE  MonitorInv'
<1>0. Daemon \in Proc /\ Op \in Proc
  BY Zenon DEF Daemon, Op, Proc
<1>l. {"idle", "baseline", "witness", "full", "diagnosed", "rechecked"} \subseteq Label
  BY Zenon, Labels
<1>1. ASSUME NEW cmd \in {"poll", "sign"}, Tick(cmd) PROVE MonitorInv'
  <2>1. Goto(Daemon, "baseline", [NoWalk EXCEPT !.cmd = cmd]) /\ UNCHANGED <<dbVars, anchors, exported, exp>>
    BY Zenon, <1>1 DEF Tick, StartWalk, storeVars
  <2> QED  BY Zenon, <1>0, <1>l, <2>1, FreshInv
<1>2. ASSUME FullTick \/ ReadWitnesses PROVE MonitorInv'
  <2>1. \E l \in {"witness", "full"} : Goto(Daemon, l, NoWalk) /\ UNCHANGED <<dbVars, anchors, exported, exp>>
    BY Zenon, <1>2 DEF FullTick, ReadWitnesses, storeVars
  <2> QED  BY Zenon, <1>0, <1>l, <2>1, FreshInv
<1>3. ASSUME FullVerify \/ FullVerifyError PROVE MonitorInv'
  <2>1. \E h : LeaveFull(h) /\ UNCHANGED <<dbVars, anchors, exported, exp>>
    BY Zenon, <1>3 DEF FullVerify, FullVerifyError, storeVars
  <2>2. PICK h : LeaveFull(h) /\ UNCHANGED <<dbVars, anchors, exported, exp>>
    BY Zenon, <2>1
  <2>3. CASE Goto(Daemon, "idle", NoWalk)
    BY Zenon, <1>0, <1>l, <2>2, <2>3, FreshInv
  <2>4. CASE Goto(Daemon, "baseline", [NoWalk EXCEPT !.cmd = "poll"])
    BY Zenon, <1>0, <1>l, <2>2, <2>4, FreshInv
  <2> QED  BY Zenon, <2>2, <2>3, <2>4 DEF LeaveFull, StartWalk
<1>4. ASSUME NEW p \in Proc, NEW l \in Label, Goto(p, l, NoWalk), exp' = [exp EXCEPT ![p] = 0],
             UNCHANGED <<dbVars, anchors, exported>>
      PROVE  MonitorInv'
  <2>1. Shape /\ Written /\ exp \in [Proc -> Nat]
    BY Zenon DEF MonitorInv, Shape
  <2>2. 0 \in Nat
    OBVIOUS
  <2>3. exp' \in [Proc -> Nat] /\ \A x \in Proc : exp'[x] = exp[x] \/ exp'[x] = 0
    BY Zenon, <1>4, <2>1, <2>2
  <2>4. NoWalk \in Locals /\ Admissible(NoWalk, l)
    BY Zenon, <2>1, StartAdmissible DEF Admissible
  <2>5. UNCHANGED <<rows, chainHead, genuine, anchors, exported, changes>>
    BY Zenon, <1>4 DEF dbVars
  <2> QED  BY Zenon, <1>4, <2>3, <2>4, <2>5, MoveInv
<1>5. ASSUME Crash PROVE MonitorInv'
  <2>1. /\ Goto(Daemon, "witness", NoWalk) /\ exp' = [exp EXCEPT ![Daemon] = 0]
        /\ UNCHANGED <<dbVars, anchors, exported>>
    BY Zenon, <1>5 DEF Crash, storeVars
  <2> QED  BY Zenon, <1>0, <1>l, <1>4, <2>1
<1>6. ASSUME OpDiagnose PROVE MonitorInv'
  <2>1. /\ Goto(Op, "diagnosed", NoWalk) /\ exp' = [exp EXCEPT ![Op] = 0]
        /\ UNCHANGED <<dbVars, anchors, exported>>
    BY Zenon, <1>6 DEF OpDiagnose, storeVars
  <2> QED  BY Zenon, <1>0, <1>l, <1>4, <2>1
<1>7. ASSUME OpRecheck \/ OpError PROVE MonitorInv'
  <2>1. UNCHANGED <<dbVars, anchors, exported, exp>>
    BY Zenon, <1>7 DEF OpRecheck, OpError, storeVars
  <2>2. \E l \in {"idle", "rechecked"} : Goto(Op, l, NoWalk)
    BY Zenon, <1>7 DEF OpRecheck, OpError
  <2> QED  BY Zenon, <1>0, <1>l, <2>1, <2>2, FreshInv
<1>8. ASSUME OpAccept PROVE MonitorInv'
  <2>1. Goto(Op, "baseline", [NoWalk EXCEPT !.cmd = "resume"]) /\ UNCHANGED <<dbVars, anchors, exported, exp>>
    BY Zenon, <1>8 DEF OpAccept, StartWalk
  <2> QED  BY Zenon, <1>0, <1>l, <2>1, FreshInv
<1> QED  BY Zenon, <1>1, <1>2, <1>3, <1>5, <1>6, <1>7, <1>8

LEMMA MonitorStep ==
  ASSUME MonitorInv, [Next]_vars
  PROVE  MonitorInv'
<1>1. CASE Table
  BY Zenon, <1>1, AppendInv, EditInv, DeleteInv, RestoreInv DEF Table
<1>2. ASSUME NEW p \in Proc, Walk(p) \/ WalkError(p) PROVE MonitorInv'
  BY Zenon, <1>2, BaselineInv, PinInv, PageInv, ExportInv, GetInv, PutInv, WalkErrorInv DEF Walk
<1>3. CASE \/ Tick("poll") \/ Tick("sign") \/ FullTick \/ ReadWitnesses \/ FullVerify \/ FullVerifyError
           \/ Crash \/ OpDiagnose \/ OpRecheck \/ OpAccept \/ OpError
  BY Zenon, <1>3, ControlInv
<1>4. CASE UNCHANGED vars
  <2>1. UNCHANGED <<rows, chainHead, genuine, anchors, exported, changes, pc, walk, exp>>
    BY Zenon, <1>4 DEF vars, dbVars, storeVars
  <2>2. Shape' /\ Written'
    BY Zenon, <2>1 DEF MonitorInv, Shape, Written, Sound, Ids, Signed
  <2>3. ASSUME NoRestore' PROVE OneHistory' /\ Coverage'
    <3>1. OneHistory /\ Coverage
      BY Zenon, <2>1, <2>3 DEF MonitorInv, NoRestore
    <3>2. OneHistory'
      BY Zenon, <2>1, <3>1 DEF OneHistory, Prefix, Ids, Signed
    <3>3. Coverage'
      BY Zenon, <2>1, <3>1 DEF Coverage, Marked, Anchored, Walked, Paged, Covered, Shipped, Prefix, Signed
    <3> QED  BY Zenon, <3>2, <3>3
  <2> QED  BY Zenon, <2>2, <2>3 DEF MonitorInv
<1> QED  BY Zenon, <1>1, <1>2, <1>3, <1>4 DEF Next

LEMMA MonitorInit ==
  ASSUME Init
  PROVE  MonitorInv
<1>0. MaxRows \in Nat /\ 1..0 = {} /\ 0 \in 0..MaxRows /\ 0 \in Nat /\ Len(<<>>) = 0 /\ 0 <= 0
  BY BoundsNat
<1>1. DOMAIN <<>> = {} /\ \A S : <<>> \in [{} -> S]
  OBVIOUS
<1>2. /\ rows = <<>> /\ chainHead = [id |-> 0, hash |-> Genesis] /\ genuine = {Genesis} /\ anchors = <<>>
      /\ exported = {} /\ walk = [p \in Proc |-> NoWalk] /\ exp = [p \in Proc |-> 0] /\ changes = <<>>
      /\ pc = [p \in Proc |-> IF p = "daemon" THEN "witness" ELSE "idle"]
  BY Zenon DEF Init
<1>3. Ids = {} /\ Signed = {}
  BY Zenon, <1>1, <1>2 DEF Ids, Signed
<1>4. Genesis \in Hash /\ Genesis = <<>>
  BY DEF Genesis, Hash
<1>5. chainHead.id = 0 /\ chainHead.hash = Genesis /\ chainHead \in [id : 0..MaxRows, hash : Hash]
  BY Zenon, <1>0, <1>2, <1>4
<1>6. /\ NoWalk \in Locals /\ \A p \in Proc : walk[p] = NoWalk /\ exp[p] = 0 /\ pc[p] # "export"
      /\ NoWalk.id = 0 /\ NoWalk.hash = Genesis /\ NoWalk.batch = {}
  BY Zenon, <1>0, <1>2, <1>4, NoWalkFields
<1>7. Shape
  <2>1. pc \in [Proc -> Label]
    BY Zenon, <1>2, Labels
  <2>2. changes \in Seq({"edit", "delete", "restore"})
    BY <1>2
  <2>3. walk \in [Proc -> Locals] /\ exp \in [Proc -> Nat]
    BY Zenon, <1>0, <1>2, <1>6
  <2>4. rows \in [Ids -> [c : Content, prev : Hash, hash : Hash]] /\ anchors \in [Signed -> Hash]
    BY Zenon, <1>1, <1>2, <1>3
  <2> QED  BY Zenon, <1>2, <1>3, <1>5, <2>1, <2>2, <2>3, <2>4 DEF Shape
<1>8. Written
  BY Zenon, <1>2, <1>3, <1>5, <1>6 DEF Written
<1>9. Prefix(0) = Genesis
  BY Zenon, <1>7, Beginning
<1>10. OneHistory
  BY Zenon, <1>0, <1>3, <1>4, <1>5, <1>6, <1>9 DEF OneHistory
<1>11. Coverage
  BY Zenon, <1>0, <1>3, <1>5, <1>6 DEF Coverage, Marked, Anchored, Walked, Paged, Covered
<1> QED  BY Zenon, <1>7, <1>8, <1>10, <1>11 DEF MonitorInv

-----------------------------------------------------------------------------
\* The theorems.

\* The invariant: every hash in the table, in the memory of either process and under the anchors was
\* written by the control plane and, unless a backup was restored, lies on one history that is shipped
\* up to every watermark, verified head and anchor.
THEOREM MonitorInvariant == Spec => []MonitorInv
BY MonitorInit, MonitorStep, PTL DEF Spec

\* processFreshMode before WriteAnchor: an event is exported before an anchor of either process covers
\* it, in the version that the anchor witnesses, unless a backup was restored under them.
THEOREM ExportComesFirst == Spec => []ExportPrecedesAnchor
<1>1. MonitorInv => ExportPrecedesAnchor
  <2> SUFFICES ASSUME MonitorInv, NoRestore PROVE AnchoredRowsExported
    BY Zenon DEF ExportPrecedesAnchor, NoRestore
  <2>1. /\ Shape /\ OneHistory /\ Coverage /\ MaxRows \in Nat /\ chainHead.hash \in Hash
        /\ chainHead.id \in 0..MaxRows
    BY Zenon, Beginning DEF MonitorInv
  <2>2. ASSUME NEW a \in Signed
        PROVE  /\ Len(anchors[a]) = a
               /\ \A i \in 1..a : \E e \in exported : e.id = i /\ e.hash = SubSeq(anchors[a], 1, i)
    <3>1. a \in 0..MaxRows /\ a <= chainHead.id /\ anchors[a] = Prefix(a) /\ Covered(a)
      BY Zenon, <2>1 DEF Shape, OneHistory, Coverage, Anchored
    <3>2. a \in 0..chainHead.id /\ Len(chainHead.hash) = chainHead.id
      <4>1. Len(chainHead.hash) = chainHead.id
        BY Zenon, <2>1 DEF OneHistory
      <4>2. a \in 0..chainHead.id
        BY <2>1, <3>1
      <4> QED  BY Zenon, <4>1, <4>2
    <3>3. Len(anchors[a]) = a
      BY Zenon, <2>1, <3>1, <3>2, PrefixLength DEF Prefix
    <3>4. ASSUME NEW i \in 1..a PROVE SubSeq(anchors[a], 1, i) = Prefix(i)
      <4>1. chainHead.hash \in Seq(Nat \X Content) /\ a <= Len(chainHead.hash) /\ a \in Nat /\ i \in Nat
            /\ i <= a
        BY <2>1, <3>1, <3>2 DEF Hash
      <4>2. SubSeq(SubSeq(chainHead.hash, 1, a), 1, i) = SubSeq(chainHead.hash, 1, i)
        BY <4>1, <3>4
      <4> QED  BY Zenon, <3>1, <4>2 DEF Prefix
    <3>5. ASSUME NEW i \in 1..a PROVE \E e \in exported : e.id = i /\ e.hash = SubSeq(anchors[a], 1, i)
      <4>1. PICK e \in exported : e.id = i /\ e.hash = Prefix(i)
        BY Zenon, <3>1 DEF Covered, Shipped
      <4>2. SubSeq(anchors[a], 1, i) = Prefix(i)
        BY Zenon, <3>4
      <4> QED  BY Zenon, <4>1, <4>2
    <3> QED  BY Zenon, <3>3, <3>5
  <2> QED  BY Zenon, <2>2 DEF AnchoredRowsExported
<1> QED  BY <1>1, MonitorInvariant, PTL

\* VerifyTail before the export and the anchor: what the monitor signs and ships was written by the
\* control plane, row by row with the content it gave, whatever changes the table between its reads.
THEOREM OnlyGenuineIsWitnessed == Spec => []WitnessIsGenuine
<1>1. MonitorInv => WitnessIsGenuine
  BY Zenon DEF MonitorInv, Written, Sound, WitnessIsGenuine
<1> QED  BY <1>1, MonitorInvariant, PTL

\* The steps that neither write an anchor nor come from GetAnchor leave the daemon where it will not
\* write, or where it was.
LEMMA SingleKept ==
  ASSUME Single, anchors' = anchors, accepted' = accepted,
         accepted = {} => pc'[Op] \in {"idle", "diagnosed", "rechecked"},
         \/ pc'[Daemon] \notin {"putCheckpoint", "putFinal"}
         \/ pc'[Daemon] = pc[Daemon] /\ walk'[Daemon] = walk[Daemon]
  PROVE  Single'
  BY Zenon DEF Single, Signed

\* Before the first acceptance the daemon alone writes, and only over its own head.
LEMMA SingleStep ==
  ASSUME Shape, Single, [Next]_vars
  PROVE  /\ Single'
         /\ accepted = {} => \A a \in Signed : a \in Signed' /\ anchors'[a] = anchors[a]
<1> DEFINE Kept == accepted = {} => \A a \in Signed : a \in Signed' /\ anchors'[a] = anchors[a]
           Quiet == {"idle", "diagnosed", "rechecked"}
           Writes == {"putCheckpoint", "putFinal"}
           Calm == {"idle", "baseline", "pin", "page", "export", "getCheckpoint", "getFinal", "witness", "full"}
<1>0. /\ Daemon \in Proc /\ Op \in Proc /\ Daemon # Op /\ Proc = {Daemon, Op} /\ pc \in [Proc -> Label]
      /\ walk \in [Proc -> Locals]
  BY Zenon DEF Daemon, Op, Proc, Shape
<1>k. anchors' = anchors => Kept
  BY Zenon DEF Signed
<1>g. ASSUME NEW p \in Proc, NEW l, NEW w, Goto(p, l, w)
      PROVE  pc'[p] = l /\ (l # "idle" => walk'[p] = w)
             /\ \A x \in Proc : x # p => pc'[x] = pc[x] /\ walk'[x] = walk[x]
  BY Zenon, <1>0, <1>g DEF Goto
<1>c. \A l \in Calm : l \notin Writes
  OBVIOUS
<1>1. ASSUME UNCHANGED <<anchors, accepted, pc, walk>> PROVE Single' /\ Kept
  BY Zenon, <1>1, <1>k DEF Single, Signed
<1>2. ASSUME NEW l \in Calm, NEW w, Goto(Daemon, l, w), UNCHANGED <<anchors, accepted>>
      PROVE  Single' /\ Kept
  <2>1. pc'[Daemon] = l /\ pc'[Op] = pc[Op]
    BY Zenon, <1>0, <1>2, <1>g
  <2>2. Single'
    BY Zenon, <1>2, <1>c, <2>1, SingleKept DEF Single
  <2> QED  BY Zenon, <1>2, <1>k, <2>2
<1>3. ASSUME NEW l \in Quiet, NEW w, Goto(Op, l, w), UNCHANGED <<anchors, accepted>>
      PROVE  Single' /\ Kept
  <2>1. pc'[Op] = l /\ pc'[Daemon] = pc[Daemon] /\ walk'[Daemon] = walk[Daemon]
    BY Zenon, <1>0, <1>3, <1>g
  <2>2. Single'
    BY Zenon, <1>3, <2>1, SingleKept
  <2> QED  BY Zenon, <1>3, <1>k, <2>2
<1>a. \A w : AfterPage(w) \in Calm
  BY Zenon, PageLabels
<1>4. CASE Table
  <2>1. UNCHANGED <<anchors, accepted, pc, walk>>
    BY Zenon, <1>4 DEF Table, AppendEvent, EditRow, DeleteRow, RestoreBackup, Changed, storeVars
  <2> QED  BY Zenon, <1>1, <2>1
<1>5. ASSUME Walk(Op) \/ WalkError(Op) PROVE Single' /\ Kept
  <2>1. pc[Op] \notin Quiet
    BY Zenon, <1>5 DEF Walk, WalkError, SelectBaseline, PinTarget, ReadPage, ExportBatch, GetAnchor, PutAnchor
  <2>2. accepted # {}
    BY Zenon, <2>1 DEF Single
  <2>3. accepted' = accepted
    BY Zenon, <1>5 DEF Walk, WalkError, SelectBaseline, PinTarget, ReadPage, ExportBatch, GetAnchor,
       PutAnchor, storeVars
  <2> QED  BY Zenon, <2>2, <2>3 DEF Single
<1>6. ASSUME SelectBaseline(Daemon) \/ PinTarget(Daemon) \/ ReadPage(Daemon) \/ ExportBatch(Daemon)
             \/ WalkError(Daemon)
      PROVE  Single' /\ Kept
  <2>1. UNCHANGED <<anchors, accepted>>
    BY Zenon, <1>6 DEF WalkError, SelectBaseline, PinTarget, ReadPage, ExportBatch, storeVars
  <2>2. \E l \in Calm : \E w : Goto(Daemon, l, w)
    <3>1. CASE SelectBaseline(Daemon)
      BY Zenon, <3>1 DEF SelectBaseline
    <3>2. CASE PinTarget(Daemon)
      BY Zenon, <3>2 DEF PinTarget
    <3>3. CASE ReadPage(Daemon)
      BY Zenon, <3>3, <1>a DEF ReadPage
    <3>4. CASE ExportBatch(Daemon)
      BY Zenon, <3>4, <1>a DEF ExportBatch
    <3>5. CASE WalkError(Daemon)
      BY Zenon, <3>5, <1>a DEF WalkError
    <3> QED  BY Zenon, <1>6, <3>1, <3>2, <3>3, <3>4, <3>5
  <2> QED  BY Zenon, <1>2, <2>1, <2>2
<1>7. ASSUME GetAnchor(Daemon) PROVE Single' /\ Kept
  <2>1. UNCHANGED <<anchors, accepted>>
    BY Zenon, <1>7 DEF GetAnchor, storeVars
  <2>2. CASE walk[Daemon].id \in Signed /\ anchors[walk[Daemon].id] # walk[Daemon].hash
    <3>1. \E l \in Calm : \E w : Goto(Daemon, l, w)
      BY Zenon, <1>7, <1>a, <2>2 DEF GetAnchor
    <3> QED  BY Zenon, <1>2, <2>1, <3>1
  <2>3. CASE ~(walk[Daemon].id \in Signed /\ anchors[walk[Daemon].id] # walk[Daemon].hash)
    <3>1. PICK l \in Writes : Goto(Daemon, l, walk[Daemon])
      BY Zenon, <1>7, <2>3 DEF GetAnchor
    <3>2. walk'[Daemon] = walk[Daemon] /\ pc'[Op] = pc[Op]
      BY Zenon, <1>0, <1>g, <3>1
    <3>3. Single'
      BY Zenon, <2>1, <2>3, <3>2 DEF Single, Signed
    <3> QED  BY Zenon, <1>k, <2>1, <3>3
  <2> QED  BY Zenon, <2>2, <2>3
<1>8. ASSUME PutAnchor(Daemon) PROVE Single' /\ Kept
  <2>1. /\ pc[Daemon] \in Writes /\ accepted' = accepted
        /\ anchors' = [i \in Signed \cup {walk[Daemon].id} |->
                         IF i = walk[Daemon].id THEN walk[Daemon].hash ELSE anchors[i]]
    BY Zenon, <1>8 DEF PutAnchor
  <2>2. \E l \in Calm : \E w : Goto(Daemon, l, w)
    BY Zenon, <1>8, <1>a DEF PutAnchor
  <2>3. pc'[Daemon] \notin Writes /\ pc'[Op] = pc[Op]
    BY Zenon, <1>0, <1>c, <1>g, <2>2
  <2>4. Single'
    BY Zenon, <2>1, <2>3 DEF Single
  <2>5. Signed' = Signed \cup {walk[Daemon].id}
    BY Zenon, <2>1 DEF Signed
  <2>6. Kept
    BY Zenon, <2>1, <2>5 DEF Single
  <2> QED  BY Zenon, <2>4, <2>6
<1>9. CASE \/ Tick("poll") \/ Tick("sign") \/ FullTick \/ ReadWitnesses \/ FullVerify \/ FullVerifyError
           \/ Crash
  <2>1. UNCHANGED <<anchors, accepted>>
    BY Zenon, <1>9 DEF Tick, FullTick, ReadWitnesses, FullVerify, FullVerifyError, Crash, storeVars
  <2>2. \E l \in Calm : \E w : Goto(Daemon, l, w)
    BY Zenon, <1>9 DEF Tick, FullTick, ReadWitnesses, FullVerify, FullVerifyError, Crash, LeaveFull, StartWalk
  <2> QED  BY Zenon, <1>2, <2>1, <2>2
<1>10. CASE OpDiagnose \/ OpRecheck \/ OpError
  <2>1. UNCHANGED <<anchors, accepted>>
    BY Zenon, <1>10 DEF OpDiagnose, OpRecheck, OpError, storeVars
  <2>2. \E l \in Quiet : \E w : Goto(Op, l, w)
    BY Zenon, <1>10 DEF OpDiagnose, OpRecheck, OpError
  <2> QED  BY Zenon, <1>3, <2>1, <2>2
<1>11. CASE OpAccept
  <2>1. anchors' = anchors /\ accepted' # {}
    BY Zenon, <1>11 DEF OpAccept
  <2> QED  BY Zenon, <1>k, <2>1 DEF Single
<1>12. CASE UNCHANGED vars
  <2>1. UNCHANGED <<anchors, accepted, pc, walk>>
    BY Zenon, <1>12 DEF vars, storeVars
  <2> QED  BY Zenon, <1>1, <2>1
<1>13. \A p \in Proc : Walk(p) \/ WalkError(p) => Single' /\ Kept
  BY Zenon, <1>0, <1>5, <1>6, <1>7, <1>8 DEF Walk
<1>14. Single' /\ Kept
  BY Zenon, <1>4, <1>9, <1>10, <1>11, <1>12, <1>13 DEF Next
<1> QED  BY Zenon, <1>14

\* WriteAnchor reads before it writes: until an operator accepts a break, no anchor is ever replaced by
\* another head or lost, wherever the daemon restarts and whatever happens to the table.
THEOREM AnchorsStay == Spec => AnchorsAreKept
<1>1. Init => Single
  BY Zenon DEF Init, Single, Daemon, Op, Proc
<1>2. MonitorInv => Shape
  BY Zenon DEF MonitorInv
<1>3. Shape /\ Single /\ [Next]_vars => Single'
  BY Zenon, SingleStep
<1>4. Shape /\ Single /\ [Next]_vars =>
        [accepted = {} => \A a \in Signed : a \in Signed' /\ anchors'[a] = anchors[a]]_vars
  BY Zenon, SingleStep
<1> QED  BY <1>1, <1>2, <1>3, <1>4, MonitorInvariant, PTL DEF Spec, AnchorsAreKept
====
