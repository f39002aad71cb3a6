------------------------ MODULE ConnectionCatalog_proofs ------------------------
(***************************************************************************)
(* For any number of connections, datasources, schemas and structures: the *)
(* gate decides on evidence whatever happens around the registry; with     *)
(* autocommit it decides on the current structure; a COMMIT refreshes what *)
(* its transaction changed; and the pool keeps every structure in use.     *)
(***************************************************************************)
EXTENDS ConnectionCatalog, FiniteSetTheorems, TLAPS

-----------------------------------------------------------------------------
\* References and what needs them, for any pool p and any entries f of the owners I (connections, or
\* datasources) whose schemas belong to the datasources ds.

One(b) == IF b THEN 1 ELSE 0
Count(p, k) == IF k \in DOMAIN p THEN p[k] ELSE 0
Counted(p) == \A k \in DOMAIN p : p[k] \in Nat \ {0}

KeyAt(ds, f, c, s) == KeyOf(ds[c], s, f[c][s].hash)
At(I, ds, f, k) == {x \in I \X Schema : f[x[1]][x[2]] # None /\ KeyAt(ds, f, x[1], x[2]) = k}

LEMMA CountType == ASSUME NEW p, Counted(p), NEW k PROVE Count(p, k) \in Nat /\ (Count(p, k) > 0 <=> k \in DOMAIN p)
BY DEF Counted, Count

LEMMA OneType == \A b \in BOOLEAN : One(b) \in Nat /\ (b => One(b) = 1) /\ (~b => One(b) = 0)
BY DEF One

LEMMA TwoOnes == \A b \in BOOLEAN, a \in BOOLEAN : One(b) + One(a) \in Nat /\ (One(b) + One(a) > 0 \/ (~b /\ ~a))
BY DEF One

LEMMA Pair == ASSUME NEW A, NEW B, NEW z \in A \X B PROVE z[1] \in A /\ z[2] \in B /\ z = <<z[1], z[2]>>
OBVIOUS

\* A set that gains at most x, loses x, or gains nothing.
LEMMA SizeMoves ==
  ASSUME NEW A, IsFiniteSet(A), NEW B, NEW x, NEW g \in BOOLEAN, NEW r \in BOOLEAN,
         g => ~r /\ B \subseteq A \cup {x}, r => x \in A /\ B \subseteq A \ {x}, ~g /\ ~r => B \subseteq A
  PROVE  Cardinality(B) + One(r) <= Cardinality(A) + One(g)
<1>1. IsFiniteSet(A \cup {x}) /\ IsFiniteSet(A \ {x}) /\ Cardinality(A) \in Nat
  BY Zenon, FS_AddElement, FS_RemoveElement, FS_CardinalityType
<1>2. CASE g
  <2>1. Cardinality(B) \in Nat /\ Cardinality(B) <= Cardinality(A \cup {x})
    BY Zenon, <1>1, <1>2, FS_Subset, FS_CardinalityType
  <2>2. Cardinality(A \cup {x}) = IF x \in A THEN Cardinality(A) ELSE Cardinality(A) + 1
    BY Zenon, FS_AddElement
  <2> QED  BY <1>1, <1>2, <2>1, <2>2 DEF One
<1>3. CASE r
  <2>1. Cardinality(B) \in Nat /\ Cardinality(B) <= Cardinality(A \ {x})
    BY Zenon, <1>1, <1>3, FS_Subset, FS_CardinalityType
  <2>2. Cardinality(A \ {x}) = Cardinality(A) - 1
    BY Zenon, <1>3, FS_RemoveElement
  <2> QED  BY <1>1, <1>3, <2>1, <2>2 DEF One
<1>4. CASE ~g /\ ~r
  <2>1. Cardinality(B) \in Nat /\ Cardinality(B) <= Cardinality(A)
    BY Zenon, <1>4, FS_Subset, FS_CardinalityType
  <2> QED  BY <1>1, <1>4, <2>1 DEF One
<1> QED  BY Zenon, <1>2, <1>3, <1>4

\* Finitely many entries have a key.
LEMMA FewEntries ==
  ASSUME NEW I, IsFiniteSet(I), NEW ds, NEW f, NEW k
  PROVE  IsFiniteSet(At(I, ds, f, k)) /\ Cardinality(At(I, ds, f, k)) \in Nat
<1>1. IsFiniteSet(I \X Schema)
  BY Zenon, Finite, FS_Product
<1>2. At(I, ds, f, k) \in SUBSET (I \X Schema)
  BY Zenon DEF At
<1> QED  BY Zenon, <1>1, <1>2, FS_Subset, FS_CardinalityType

LEMMA EntryAt ==
  ASSUME NEW I, NEW ds, NEW f, NEW k, NEW c \in I, NEW s \in Schema
  PROVE  <<c, s>> \in At(I, ds, f, k) <=> f[c][s] # None /\ KeyAt(ds, f, c, s) = k
BY DEF At

\* How many entries of F have key y, compared with f: one more with g, one fewer with r.
Moves(I, ds, f, F, y, g, r) == Cardinality(At(I, ds, F, y)) + One(r) <= Cardinality(At(I, ds, f, y)) + One(g)

\* Entries that go, or keep their structure.
LEMMA EntriesKept ==
  ASSUME NEW I, IsFiniteSet(I), NEW ds, NEW f, NEW F, NEW y,
         \A o \in I, t \in Schema : F[o][t] # None => f[o][t] # None /\ F[o][t].hash = f[o][t].hash
  PROVE  Moves(I, ds, f, F, y, FALSE, FALSE)
<1>1. ASSUME NEW z \in At(I, ds, F, y) PROVE z \in At(I, ds, f, y)
  <2>1. z \in I \X Schema /\ F[z[1]][z[2]] # None /\ KeyAt(ds, F, z[1], z[2]) = y
    BY Zenon DEF At
  <2>2. z[1] \in I /\ z[2] \in Schema
    BY Zenon, <2>1, Pair
  <2> QED  BY Zenon, <2>1, <2>2 DEF At, KeyAt
<1> QED  BY Zenon, <1>1, FewEntries, SizeMoves DEF Moves

\* All entries of one owner go.
LEMMA EntriesDropped ==
  ASSUME NEW I, IsFiniteSet(I), NEW ds, NEW f, NEW F, NEW y, NEW c \in I, NEW K,
         \A o \in I, t \in Schema : F[o][t] = IF o = c THEN None ELSE f[o][t],
         K = {KeyAt(ds, f, c, s) : s \in {t \in Schema : f[c][t] # None}}
  PROVE  Moves(I, ds, f, F, y, FALSE, y \in K)
<1>1. ASSUME NEW z \in At(I, ds, F, y) PROVE z \in At(I, ds, f, y) /\ z[1] # c
  <2>1. z \in I \X Schema /\ F[z[1]][z[2]] # None /\ KeyAt(ds, F, z[1], z[2]) = y
    BY Zenon DEF At
  <2>2. z[1] \in I /\ z[2] \in Schema
    BY Zenon, <2>1, Pair
  <2> QED  BY Zenon, <2>1, <2>2 DEF At, KeyAt
<1>2. CASE y \in K
  <2>1. PICK s \in Schema : f[c][s] # None /\ KeyAt(ds, f, c, s) = y
    BY Zenon, <1>2
  <2>2. <<c, s>> \in At(I, ds, f, y) /\ <<c, s>>[1] = c
    BY Zenon, <2>1, EntryAt
  <2>3. At(I, ds, F, y) \subseteq At(I, ds, f, y) \ {<<c, s>>}
    BY Zenon, <1>1, <2>2
  <2> QED  BY Zenon, <1>2, <2>2, <2>3, FewEntries, SizeMoves DEF Moves
<1>3. CASE y \notin K
  <2>1. At(I, ds, F, y) \subseteq At(I, ds, f, y)
    BY Zenon, <1>1
  <2>2. (y \in K) \in BOOLEAN
    OBVIOUS
  <2> QED  BY Zenon, <1>3, <2>1, <2>2, FewEntries, SizeMoves DEF Moves
<1> QED  BY Zenon, <1>2, <1>3

\* The entry of c and s gets the structure with key k, which is new to it if b.
EntryMoved(I, ds, f, F, y, c, s, k, b) ==
  Moves(I, ds, f, F, y, b /\ y = k, b /\ f[c][s] # None /\ y = KeyAt(ds, f, c, s))

LEMMA EntryMoves ==
  ASSUME NEW I, IsFiniteSet(I), NEW ds, NEW f, NEW F, NEW y, NEW c \in I, NEW s \in Schema, NEW k,
         \A o \in I, t \in Schema : o # c \/ t # s => F[o][t] = f[o][t],
         F[c][s] # None, KeyAt(ds, F, c, s) = k, NEW b \in BOOLEAN, b <=> f[c][s] = None \/ KeyAt(ds, f, c, s) # k
  PROVE  EntryMoved(I, ds, f, F, y, c, s, k, b)
<1>1. ASSUME NEW z \in At(I, ds, F, y), z # <<c, s>> PROVE z \in At(I, ds, f, y)
  <2>1. z \in I \X Schema /\ F[z[1]][z[2]] # None /\ KeyAt(ds, F, z[1], z[2]) = y
    BY Zenon DEF At
  <2>2. z[1] \in I /\ z[2] \in Schema
    BY Zenon, <2>1, Pair
  <2>3. z = <<z[1], z[2]>>
    BY <2>1
  <2>4. F[z[1]][z[2]] = f[z[1]][z[2]]
    BY Zenon, <1>1, <2>2, <2>3
  <2> QED  BY Zenon, <2>1, <2>4 DEF At, KeyAt
<1>2. /\ <<c, s>> \in At(I, ds, f, y) <=> f[c][s] # None /\ KeyAt(ds, f, c, s) = y
      /\ <<c, s>> \in At(I, ds, F, y) <=> k = y
  <2>1. <<c, s>> \in At(I, ds, f, y) <=> f[c][s] # None /\ KeyAt(ds, f, c, s) = y
    BY EntryAt
  <2>2. <<c, s>> \in At(I, ds, F, y) <=> k = y
    BY EntryAt
  <2> QED  BY Zenon, <2>1, <2>2
<1>3. /\ b /\ y = k => At(I, ds, F, y) \subseteq At(I, ds, f, y) \cup {<<c, s>>}
      /\ b /\ f[c][s] # None /\ y = KeyAt(ds, f, c, s) => /\ <<c, s>> \in At(I, ds, f, y)
                                                         /\ At(I, ds, F, y) \subseteq At(I, ds, f, y) \ {<<c, s>>}
      /\ ~(b /\ y = k) /\ ~(b /\ f[c][s] # None /\ y = KeyAt(ds, f, c, s)) => At(I, ds, F, y) \subseteq At(I, ds, f, y)
  BY Zenon, <1>1, <1>2
<1> QED  BY Zenon, <1>3, FewEntries, SizeMoves DEF Moves, EntryMoved

\* retain and release, as counts.
Retained(p, k, n, q) == Counted(q) /\ \A y : Count(q, y) = Count(p, y) + IF y = k THEN n ELSE 0

LEMMA RetainCounts ==
  ASSUME NEW p, Counted(p), NEW k, NEW n \in Nat, n > 0 \/ k \in DOMAIN p
  PROVE  Retained(p, k, n, Retain(p, k, n))
<1>1. /\ DOMAIN Retain(p, k, n) = DOMAIN p \cup {k}
      /\ \A x \in DOMAIN p \cup {k} : Retain(p, k, n)[x] = Count(p, x) + IF x = k THEN n ELSE 0
  BY Zenon DEF Retain, Count
<1>2. ASSUME NEW y PROVE Count(Retain(p, k, n), y) = Count(p, y) + IF y = k THEN n ELSE 0
  BY <1>1 DEF Count
<1>3. ASSUME NEW x \in DOMAIN p \cup {k} PROVE Retain(p, k, n)[x] \in Nat \ {0}
  BY <1>1, CountType
<1> QED  BY Zenon, <1>1, <1>2, <1>3 DEF Counted, Retained

LEMMA ReleaseCounts ==
  ASSUME NEW p, Counted(p), NEW K
  PROVE  /\ Counted(Release(p, K))
         /\ \A y : Count(Release(p, K), y) + One(y \in K) >= Count(p, y)
<1>1. /\ DOMAIN Release(p, K) = DOMAIN p \ {k \in K \cap DOMAIN p : p[k] = 1}
      /\ \A x \in DOMAIN Release(p, K) : Release(p, K)[x] = IF x \in K THEN p[x] - 1 ELSE p[x]
  BY Zenon DEF Release
<1>2. ASSUME NEW x \in DOMAIN Release(p, K)
      PROVE  Release(p, K)[x] \in Nat \ {0} /\ Release(p, K)[x] + One(x \in K) = p[x] /\ x \in DOMAIN p
  BY <1>1 DEF Counted, One
<1>3. ASSUME NEW y PROVE Count(Release(p, K), y) + One(y \in K) >= Count(p, y)
  <2>1. CASE y \in DOMAIN Release(p, K)
    BY <1>2, <2>1 DEF Count, One
  <2>2. CASE y \notin DOMAIN Release(p, K)
    BY <1>1, <2>2 DEF Count, One
  <2> QED  BY Zenon, <2>1, <2>2
<1> QED  BY Zenon, <1>2, <1>3 DEF Counted

\* How many references q has to y, compared with p: at least one more with g and with e, at most one
\* fewer with r and with w.
Counts(p, q, y, g, r, e, w) == Count(q, y) + One(r) + One(w) >= Count(p, y) + One(g) + One(e)

LEMMA SameCounts ==
  ASSUME NEW p, Counted(p), NEW y
  PROVE  Counts(p, p, y, FALSE, FALSE, FALSE, FALSE)
BY CountType DEF Counts, One

\* One more for each key of K, or one fewer.
LEMMA RaiseCounts ==
  ASSUME NEW p, Counted(p), NEW K, K \subseteq DOMAIN p, NEW y, NEW q,
         q = [k \in DOMAIN p |-> IF k \in K THEN p[k] + 1 ELSE p[k]]
  PROVE  Counted(q) /\ Counts(p, q, y, y \in K, FALSE, FALSE, FALSE)
<1>1. Counted(q)
  BY DEF Counted
<1>2. CASE y \in DOMAIN p
  <2>1. p[y] \in Nat /\ Count(p, y) = p[y] /\ Count(q, y) = IF y \in K THEN p[y] + 1 ELSE p[y]
    BY Zenon, <1>2 DEF Counted, Count
  <2> QED  BY <1>1, <2>1 DEF Counts, One
<1>3. CASE y \notin DOMAIN p
  <2>1. Count(p, y) = 0 /\ Count(q, y) = 0 /\ y \notin K
    BY Zenon, <1>3 DEF Count
  <2> QED  BY <1>1, <2>1 DEF Counts, One
<1> QED  BY Zenon, <1>2, <1>3

LEMMA LowerCounts ==
  ASSUME NEW p, Counted(p), NEW K, NEW y
  PROVE  /\ Counted(Release(p, K))
         /\ Counts(p, Release(p, K), y, FALSE, y \in K, FALSE, FALSE)
         /\ Counts(p, Release(p, K), y, FALSE, FALSE, FALSE, y \in K)
<1>1. Counted(Release(p, K)) /\ Count(Release(p, K), y) + One(y \in K) >= Count(p, y)
  BY Zenon, ReleaseCounts
<1>2. Count(p, y) \in Nat /\ Count(Release(p, K), y) \in Nat
  BY Zenon, <1>1, CountType
<1> QED  BY <1>1, <1>2 DEF Counts, One

\* A release that may not be due.
Released(p, o, x, q) == Counted(q) /\ \A y : Count(q, y) + One(o /\ y = x) >= Count(p, y)

LEMMA MayRelease ==
  ASSUME NEW p, Counted(p), NEW o \in BOOLEAN, NEW x, NEW q, q = IF o THEN Release(p, {x}) ELSE p
  PROVE  Released(p, o, x, q)
<1>1. CASE o
  <2>1. Counted(q) /\ \A y : Count(q, y) + One(y \in {x}) >= Count(p, y)
    BY Zenon, <1>1, ReleaseCounts
  <2>2. \A y : One(y \in {x}) = One(o /\ y = x)
    BY Zenon, <1>1 DEF One
  <2> QED  BY Zenon, <2>1, <2>2 DEF Released
<1>2. CASE ~o
  <2>1. ASSUME NEW y PROVE Count(p, y) + One(o /\ y = x) >= Count(p, y)
    BY <1>2, CountType DEF One
  <2> QED  BY Zenon, <1>2, <2>1 DEF Released
<1> QED  BY Zenon, <1>1, <1>2

\* A reference for each of b and e, and then up to two releases.
PoolChanged(p, q, y, k, b, e, o, x, w, z) ==
  Counted(q) /\ Counts(p, q, y, b /\ y = k, o /\ y = x, e /\ y = k, w /\ y = z)

LEMMA PoolChanges ==
  ASSUME NEW p, Counted(p), NEW k, NEW b \in BOOLEAN, NEW e \in BOOLEAN, NEW p1, Retained(p, k, One(b) + One(e), p1),
         NEW o \in BOOLEAN, NEW x, NEW p2, Released(p1, o, x, p2),
         NEW w \in BOOLEAN, NEW z, NEW q, Released(p2, w, z, q), NEW y
  PROVE  PoolChanged(p, q, y, k, b, e, o, x, w, z)
<1>1. Count(p, y) \in Nat /\ Count(p1, y) \in Nat /\ Count(p2, y) \in Nat /\ Count(q, y) \in Nat
  BY Zenon, CountType DEF Retained, Released
<1>2. /\ Count(p1, y) = Count(p, y) + IF y = k THEN One(b) + One(e) ELSE 0
      /\ Count(p2, y) + One(o /\ y = x) >= Count(p1, y) /\ Count(q, y) + One(w /\ y = z) >= Count(p2, y)
  BY Zenon DEF Retained, Released
<1>3. Counts(p, q, y, b /\ y = k, o /\ y = x, e /\ y = k, w /\ y = z)
  BY <1>1, <1>2 DEF Counts, One
<1> QED  BY Zenon, <1>3 DEF Released, PoolChanged

\* Every key has at least the references that the entries of connections (h) and datasources (a) need.
Self == [d \in Datasource |-> d]
Fits(p, h, a) ==
  /\ Counted(p)
  /\ \A y \in Key : Cardinality(At(Conn, DsOf, h, y)) + Cardinality(At(Datasource, Self, a, y)) <= Count(p, y)

\* The references move by at least as much as the entries.
Served(p, h, a, q, H, A, y) == \E g, r, e, w \in BOOLEAN :
  Moves(Conn, DsOf, h, H, y, g, r) /\ Moves(Datasource, Self, a, A, y, e, w) /\ Counts(p, q, y, g, r, e, w)

LEMMA Balance ==
  ASSUME NEW p, NEW h, NEW a, NEW q, NEW H, NEW A, Fits(p, h, a), Counted(q),
         \A y \in Key : Served(p, h, a, q, H, A, y)
  PROVE  Fits(q, H, A)
<1> SUFFICES ASSUME NEW y \in Key
             PROVE  Cardinality(At(Conn, DsOf, H, y)) + Cardinality(At(Datasource, Self, A, y)) <= Count(q, y)
  BY Zenon DEF Fits
<1>1. PICK g \in BOOLEAN, r \in BOOLEAN, e \in BOOLEAN, w \in BOOLEAN :
        Moves(Conn, DsOf, h, H, y, g, r) /\ Moves(Datasource, Self, a, A, y, e, w) /\ Counts(p, q, y, g, r, e, w)
  BY Zenon DEF Served
<1>2. /\ Cardinality(At(Conn, DsOf, h, y)) \in Nat /\ Cardinality(At(Datasource, Self, a, y)) \in Nat
      /\ Cardinality(At(Conn, DsOf, H, y)) \in Nat /\ Cardinality(At(Datasource, Self, A, y)) \in Nat
  BY Zenon, FewEntries, Finite
<1>3. /\ Count(p, y) \in Nat /\ Count(q, y) \in Nat
      /\ Cardinality(At(Conn, DsOf, h, y)) + Cardinality(At(Datasource, Self, a, y)) <= Count(p, y)
  BY Zenon, CountType DEF Fits
<1>4. One(g) \in Nat /\ One(r) \in Nat /\ One(e) \in Nat /\ One(w) \in Nat
  BY Zenon, OneType
<1> QED  BY <1>1, <1>2, <1>3, <1>4 DEF Moves, Counts

\* What is needed is there.
LEMMA NeededIsThere ==
  ASSUME NEW p, NEW h, NEW a, Fits(p, h, a), NEW k \in Key, At(Conn, DsOf, h, k) # {} \/ At(Datasource, Self, a, k) # {}
  PROVE  k \in DOMAIN p
<1>1. /\ Cardinality(At(Conn, DsOf, h, k)) \in Nat /\ Cardinality(At(Datasource, Self, a, k)) \in Nat
      /\ Cardinality(At(Conn, DsOf, h, k)) # 0 \/ Cardinality(At(Datasource, Self, a, k)) # 0
  BY Zenon, FewEntries, Finite, FS_EmptySet
<1>2. /\ Cardinality(At(Conn, DsOf, h, k)) + Cardinality(At(Datasource, Self, a, k)) <= Count(p, k)
      /\ Count(p, k) \in Nat /\ (Count(p, k) > 0 <=> k \in DOMAIN p)
  BY Zenon, CountType DEF Fits
<1> QED  BY <1>1, <1>2

\* A time stamp v is vouched for at time t by an inspection at time ev, or too old to matter.
Vouched(v, ev, t) == (ev # None /\ v <= ev) \/ t - v > Staleness

Shape ==
  /\ held \in [Conn -> [Schema -> Opt(HeldType)]]
  /\ auth \in [Datasource -> [Schema -> Opt(AuthType)]]
  /\ pending \in [Conn -> [Schema -> Opt(PendingType)]]
  /\ push \in [Conn -> Opt(Message)]
  /\ db \in [Datasource -> [Schema -> Hash]] /\ tx \in [Conn -> [Schema -> Opt(Hash)]]
  /\ ddls \in 0 .. MaxDdl /\ now \in Nat
  /\ evidence \in [Datasource -> [Schema -> [Hash -> Opt(Nat)]]]

\* No inspection lies in the future.
Past == \A d \in Datasource, s \in Schema, h \in Hash :
  evidence[d][s][h] # None => evidence[d][s][h] <= now

HeldVouched == \A c \in Conn, s \in Schema :
  held[c][s] # None => Vouched(held[c][s].verified, evidence[DsOf[c]][s][held[c][s].hash], now)

AuthVouched == \A d \in Datasource, s \in Schema :
  auth[d][s] # None => Vouched(auth[d][s].inspected, evidence[d][s][auth[d][s].hash], now)

IInv == Shape /\ Past /\ HeldVouched /\ AuthVouched

\* A stamp stays vouched for when the evidence gets younger.
LEMMA VouchedMono ==
  ASSUME NEW v \in Int, NEW e1 \in Opt(Nat), NEW e2 \in Opt(Nat), NEW t \in Int,
         Vouched(v, e1, t), e1 # None => e2 # None /\ e1 <= e2
  PROVE  Vouched(v, e2, t)
BY NoneIsNone DEF Vouched, Opt

\* Initially nothing is held, so nothing needs evidence.
LEMMA InitIInv == Init => IInv
<1> SUFFICES ASSUME Init PROVE IInv
  BY Zenon
<1>n. \A S : None \in Opt(S)
  BY Zenon DEF Opt
<1>1. /\ held = [c \in Conn |-> NoSchemas] /\ pending = [c \in Conn |-> NoSchemas]
      /\ tx = [c \in Conn |-> NoSchemas] /\ auth = [d \in Datasource |-> NoSchemas]
      /\ push = [c \in Conn |-> None] /\ now = 0 /\ ddls = 0
      /\ db = [d \in Datasource |-> [s \in Schema |-> 0]]
      /\ evidence = [d \in Datasource |-> [s \in Schema |-> [h \in Hash |-> None]]]
  BY Zenon DEF Init
<1>2. \A S : NoSchemas \in [Schema -> Opt(S)]
  BY Zenon, <1>n DEF NoSchemas
<1>3. 0 \in Hash /\ 0 \in 0 .. MaxDdl /\ 0 \in Nat
  BY Bounds DEF Hash
<1>4. Shape
  BY Zenon, <1>n, <1>1, <1>2, <1>3 DEF Shape
<1>5. Past /\ HeldVouched /\ AuthVouched
  BY Zenon, <1>1 DEF Past, HeldVouched, AuthVouched, NoSchemas
<1> QED BY Zenon, <1>4, <1>5 DEF IInv

\* What a record, the authoritative map and the evidence hold.
LEMMA HeldEntry ==
  ASSUME IInv, NEW c \in Conn, NEW s \in Schema, held[c][s] # None
  PROVE  held[c][s] \in HeldType /\ held[c][s].hash \in Hash /\ held[c][s].verified \in Int
<1>1. held \in [Conn -> [Schema -> Opt(HeldType)]]
  BY Zenon DEF IInv, Shape
<1>2. held[c][s] \in HeldType
  BY Zenon, <1>1 DEF Opt
<1> QED BY Zenon, <1>2 DEF HeldType

LEMMA AuthEntry ==
  ASSUME IInv, NEW d \in Datasource, NEW s \in Schema, auth[d][s] # None
  PROVE  auth[d][s] \in AuthType /\ auth[d][s].hash \in Hash /\ auth[d][s].inspected \in Int
<1>1. auth \in [Datasource -> [Schema -> Opt(AuthType)]]
  BY Zenon DEF IInv, Shape
<1>2. auth[d][s] \in AuthType
  BY Zenon, <1>1 DEF Opt
<1> QED BY Zenon, <1>2 DEF AuthType

LEMMA EvidenceEntry ==
  ASSUME IInv, NEW d \in Datasource, NEW s \in Schema, NEW h \in Hash
  PROVE  evidence[d][s][h] \in Opt(Nat) /\ (evidence[d][s][h] # None => evidence[d][s][h] <= now)
<1>1. evidence \in [Datasource -> [Schema -> [Hash -> Opt(Nat)]]] /\ Past
  BY Zenon DEF IInv, Shape
<1>2. evidence[d][s][h] \in Opt(Nat)
  BY <1>1
<1> QED BY Zenon, <1>1, <1>2 DEF Past

LEMMA ClockType == ASSUME IInv PROVE now \in Nat /\ now \in Int /\ now # None
<1>1. now \in Nat
  BY Zenon DEF IInv, Shape
<1> QED BY <1>1, NoneIsNone

\* Steps that leave the structures, their stamps and the clock alone.
LEMMA FrameIInv ==
  ASSUME IInv, UNCHANGED <<held, auth, now, evidence>>, Shape'
  PROVE  IInv'
BY Zenon DEF IInv, Past, HeldVouched, AuthVouched, Vouched

\* What a connection sees in its target database is a structure.
LEMMA ViewType == ASSUME IInv, NEW c \in Conn, NEW s \in Schema PROVE View(c, s) \in Hash
BY Binding DEF IInv, Shape, View, Opt

\* A command has an expected hash, or none.
LEMMA HashTypes ==
  ASSUME IInv, NEW c \in Conn
  PROVE  /\ \A s \in Schema : HashOf(AuthOf(c, s)) \in Opt(Hash)
         /\ {HeldHash(c), HeldOrAuth(c), Unconditional} \subseteq [Schema -> Opt(Hash)]
<1>1. ASSUME NEW s \in Schema PROVE HashOf(AuthOf(c, s)) \in Opt(Hash) /\ HashOf(held[c][s]) \in Opt(Hash)
  BY <1>1, Binding DEF IInv, Shape, HashOf, AuthOf, Opt, HeldType, AuthType
<1>2. HeldHash(c) \in [Schema -> Opt(Hash)]
  BY Zenon, <1>1 DEF HeldHash
<1>3. HeldOrAuth(c) \in [Schema -> Opt(Hash)]
  BY Zenon, <1>1 DEF HeldOrAuth
<1>4. Unconditional \in [Schema -> Opt(Hash)]
  BY Zenon DEF Unconditional, NoSchemas, Opt
<1> QED BY Zenon, <1>1, <1>2, <1>3, <1>4

\* issueInitial: what is adopted brings its evidence along.
LEMMA IssueIInv ==
  ASSUME IInv, NEW c \in Conn, IssueInitial(c), UNCHANGED <<auth, now, evidence, push, db, tx, ddls>>
  PROVE  IInv'
<1>1. pending' \in [Conn -> [Schema -> Opt(PendingType)]]
  <2>1. \A s \in Schema : PendingOf(HashOf(AuthOf(c, s)), HashOf(AuthOf(c, s))) \in PendingType
    BY Zenon, HashTypes DEF PendingOf, PendingType
  <2>2. pending \in [Conn -> [Schema -> Opt(PendingType)]]
    BY Zenon DEF IInv, Shape
  <2> HIDE DEF PendingType
  <2> QED BY Zenon, <2>1, <2>2 DEF IssueInitial, Opt
<1>2. held' \in [Conn -> [Schema -> Opt(HeldType)]]
  <2>1. \A s \in Adopted(c) : Adopt(AuthOf(c, s)) \in HeldType
    BY Binding DEF IInv, Shape, Adopted, Adopt, AuthOf, Opt, HeldType, AuthType
  <2>2. held \in [Conn -> [Schema -> Opt(HeldType)]]
    BY Zenon DEF IInv, Shape
  <2> QED BY Zenon, <2>1, <2>2 DEF IssueInitial, Opt
<1>3. Shape'
  BY Zenon, <1>1, <1>2 DEF IInv, Shape
<1>4. HeldVouched'
  <2> SUFFICES ASSUME NEW o \in Conn, NEW t \in Schema, held'[o][t] # None
               PROVE  Vouched(held'[o][t].verified, evidence[DsOf[o]][t][held'[o][t].hash], now)
    BY Zenon DEF HeldVouched, Vouched
  <2>0. held \in [Conn -> [Schema -> Opt(HeldType)]]
    BY Zenon DEF IInv, Shape
  <2>1. CASE o = c /\ t \in Adopted(c)
    <3>1. held'[o][t] = Adopt(AuthOf(c, t))
      BY Zenon, <2>0, <2>1 DEF IssueInitial
    <3>2. held'[o][t].verified = auth[DsOf[c]][t].inspected /\ held'[o][t].hash = auth[DsOf[c]][t].hash
      BY <3>1 DEF Adopt, AuthOf
    <3>3. DsOf[c] \in Datasource /\ auth[DsOf[c]][t] # None
      BY Zenon, <2>1, Binding DEF Adopted, AuthOf
    <3>4. Vouched(auth[DsOf[c]][t].inspected, evidence[DsOf[c]][t][auth[DsOf[c]][t].hash], now)
      BY Zenon, <3>3 DEF IInv, AuthVouched
    <3> QED BY Zenon, <2>1, <3>2, <3>4
  <2>2. CASE ~(o = c /\ t \in Adopted(c))
    <3>1. held'[o][t] = held[o][t]
      BY Zenon, <2>0, <2>2 DEF IssueInitial
    <3> QED BY Zenon, <3>1 DEF IInv, HeldVouched
  <2> QED BY Zenon, <2>1, <2>2
<1> QED BY Zenon, <1>3, <1>4 DEF IInv, Past, AuthVouched, Vouched

\* applyPush: an accepted push is the evidence for what it stamps, and takes none away.
LEMMA PushIInv ==
  ASSUME IInv, NEW c \in Conn, NEW m \in Message,
         ApplyPush(c, m), UNCHANGED <<now, db, tx, ddls>>,
         push' \in [Conn -> Opt(Message)]
  PROVE  IInv'
<1> DEFINE d == DsOf[c]
           s == m.schema
<1>d. d \in Datasource /\ s \in Schema /\ m.hash \in Hash
  BY Zenon, Binding DEF Message
<1>1. CASE Rejected(c, m)
  <2>1. UNCHANGED <<held, pending, auth, now, evidence, db, tx, ddls>>
    BY Zenon, <1>1 DEF ApplyPush, ghosts
  <2>2. Shape'
    BY Zenon, <2>1 DEF IInv, Shape
  <2> QED BY Zenon, <2>1, <2>2, FrameIInv
<1>2. CASE ~Rejected(c, m)
  <2>1. /\ pending[c][s] \in PendingType
        /\ pending' = [pending EXCEPT ![c][s] = None]
        /\ evidence' = [evidence EXCEPT ![d][s][m.hash] = now]
    <3>1. pending[c][s] # None
      BY Zenon, <1>2 DEF Rejected
    <3>2. pending[c][s] \in PendingType
      BY <1>d, <3>1 DEF IInv, Shape, Opt
    <3> QED BY Zenon, <1>2, <3>2 DEF ApplyPush
  <2>2. /\ held' \in [Conn -> [Schema -> Opt(HeldType)]]
        /\ \A o \in Conn, t \in Schema :
             held'[o][t] = held[o][t] \/ (o = c /\ t = s /\ held'[o][t].hash = m.hash /\ held'[o][t].verified = now)
    <3>0. pending[c][s].at \in Opt(Hash)
      BY Zenon, <2>1 DEF PendingType
    <3>1. pending[c][s].at \in Opt(Hash) /\ None \in Opt(Hash) /\ now \in Int
      BY Zenon, <3>0, ClockType DEF Opt
    <3>2. PICK r \in Opt(Hash) : held' = [held EXCEPT ![c][s] = [hash |-> m.hash, verified |-> now, reval |-> r]]
      <4>1. CASE m.unchanged
        BY Zenon, <1>2, <3>1, <4>1 DEF ApplyPush, ApplyUnchanged
      <4>2. CASE ~m.unchanged
        BY Zenon, <1>2, <3>1, <4>2 DEF ApplyPush, ApplyFull
      <4> QED BY Zenon, <4>1, <4>2
    <3>3. held \in [Conn -> [Schema -> Opt(HeldType)]]
      BY Zenon DEF IInv, Shape
    <3>4. [hash |-> m.hash, verified |-> now, reval |-> r] \in HeldType
      BY Zenon, <1>d, <3>1 DEF HeldType
    <3>5. [hash |-> m.hash, verified |-> now, reval |-> r] \in Opt(HeldType)
      BY Zenon, <3>4 DEF Opt
    <3> HIDE DEF HeldType
    <3>6. /\ held' \in [Conn -> [Schema -> Opt(HeldType)]]
          /\ \A o \in Conn, t \in Schema : held'[o][t] =
               IF o = c /\ t = s THEN [hash |-> m.hash, verified |-> now, reval |-> r] ELSE held[o][t]
      BY Zenon, <1>d, <3>2, <3>3, <3>5
    <3> QED BY <3>6
  <2>3. /\ auth' \in [Datasource -> [Schema -> Opt(AuthType)]]
        /\ \A e \in Datasource, t \in Schema :
             auth'[e][t] = auth[e][t] \/ (e = d /\ t = s /\ auth'[e][t].hash = m.hash /\ auth'[e][t].inspected = now)
    <3>1. auth \in [Datasource -> [Schema -> Opt(AuthType)]]
      BY Zenon DEF IInv, Shape
    <3>2. auth' = auth \/ auth' = [auth EXCEPT ![d][s] = [hash |-> m.hash, inspected |-> now]]
      <4>1. CASE m.unchanged
        BY Zenon, <1>2, <4>1 DEF ApplyPush, ApplyUnchanged
      <4>2. CASE ~m.unchanged
        BY Zenon, <1>2, <4>2 DEF ApplyPush, ApplyFull
      <4> QED BY Zenon, <4>1, <4>2
    <3>3. [hash |-> m.hash, inspected |-> now] \in AuthType
      BY Zenon, <1>d, ClockType DEF AuthType
    <3>4. [hash |-> m.hash, inspected |-> now] \in Opt(AuthType)
      BY Zenon, <3>3 DEF Opt
    <3> HIDE DEF AuthType
    <3>5. CASE auth' = [auth EXCEPT ![d][s] = [hash |-> m.hash, inspected |-> now]]
      <4>1. /\ auth' \in [Datasource -> [Schema -> Opt(AuthType)]]
            /\ \A e \in Datasource, t \in Schema : auth'[e][t] =
                 IF e = d /\ t = s THEN [hash |-> m.hash, inspected |-> now] ELSE auth[e][t]
        BY Zenon, <1>d, <3>1, <3>4, <3>5
      <4> QED BY <4>1
    <3> QED BY Zenon, <3>1, <3>2, <3>5
  <2>4. Shape'
    <3>1. pending' \in [Conn -> [Schema -> Opt(PendingType)]]
      <4>1. pending \in [Conn -> [Schema -> Opt(PendingType)]]
        BY Zenon DEF IInv, Shape
      <4>2. None \in Opt(PendingType)
        BY Zenon DEF Opt
      <4> HIDE DEF PendingType
      <4> QED BY Zenon, <1>d, <2>1, <4>1, <4>2
    <3>2. evidence' \in [Datasource -> [Schema -> [Hash -> Opt(Nat)]]]
      <4>1. evidence \in [Datasource -> [Schema -> [Hash -> Opt(Nat)]]] /\ now \in Opt(Nat)
        BY Zenon, ClockType DEF IInv, Shape, Opt
      <4> QED BY Zenon, <1>d, <2>1, <4>1
    <3> QED BY Zenon, <2>2, <2>3, <3>1, <3>2 DEF IInv, Shape
  <2>5. \A e \in Datasource, t \in Schema, h \in Hash :
          /\ evidence[e][t][h] # None => evidence'[e][t][h] # None /\ evidence[e][t][h] <= evidence'[e][t][h]
          /\ evidence'[d][s][m.hash] = now /\ now # None
          /\ evidence'[e][t][h] # None => evidence'[e][t][h] <= now
    <3>1. evidence \in [Datasource -> [Schema -> [Hash -> Opt(Nat)]]] /\ now \in Opt(Nat)
      BY Zenon, ClockType DEF IInv, Shape, Opt
    <3>2. \A e \in Datasource, t \in Schema, h \in Hash :
            evidence'[e][t][h] = IF e = d /\ t = s /\ h = m.hash THEN now ELSE evidence[e][t][h]
      BY <1>d, <2>1, <3>1
    <3>3. now <= now
      BY ClockType
    <3> SUFFICES ASSUME NEW e \in Datasource, NEW t \in Schema, NEW h \in Hash
                 PROVE  /\ evidence[e][t][h] # None => evidence'[e][t][h] # None /\ evidence[e][t][h] <= evidence'[e][t][h]
                        /\ evidence'[d][s][m.hash] = now /\ now # None
                        /\ evidence'[e][t][h] # None => evidence'[e][t][h] <= now
      BY Zenon
    <3>4. evidence'[d][s][m.hash] = now /\ now # None
      BY Zenon, <1>d, <3>2, ClockType
    <3>5. CASE e = d /\ t = s /\ h = m.hash
      BY Zenon, <3>3, <3>4, <3>5, EvidenceEntry
    <3>6. CASE ~(e = d /\ t = s /\ h = m.hash)
      <4>1. evidence'[e][t][h] = evidence[e][t][h] /\ evidence[e][t][h] \in Opt(Nat)
        BY Zenon, <3>2, <3>6, EvidenceEntry
      <4>2. evidence[e][t][h] # None => evidence[e][t][h] <= evidence[e][t][h]
        BY <4>1 DEF Opt
      <4> QED BY Zenon, <3>4, <4>1, <4>2, EvidenceEntry
    <3> QED BY Zenon, <3>5, <3>6
  <2>6. Past'
    BY Zenon, <2>5 DEF Past
  <2>7. HeldVouched'
    <3> SUFFICES ASSUME NEW o \in Conn, NEW t \in Schema, held'[o][t] # None
                 PROVE  Vouched(held'[o][t].verified, evidence'[DsOf[o]][t][held'[o][t].hash], now)
      BY Zenon DEF HeldVouched
    <3>1. CASE held'[o][t] = held[o][t]
      <4>1. DsOf[o] \in Datasource /\ held[o][t].hash \in Hash /\ held[o][t].verified \in Int /\ held[o][t] # None
        <5>1. held[o][t] # None
          BY Zenon, <3>1
        <5> QED BY Zenon, <5>1, Binding, HeldEntry
      <4>2. /\ evidence[DsOf[o]][t][held[o][t].hash] \in Opt(Nat)
            /\ evidence'[DsOf[o]][t][held[o][t].hash] \in Opt(Nat)
        <5>1. evidence' \in [Datasource -> [Schema -> [Hash -> Opt(Nat)]]]
          BY Zenon, <2>4 DEF Shape
        <5> QED BY <4>1, <5>1, EvidenceEntry
      <4>3. Vouched(held[o][t].verified, evidence[DsOf[o]][t][held[o][t].hash], now)
        BY Zenon, <4>1 DEF IInv, HeldVouched
      <4>4. LET ev == evidence[DsOf[o]][t][held[o][t].hash]
                ev1 == evidence'[DsOf[o]][t][held[o][t].hash]
            IN ev # None => ev1 # None /\ ev <= ev1
        BY Zenon, <2>5, <4>1
      <4>5. held[o][t].verified \in Int /\ now \in Int
        BY Zenon, <4>1, ClockType
      <4>6. Vouched(held[o][t].verified, evidence'[DsOf[o]][t][held[o][t].hash], now)
        BY Zenon, <4>2, <4>3, <4>4, <4>5, VouchedMono
      <4> QED BY Zenon, <3>1, <4>6
    <3>2. CASE o = c /\ t = s /\ held'[o][t].hash = m.hash /\ held'[o][t].verified = now
      <4>1. evidence'[DsOf[o]][t][held'[o][t].hash] = now /\ now # None
        BY Zenon, <1>d, <2>5, <3>2
      <4>2. held'[o][t].verified = now /\ now <= now
        BY <3>2, ClockType
      <4> QED BY Zenon, <4>1, <4>2 DEF Vouched
    <3> QED BY Zenon, <2>2, <3>1, <3>2
  <2>8. AuthVouched'
    <3> SUFFICES ASSUME NEW e \in Datasource, NEW t \in Schema, auth'[e][t] # None
                 PROVE  Vouched(auth'[e][t].inspected, evidence'[e][t][auth'[e][t].hash], now)
      BY Zenon DEF AuthVouched
    <3>1. CASE auth'[e][t] = auth[e][t]
      <4>1. auth[e][t].hash \in Hash /\ auth[e][t].inspected \in Int /\ auth[e][t] # None
        BY Zenon, <3>1, AuthEntry
      <4>2. /\ evidence[e][t][auth[e][t].hash] \in Opt(Nat)
            /\ evidence'[e][t][auth[e][t].hash] \in Opt(Nat)
        <5>1. evidence' \in [Datasource -> [Schema -> [Hash -> Opt(Nat)]]]
          BY Zenon, <2>4 DEF Shape
        <5> QED BY <4>1, <5>1, EvidenceEntry
      <4>3. Vouched(auth[e][t].inspected, evidence[e][t][auth[e][t].hash], now)
        BY Zenon, <4>1 DEF IInv, AuthVouched
      <4>4. LET ev == evidence[e][t][auth[e][t].hash]
                ev1 == evidence'[e][t][auth[e][t].hash]
            IN ev # None => ev1 # None /\ ev <= ev1
        BY Zenon, <2>5, <4>1
      <4>5. now \in Int
        BY Zenon, ClockType
      <4>6. Vouched(auth[e][t].inspected, evidence'[e][t][auth[e][t].hash], now)
        BY Zenon, <4>1, <4>2, <4>3, <4>4, <4>5, VouchedMono
      <4> QED BY Zenon, <3>1, <4>6
    <3>2. CASE e = d /\ t = s /\ auth'[e][t].hash = m.hash /\ auth'[e][t].inspected = now
      <4>1. evidence'[e][t][auth'[e][t].hash] = now /\ now # None
        BY Zenon, <1>d, <2>5, <3>2
      <4>2. auth'[e][t].inspected = now /\ now <= now
        BY <3>2, ClockType
      <4> QED BY Zenon, <4>1, <4>2 DEF Vouched
    <3> QED BY Zenon, <2>3, <3>1, <3>2
  <2> QED BY Zenon, <2>4, <2>6, <2>7, <2>8 DEF IInv
<1> QED BY Zenon, <1>1, <1>2

\* applyCatalogPush: a confirmation is an inspection, and what is not confirmed is too old to pass.
LEMMA CatalogPushIInv ==
  ASSUME IInv, NEW d \in Datasource, NEW read \in [Schema -> Hash], CatalogPush(d, read)
  PROVE  IInv'
<1> DEFINE known == {s \in Schema : auth[d][s] # None}
           confirmed == {s \in known : AuthKey(d, s) \in DOMAIN pool /\ auth[d][s].hash = read[s]}
           stamp(s) == IF s \in confirmed THEN now ELSE now - Staleness - 1
<1>1. /\ auth' = [auth EXCEPT ![d] = [s \in Schema |->
           IF s \notin known THEN None ELSE [auth[d][s] EXCEPT !.inspected = stamp(s)]]]
      /\ evidence' = [evidence EXCEPT ![d] = [s \in Schema |->
           IF s \in confirmed THEN [evidence[d][s] EXCEPT ![read[s]] = now] ELSE evidence[d][s]]]
      /\ UNCHANGED <<held, pending, push, now, db, tx, ddls>>
  BY Zenon DEF CatalogPush, dbVars
<1>2. now \in Nat /\ \A s \in Schema : stamp(s) \in Int
  BY Bounds DEF IInv, Shape
<1>3. \A s \in known : auth[d][s] \in AuthType /\ auth[d][s].hash \in Hash
  BY DEF IInv, Shape, Opt, AuthType
<1>4. auth' \in [Datasource -> [Schema -> Opt(AuthType)]]
  <2>1. \A s \in known : [auth[d][s] EXCEPT !.inspected = stamp(s)] \in AuthType
    BY Zenon, <1>2, <1>3 DEF AuthType
  <2>2. auth \in [Datasource -> [Schema -> Opt(AuthType)]]
    BY Zenon DEF IInv, Shape
  <2> HIDE DEF stamp, known
  <2> QED BY Zenon, <1>1, <2>1, <2>2 DEF Opt
<1>5. evidence' \in [Datasource -> [Schema -> [Hash -> Opt(Nat)]]]
  <2>1. evidence \in [Datasource -> [Schema -> [Hash -> Opt(Nat)]]] /\ now \in Opt(Nat)
    BY Zenon, <1>2 DEF IInv, Shape, Opt
  <2> HIDE DEF confirmed
  <2> QED BY Zenon, <1>1, <2>1
<1>6. Shape'
  BY Zenon, <1>1, <1>4, <1>5 DEF IInv, Shape
<1>7. \A e \in Datasource, t \in Schema, h \in Hash :
        /\ evidence[e][t][h] \in Opt(Nat) /\ evidence'[e][t][h] \in Opt(Nat)
        /\ evidence'[e][t][h] = evidence[e][t][h] \/ evidence'[e][t][h] = now
  <2>1. evidence \in [Datasource -> [Schema -> [Hash -> Opt(Nat)]]]
    BY Zenon DEF IInv, Shape
  <2> HIDE DEF confirmed
  <2> QED BY <1>1, <1>5, <2>1
<1>8. \A e \in Datasource, t \in Schema, h \in Hash :
        /\ evidence[e][t][h] # None => evidence'[e][t][h] # None /\ evidence[e][t][h] <= evidence'[e][t][h]
        /\ evidence'[e][t][h] # None => evidence'[e][t][h] <= now
  BY <1>2, <1>7, NoneIsNone DEF IInv, Past, Opt
<1>9. Past'
  BY Zenon, <1>1, <1>8 DEF Past
<1>10. HeldVouched'
  <2> SUFFICES ASSUME NEW o \in Conn, NEW t \in Schema, held[o][t] # None
               PROVE  Vouched(held[o][t].verified, evidence'[DsOf[o]][t][held[o][t].hash], now)
    <3>1. held' = held /\ now' = now
      BY Zenon, <1>1
    <3> QED BY Zenon, <3>1 DEF HeldVouched, Vouched
  <2>1. DsOf[o] \in Datasource /\ held[o][t].hash \in Hash /\ held[o][t].verified \in Int
    BY Binding DEF IInv, Shape, Opt, HeldType
  <2>2. Vouched(held[o][t].verified, evidence[DsOf[o]][t][held[o][t].hash], now)
    BY Zenon DEF IInv, HeldVouched
  <2> DEFINE ev == evidence[DsOf[o]][t][held[o][t].hash]
             ev1 == evidence'[DsOf[o]][t][held[o][t].hash]
  <2>3. ev \in Opt(Nat) /\ ev1 \in Opt(Nat)
    BY Zenon, <1>7, <2>1
  <2>4. ev # None => ev1 # None /\ ev <= ev1
    BY Zenon, <1>8, <2>1
  <2> HIDE DEF ev, ev1
  <2>5. Vouched(held[o][t].verified, ev, now) => Vouched(held[o][t].verified, ev1, now)
    BY <1>2, <2>1, <2>3, <2>4, VouchedMono
  <2> QED BY Zenon, <2>2, <2>5 DEF ev, ev1
<1>11. AuthVouched'
  <2> SUFFICES ASSUME NEW e \in Datasource, NEW t \in Schema, auth'[e][t] # None
               PROVE  Vouched(auth'[e][t].inspected, evidence'[e][t][auth'[e][t].hash], now)
    <3>1. now' = now
      BY Zenon, <1>1
    <3> QED BY Zenon, <3>1 DEF AuthVouched, Vouched
  <2>1. CASE e # d
    <3>1. auth'[e][t] = auth[e][t] /\ evidence'[e][t] = evidence[e][t]
      BY Zenon, <1>1, <2>1 DEF IInv, Shape
    <3> QED BY Zenon, <3>1 DEF IInv, AuthVouched
  <2>2. CASE e = d
    <3>1. auth[d][t] # None /\ auth'[d][t] = [auth[d][t] EXCEPT !.inspected = stamp(t)]
      BY Zenon, <1>1, <2>2 DEF IInv, Shape
    <3>2. auth'[d][t].inspected = stamp(t) /\ auth'[d][t].hash = auth[d][t].hash
      BY Zenon, <1>3, <3>1 DEF AuthType
    <3>3. CASE t \in confirmed
      <4>1. evidence'[d][t][auth[d][t].hash] = now
        BY <1>1, <1>3, <3>3 DEF IInv, Shape
      <4> QED BY <1>2, <2>2, <3>2, <3>3, <4>1, NoneIsNone DEF Vouched
    <3>4. CASE t \notin confirmed
      <4>1. now - (now - Staleness - 1) > Staleness
        BY <1>2, Bounds
      <4> QED BY Zenon, <2>2, <3>2, <3>4, <4>1 DEF Vouched
    <3> QED BY Zenon, <3>3, <3>4
  <2> QED BY Zenon, <2>1, <2>2
<1> QED BY Zenon, <1>6, <1>9, <1>10, <1>11 DEF IInv

\* markPending leaves commands behind, and touches nothing else.
LEMMA CommandType ==
  ASSUME IInv, NEW c \in Conn, NEW s \in Schema, NEW e \in Opt(Hash), NEW b1 \in BOOLEAN, NEW b2 \in BOOLEAN
  PROVE  LET p == IF pending[c][s] # None THEN pending[c][s] ELSE PendingOf(e, HashOf(AuthOf(c, s)))
         IN [p EXCEPT !.stmt = @ \/ b1, !.commit = @ \/ b2] \in PendingType
<1>1. HashOf(AuthOf(c, s)) \in Opt(Hash)
  BY Zenon, HashTypes
<1>2. pending[c][s] # None => pending[c][s] \in PendingType
  BY DEF IInv, Shape, Opt
<1>3. PendingOf(e, HashOf(AuthOf(c, s))) \in PendingType
  BY Zenon, <1>1 DEF PendingOf, PendingType
<1> QED BY Zenon, <1>2, <1>3 DEF PendingType

Pended(c, S, p) == pending' = [pending EXCEPT ![c] = [s \in Schema |-> IF s \in S THEN p[s] ELSE pending[c][s]]]

LEMMA PendedShape ==
  ASSUME IInv, NEW c \in Conn, NEW S, NEW p \in [Schema -> PendingType], Pended(c, S, p)
  PROVE  pending' \in [Conn -> [Schema -> Opt(PendingType)]]
<1>1. pending \in [Conn -> [Schema -> Opt(PendingType)]]
  BY Zenon DEF IInv, Shape
<1> HIDE DEF PendingType
<1> QED BY Zenon, <1>1 DEF Pended, Opt

\* Whatever hash a command is to expect, marking leaves commands.
LEMMA MarkShape ==
  ASSUME IInv, NEW c \in Conn, NEW S, NEW b1 \in BOOLEAN, NEW b2 \in BOOLEAN,
         NEW e \in [Schema -> Opt(Hash)], Mark(c, S, b1, b2, e)
  PROVE  pending' \in [Conn -> [Schema -> Opt(PendingType)]]
<1> DEFINE P == [s \in Schema |->
             LET p == IF pending[c][s] # None THEN pending[c][s] ELSE PendingOf(e[s], HashOf(AuthOf(c, s)))
             IN [p EXCEPT !.stmt = @ \/ b1, !.commit = @ \/ b2]]
<1>1. P \in [Schema -> PendingType]
  <2>1. \A s \in Schema : e[s] \in Opt(Hash)
    BY Zenon
  <2> QED BY Zenon, <2>1, CommandType
<1>2. Pended(c, S, P)
  BY Zenon DEF Mark, Pended
<1> HIDE DEF P
<1> QED BY Zenon, <1>1, <1>2, PendedShape

\* Commands, transactions and the target database may change under what is held.
LEMMA QuietIInv ==
  ASSUME IInv, UNCHANGED <<held, auth, now, evidence>>,
         pending' \in [Conn -> [Schema -> Opt(PendingType)]],
         push' \in [Conn -> Opt(Message)],
         db' \in [Datasource -> [Schema -> Hash]], tx' \in [Conn -> [Schema -> Opt(Hash)]],
         ddls' \in 0 .. MaxDdl
  PROVE  IInv'
BY Zenon, FrameIInv DEF IInv, Shape

\* A record that goes takes what it holds along.
LEMMA DropIInv ==
  ASSUME IInv, NEW c \in Conn, Drop(c), push' \in [Conn -> Opt(Message)], tx' \in [Conn -> [Schema -> Opt(Hash)]]
  PROVE  IInv'
<1>1. /\ held' = [held EXCEPT ![c] = NoSchemas] /\ pending' = [pending EXCEPT ![c] = NoSchemas]
      /\ UNCHANGED <<auth, now, db, ddls, evidence>>
  BY Zenon DEF Drop
<1>2. /\ held' \in [Conn -> [Schema -> Opt(HeldType)]] /\ pending' \in [Conn -> [Schema -> Opt(PendingType)]]
      /\ \A o \in Conn, t \in Schema : held'[o][t] # None => held'[o][t] = held[o][t]
  BY Zenon, <1>1 DEF IInv, Shape, NoSchemas, Opt
<1>3. Shape'
  BY Zenon, <1>1, <1>2 DEF IInv, Shape
<1>4. Past' /\ AuthVouched'
  BY Zenon, <1>1 DEF IInv, Past, AuthVouched, Vouched
<1>5. HeldVouched'
  <2> SUFFICES ASSUME NEW o \in Conn, NEW t \in Schema, held'[o][t] # None
               PROVE  Vouched(held[o][t].verified, evidence[DsOf[o]][t][held[o][t].hash], now)
    BY Zenon, <1>1, <1>2 DEF HeldVouched, Vouched
  <2>1. held[o][t] # None
    BY Zenon, <1>2
  <2> QED BY Zenon, <2>1 DEF IInv, HeldVouched
<1> QED BY Zenon, <1>3, <1>4, <1>5 DEF IInv

\* Every step keeps every stamp vouched for.
LEMMA StepIInv == IInv /\ [Next]_vars => IInv'
<1> SUFFICES ASSUME IInv, [Next]_vars PROVE IInv'
  BY Zenon
<1>t. /\ push \in [Conn -> Opt(Message)] /\ pending \in [Conn -> [Schema -> Opt(PendingType)]]
      /\ db \in [Datasource -> [Schema -> Hash]] /\ tx \in [Conn -> [Schema -> Opt(Hash)]]
      /\ ddls \in 0 .. MaxDdl
  BY Zenon DEF IInv, Shape
<1>u. NoSchemas \in [Schema -> Opt(Hash)]
  BY Zenon DEF NoSchemas, Opt
<1> HIDE DEF IInv
<1>1. ASSUME NEW c \in Conn, Open(c) PROVE IInv'
  BY Zenon, <1>1, IssueIInv DEF Open, dbVars, ghosts
<1>2. ASSUME NEW c \in Conn, Serve(c) PROVE IInv'
  BY Zenon, <1>2, <1>t, QuietIInv DEF Serve, dbVars, ghosts
<1>3. ASSUME NEW c \in Conn, RecoverPut(c) PROVE IInv'
  BY Zenon, <1>3, <1>t, QuietIInv DEF RecoverPut, dbVars, ghosts
<1>4. ASSUME NEW c \in Conn, RecoverIssue(c) PROVE IInv'
  BY Zenon, <1>4, IssueIInv DEF RecoverIssue, dbVars, ghosts
<1>5. ASSUME NEW c \in Conn, Close(c) PROVE IInv'
  <2>1. push' \in [Conn -> Opt(Message)] /\ tx' \in [Conn -> [Schema -> Opt(Hash)]]
    BY Zenon, <1>5, <1>t, <1>u DEF Close, Ended, Opt
  <2> QED BY Zenon, <1>5, <2>1, DropIInv DEF Close
<1>6. ASSUME NEW c \in Conn, SweepIdle(c) PROVE IInv'
  BY Zenon, <1>6, <1>t, DropIInv DEF SweepIdle
<1>7. ASSUME NEW c \in Conn, CloseUnknown(c) PROVE IInv'
  <2>1. push' \in [Conn -> Opt(Message)] /\ tx' \in [Conn -> [Schema -> Opt(Hash)]]
    BY Zenon, <1>7, <1>t, <1>u DEF CloseUnknown, Ended, Opt
  <2> QED BY Zenon, <1>7, <1>t, <2>1, QuietIInv DEF CloseUnknown, ghosts
<1>8. ASSUME NEW c \in Conn, NEW S \in SUBSET Schema, BeforeDecide(c, S) PROVE IInv'
  <2>2. pending' \in [Conn -> [Schema -> Opt(PendingType)]]
    BY Zenon, <1>8, MarkShape, HashTypes DEF BeforeDecide
  <2> QED BY Zenon, <1>8, <1>t, <2>2, QuietIInv DEF BeforeDecide, dbVars, ghosts
<1>9. ASSUME NEW c \in Conn, NEW S \in SUBSET Schema, CatalogMiss(c, S) PROVE IInv'
  <2>1. pending' \in [Conn -> [Schema -> Opt(PendingType)]]
    BY Zenon, <1>9, MarkShape, HashTypes DEF CatalogMiss
  <2> QED BY Zenon, <1>9, <1>t, <2>1, QuietIInv DEF CatalogMiss, dbVars, ghosts
<1>10. ASSUME NEW c \in Conn, NEW S \in SUBSET Schema, NEW s \in Schema, DecideDdl(c, S, s) PROVE IInv'
  <2>1. pending' \in [Conn -> [Schema -> Opt(PendingType)]]
    BY Zenon, <1>10, MarkShape, HashTypes DEF DecideDdl
  <2>2. ddls' \in 0 .. MaxDdl /\ NewStructures(c, s) \subseteq Hash
    BY <1>10, <1>t, Bounds DEF DecideDdl, NewStructures, Hash
  <2>3. db' \in [Datasource -> [Schema -> Hash]] /\ tx' \in [Conn -> [Schema -> Opt(Hash)]]
    <3>1. PICK h \in Hash : IF TxDdl THEN tx' = [tx EXCEPT ![c][s] = h] /\ UNCHANGED db
                                     ELSE db' = [db EXCEPT ![DsOf[c]][s] = h] /\ UNCHANGED tx
      BY Zenon, <1>10, <2>2 DEF DecideDdl
    <3>2. h \in Opt(Hash) /\ DsOf[c] \in Datasource
      BY Zenon, Binding DEF Opt
    <3>3. \/ tx' = [tx EXCEPT ![c][s] = h] /\ db' = db
          \/ db' = [db EXCEPT ![DsOf[c]][s] = h] /\ tx' = tx
      BY Zenon, <3>1, EngineTraits
    <3>4. [tx EXCEPT ![c][s] = h] \in [Conn -> [Schema -> Opt(Hash)]]
      BY Zenon, <1>t, <3>2
    <3>5. [db EXCEPT ![DsOf[c]][s] = h] \in [Datasource -> [Schema -> Hash]]
      BY Zenon, <1>t, <3>2
    <3> QED BY Zenon, <1>t, <3>3, <3>4, <3>5
  <2> QED BY Zenon, <1>10, <1>t, <2>1, <2>2, <2>3, QuietIInv DEF DecideDdl
<1>11. ASSUME NEW c \in Conn, DecideCommit(c) PROVE IInv'
  <2>1. pending' \in [Conn -> [Schema -> Opt(PendingType)]]
    BY Zenon, <1>11, MarkShape, HashTypes DEF DecideCommit
  <2>2. \A s \in Schema : View(c, s) \in Hash
    BY Zenon, ViewType
  <2>3. db' \in [Datasource -> [Schema -> Hash]] /\ tx' \in [Conn -> [Schema -> Opt(Hash)]]
    BY Zenon, <1>11, <1>t, <1>u, <2>2, Binding DEF DecideCommit
  <2> QED BY Zenon, <1>11, <1>t, <2>1, <2>3, QuietIInv DEF DecideCommit
<1>12. ASSUME NEW c \in Conn, DecideRollback(c) PROVE IInv'
  <2>1. tx' \in [Conn -> [Schema -> Opt(Hash)]]
    BY Zenon, <1>12, <1>t, <1>u DEF DecideRollback
  <2> QED BY Zenon, <1>12, <1>t, <2>1, QuietIInv DEF DecideRollback, ghosts
<1>13. ASSUME NEW c \in Conn, NEW s \in Schema PROVE Report(c, s) \in Message
  BY Zenon, ViewType DEF Report, Message
<1>14. ASSUME NEW c \in Conn, NEW s \in Schema, Refetch(c, s) PROVE IInv'
  BY Zenon, <1>14, <1>13, <1>t, PushIInv DEF Refetch, dbVars
<1>15. ASSUME NEW c \in Conn, NEW s \in Schema, Inspect(c, s) PROVE IInv'
  <2>1. push' \in [Conn -> Opt(Message)]
    BY Zenon, <1>15, <1>13, <1>t DEF Inspect, Opt
  <2> QED BY Zenon, <1>15, <1>t, <2>1, QuietIInv DEF Inspect, dbVars, ghosts
<1>16. ASSUME NEW c \in Conn, PushSchemaFragment(c) PROVE IInv'
  <2>1. push[c] \in Message /\ push' \in [Conn -> Opt(Message)]
    BY Zenon, <1>16, <1>t DEF PushSchemaFragment, Opt
  <2> QED BY Zenon, <1>16, <2>1, PushIInv DEF PushSchemaFragment, dbVars
<1>17. ASSUME NEW d \in Datasource, NEW read \in CatalogReads(d), CatalogPush(d, read) PROVE IInv'
  <2>1. read \in [Schema -> Hash]
    BY <1>17, <1>t, Bounds DEF CatalogReads, Hash
  <2> QED BY Zenon, <1>17, <2>1, CatalogPushIInv
<1>18. ASSUME NEW d \in Datasource, InvalidateDatasource(d) PROVE IInv'
  <2>1. /\ auth' = [auth EXCEPT ![d] = NoSchemas]
        /\ UNCHANGED <<held, pending, push, now, db, tx, ddls, evidence>>
    BY Zenon, <1>18 DEF InvalidateDatasource, dbVars, ghosts
  <2>2. /\ auth' \in [Datasource -> [Schema -> Opt(AuthType)]]
        /\ \A e \in Datasource, t \in Schema : auth'[e][t] # None => auth'[e][t] = auth[e][t]
    BY Zenon, <2>1 DEF IInv, Shape, NoSchemas, Opt
  <2>3. Shape'
    BY Zenon, <2>1, <2>2 DEF IInv, Shape
  <2>4. Past' /\ HeldVouched'
    BY Zenon, <2>1 DEF IInv, Past, HeldVouched, Vouched
  <2>5. AuthVouched'
    <3> SUFFICES ASSUME NEW e \in Datasource, NEW t \in Schema, auth'[e][t] # None
                 PROVE  Vouched(auth[e][t].inspected, evidence[e][t][auth[e][t].hash], now)
      BY Zenon, <2>1, <2>2 DEF AuthVouched, Vouched
    <3>1. auth[e][t] # None
      BY Zenon, <2>2
    <3> QED BY Zenon, <3>1 DEF IInv, AuthVouched
  <2> QED BY Zenon, <2>3, <2>4, <2>5 DEF IInv
<1>19. ASSUME NEW d \in Datasource, NEW s \in Schema, OutsideDdl(d, s) PROVE IInv'
  <2>1. ddls' \in 0 .. MaxDdl /\ ddls + 1 \in Hash
    BY <1>19, <1>t, Bounds DEF OutsideDdl, Hash
  <2>2. db' \in [Datasource -> [Schema -> Hash]]
    BY Zenon, <1>19, <1>t, <2>1 DEF OutsideDdl
  <2> QED BY Zenon, <1>19, <1>t, <2>1, <2>2, QuietIInv DEF OutsideDdl, ghosts
<1>20. CASE Restart
  <2>1. /\ held' = [o \in Conn |-> NoSchemas] /\ pending' = [o \in Conn |-> NoSchemas]
        /\ auth' = [e \in Datasource |-> NoSchemas]
        /\ UNCHANGED <<now, db, tx, ddls, push, evidence>>
    BY Zenon, <1>20 DEF Restart, dbVars
  <2>2. Shape'
    BY Zenon, <2>1 DEF IInv, Shape, NoSchemas, Opt
  <2>3. Past'
    BY Zenon, <2>1 DEF IInv, Past
  <2>4. HeldVouched' /\ AuthVouched'
    BY Zenon, <2>1 DEF HeldVouched, AuthVouched, NoSchemas
  <2> QED BY Zenon, <2>2, <2>3, <2>4 DEF IInv
<1>21. CASE Tick
  <2>1. now' = now + 1 /\ UNCHANGED <<held, pending, auth, push, db, tx, ddls, evidence>>
    BY Zenon, <1>21 DEF Tick, dbVars, ghosts
  <2>2. Shape' /\ Past'
    BY <2>1 DEF IInv, Shape, Past, Opt
  <2>3. ASSUME NEW v \in Int, NEW ev, Vouched(v, ev, now) PROVE Vouched(v, ev, now')
    BY <2>1, <2>3, Bounds, ClockType DEF Vouched
  <2>4. HeldVouched'
    <3> SUFFICES ASSUME NEW o \in Conn, NEW t \in Schema, held[o][t] # None
                 PROVE  Vouched(held[o][t].verified, evidence[DsOf[o]][t][held[o][t].hash], now')
      BY Zenon, <2>1 DEF HeldVouched, Vouched
    <3>1. Vouched(held[o][t].verified, evidence[DsOf[o]][t][held[o][t].hash], now)
      BY Zenon DEF IInv, HeldVouched
    <3> QED BY Zenon, <2>3, <3>1, HeldEntry
  <2>5. AuthVouched'
    <3> SUFFICES ASSUME NEW e \in Datasource, NEW t \in Schema, auth[e][t] # None
                 PROVE  Vouched(auth[e][t].inspected, evidence[e][t][auth[e][t].hash], now')
      BY Zenon, <2>1 DEF AuthVouched, Vouched
    <3>1. Vouched(auth[e][t].inspected, evidence[e][t][auth[e][t].hash], now)
      BY Zenon DEF IInv, AuthVouched
    <3> QED BY Zenon, <2>3, <3>1, AuthEntry
  <2> QED BY Zenon, <2>2, <2>4, <2>5 DEF IInv
<1>22. CASE UNCHANGED vars
  BY Zenon, <1>22, <1>t, QuietIInv DEF vars, dbVars, ghosts
<1> QED
  BY Zenon, <1>1, <1>2, <1>3, <1>4, <1>5, <1>6, <1>7, <1>8, <1>9, <1>10, <1>11, <1>12, <1>14, <1>15, <1>16, <1>17,
     <1>18, <1>19, <1>20, <1>21, <1>22 DEF Next

\* The strengthening of DecidedOnEvidence holds in every reachable state.
THEOREM EvidenceInvariant == Spec => []IInv
BY InitIInv, StepIInv, PTL DEF Spec

\* A stamp within the staleness bound that is vouched for has evidence as young as itself.
LEMMA VouchedFresh ==
  ASSUME NEW v \in Int, NEW e \in Opt(Nat), NEW t \in Nat, Vouched(v, e, t), t - v <= Staleness
  PROVE  e # None /\ t - e <= Staleness
<1>1. Staleness \in Nat
  BY Zenon, Bounds
<1>2. ~(t - v > Staleness)
  BY <1>1, SMT
<1>3. e # None /\ v <= e
  BY Zenon, <1>2 DEF Vouched
<1>4. e \in Nat
  BY Zenon, <1>3 DEF Opt
<1>5. t - e <= Staleness
  BY <1>1, <1>3, <1>4, SMT
<1> QED BY Zenon, <1>3, <1>5

\* freshnessGate lets a statement through only on a structure that an inspection of the same
\* datasource showed within the staleness bound, whatever is adopted, shared, recovered or late.
THEOREM GateHasEvidence == Spec => []DecidedOnEvidence
<1>1. IInv => DecidedOnEvidence
  <2> SUFFICES ASSUME IInv, NEW c \in Conn, NEW s \in Schema, Fresh(c, s)
               PROVE  /\ evidence[DsOf[c]][s][held[c][s].hash] # None
                      /\ now - evidence[DsOf[c]][s][held[c][s].hash] <= Staleness
    BY Zenon DEF DecidedOnEvidence
  <2>1. held[c][s] # None /\ held[c][s].verified \in Int /\ held[c][s].hash \in Hash
    <3>1. held[c][s] # None
      BY Zenon DEF Fresh
    <3>2. held[c][s] \in Opt(HeldType)
      BY Zenon DEF IInv, Shape
    <3> QED BY Zenon, <3>1, <3>2 DEF Opt, HeldType
  <2>2. evidence[DsOf[c]][s][held[c][s].hash] \in Opt(Nat) /\ now \in Nat
    <3>1. DsOf[c] \in Datasource
      BY Zenon, Binding
    <3> QED BY <2>1, <3>1 DEF IInv, Shape
  <2>3. now - held[c][s].verified <= Staleness
    BY Zenon DEF Fresh
  <2>4. Vouched(held[c][s].verified, evidence[DsOf[c]][s][held[c][s].hash], now)
    BY Zenon, <2>1 DEF IInv, HeldVouched
  <2> QED BY Zenon, <2>1, <2>2, <2>3, <2>4, VouchedFresh
<1> QED BY <1>1, EvidenceInvariant, PTL

-----------------------------------------------------------------------------
\* What the operations leave in the entries they touch.

\* A command's types.
LEMMA PendingEntry ==
  ASSUME IInv, NEW c \in Conn, NEW s \in Schema, pending[c][s] # None
  PROVE  /\ pending[c][s] \in PendingType
         /\ pending[c][s].expected \in Opt(Hash) /\ pending[c][s].at \in Opt(Hash)
<1>1. pending \in [Conn -> [Schema -> Opt(PendingType)]]
  BY Zenon DEF IInv, Shape
<1>2. pending[c][s] \in PendingType
  BY Zenon, <1>1 DEF Opt
<1> QED  BY Zenon, <1>2 DEF PendingType

\* issueInitial: a schema is adopted, or a command to fetch it is left behind.
Issued(c, o, t) ==
  /\ held'[o][t] = IF o = c /\ t \in Adopted(c) THEN Adopt(AuthOf(c, t)) ELSE held[o][t]
  /\ pending'[o][t] = IF o = c /\ t \notin Adopted(c)
                      THEN PendingOf(HashOf(AuthOf(c, t)), HashOf(AuthOf(c, t))) ELSE pending[o][t]

LEMMA IssueEntry ==
  ASSUME IInv, NEW c \in Conn, IssueInitial(c), NEW o \in Conn, NEW t \in Schema
  PROVE  Issued(c, o, t)
<1>1. held \in [Conn -> [Schema -> Opt(HeldType)]] /\ pending \in [Conn -> [Schema -> Opt(PendingType)]]
  BY Zenon DEF IInv, Shape
<1>2. held'[o][t] = IF o = c /\ t \in Adopted(c) THEN Adopt(AuthOf(c, t)) ELSE held[o][t]
  BY Zenon, <1>1 DEF IssueInitial
<1>3. pending'[o][t] = IF o = c /\ t \notin Adopted(c)
                       THEN PendingOf(HashOf(AuthOf(c, t)), HashOf(AuthOf(c, t))) ELSE pending[o][t]
  BY Zenon, <1>1 DEF IssueInitial
<1> QED  BY Zenon, <1>2, <1>3 DEF Issued

\* A record that goes takes its entries along.
Dropped(c, o, t) ==
  /\ held'[o][t] = IF o = c THEN None ELSE held[o][t]
  /\ pending'[o][t] = IF o = c THEN None ELSE pending[o][t]

LEMMA DropEntry ==
  ASSUME IInv, NEW c \in Conn, Drop(c), NEW o \in Conn, NEW t \in Schema
  PROVE  Dropped(c, o, t)
<1>1. held \in [Conn -> [Schema -> Opt(HeldType)]] /\ pending \in [Conn -> [Schema -> Opt(PendingType)]]
  BY Zenon DEF IInv, Shape
<1>2. held' = [held EXCEPT ![c] = NoSchemas] /\ pending' = [pending EXCEPT ![c] = NoSchemas]
  BY Zenon DEF Drop
<1> QED  BY Zenon, <1>1, <1>2 DEF NoSchemas, Dropped

\* The command a mark adds to: the one there is, or a new one.
Command(c, s, e) == IF pending[c][s] # None THEN pending[c][s] ELSE PendingOf(e, HashOf(AuthOf(c, s)))

\* What markPending leaves of the command of o for t: a mark more if it is one of c for S.
Marked(c, S, b1, b2, e, o, t) ==
  /\ o # c \/ t \notin S => pending'[o][t] = pending[o][t]
  /\ o = c /\ t \in S => /\ pending'[o][t] # None
                         /\ pending'[o][t].expected = Command(c, t, e[t]).expected
                         /\ pending'[o][t].at = Command(c, t, e[t]).at
                         /\ pending'[o][t].stmt = (Command(c, t, e[t]).stmt \/ b1)
                         /\ pending'[o][t].commit = (Command(c, t, e[t]).commit \/ b2)

LEMMA MarkEntry ==
  ASSUME IInv, NEW c \in Conn, NEW S, NEW b1 \in BOOLEAN, NEW b2 \in BOOLEAN,
         NEW e \in [Schema -> Opt(Hash)], Mark(c, S, b1, b2, e), NEW o \in Conn, NEW t \in Schema
  PROVE  Marked(c, S, b1, b2, e, o, t)
<1>1. pending \in [Conn -> [Schema -> Opt(PendingType)]]
  BY Zenon DEF IInv, Shape
<1>2. pending'[o][t] = IF o = c /\ t \in S
                       THEN [Command(c, t, e[t]) EXCEPT !.stmt = @ \/ b1, !.commit = @ \/ b2] ELSE pending[o][t]
  BY Zenon, <1>1 DEF Mark, Command
<1>3. Command(c, t, e[t]) \in PendingType
  <2>1. HashOf(AuthOf(c, t)) \in Opt(Hash) /\ e[t] \in Opt(Hash)
    BY Zenon, HashTypes
  <2>2. PendingOf(e[t], HashOf(AuthOf(c, t))) \in PendingType
    BY Zenon, <2>1 DEF PendingOf, PendingType
  <2>3. pending[c][t] # None => pending[c][t] \in PendingType
    BY Zenon, <1>1 DEF Opt
  <2> QED  BY Zenon, <2>2, <2>3 DEF Command
<1>4. ASSUME NEW p \in PendingType
      PROVE  LET q == [p EXCEPT !.stmt = @ \/ b1, !.commit = @ \/ b2]
             IN /\ q.expected = p.expected /\ q.at = p.at
                /\ q.stmt = (p.stmt \/ b1) /\ q.commit = (p.commit \/ b2)
  BY Zenon DEF PendingType
<1>5. ASSUME NEW p \in PendingType PROVE [p EXCEPT !.stmt = @ \/ b1, !.commit = @ \/ b2] \in PendingType
  BY Zenon DEF PendingType
<1>6. o = c /\ t \in S => pending'[o][t] # None
  BY Zenon, <1>2, <1>3, <1>5, NoneIsNoEntry
<1>7. CASE o = c /\ t \in S
  <2>1. pending'[o][t] = [Command(c, t, e[t]) EXCEPT !.stmt = @ \/ b1, !.commit = @ \/ b2]
    BY Zenon, <1>2, <1>7
  <2> HIDE DEF Command, PendingType
  <2> QED  BY Zenon, <1>3, <1>4, <1>6, <1>7, <2>1 DEF Marked
<1>8. CASE o # c \/ t \notin S
  BY Zenon, <1>2, <1>8 DEF Marked
<1> QED  BY Zenon, <1>7, <1>8

\* applyPush, accepted: the command goes, and the connection holds what was pushed; a full structure
\* becomes authoritative, and may join the connection's DDL.
Pushed(c, m, o, t) ==
  /\ pending'[o][t] = IF o = c /\ t = m.schema THEN None ELSE pending[o][t]
  /\ o # c \/ t # m.schema => held'[o][t] = held[o][t]
  /\ o = c /\ t = m.schema => /\ held'[o][t].hash = m.hash
                              /\ held'[o][t].reval = IF m.unchanged THEN pending[c][t].at ELSE None

LEMMA PushEntry ==
  ASSUME IInv, NEW c \in Conn, NEW m \in Message, ApplyPush(c, m), ~Rejected(c, m),
         NEW o \in Conn, NEW t \in Schema
  PROVE  Pushed(c, m, o, t)
<1>0. m.schema \in Schema /\ m.hash \in Hash
  BY Zenon DEF Message
<1>1. held \in [Conn -> [Schema -> Opt(HeldType)]] /\ pending \in [Conn -> [Schema -> Opt(PendingType)]]
  BY Zenon DEF IInv, Shape
<1>4. pending' = [pending EXCEPT ![c][m.schema] = None]
  BY Zenon DEF ApplyPush
<1>5. pending'[o][t] = IF o = c /\ t = m.schema THEN None ELSE pending[o][t]
  <2> HIDE DEF PendingType
  <2> QED  BY Zenon, <1>0, <1>1, <1>4
<1>6. PICK r : /\ r = IF m.unchanged THEN pending[c][m.schema].at ELSE None
               /\ held' = [held EXCEPT ![c][m.schema] = [hash |-> m.hash, verified |-> now, reval |-> r]]
  <2>1. CASE m.unchanged
    BY Zenon, <2>1 DEF ApplyPush, ApplyUnchanged
  <2>2. CASE ~m.unchanged
    BY Zenon, <2>2 DEF ApplyPush, ApplyFull
  <2> QED  BY Zenon, <2>1, <2>2
<1>7. held'[o][t] = IF o = c /\ t = m.schema THEN [hash |-> m.hash, verified |-> now, reval |-> r] ELSE held[o][t]
  <2> HIDE DEF HeldType
  <2> QED  BY Zenon, <1>0, <1>1, <1>6
<1>8. CASE o = c /\ t = m.schema
  <2>1. held'[o][t].hash = m.hash /\ held'[o][t].reval = r
    BY <1>7, <1>8
  <2> QED  BY Zenon, <1>5, <1>6, <1>8, <2>1 DEF Pushed
<1>9. CASE ~(o = c /\ t = m.schema)
  BY Zenon, <1>5, <1>7, <1>9 DEF Pushed
<1> QED  BY Zenon, <1>8, <1>9

PushedAuth(c, m, d, t) ==
  /\ m.unchanged \/ d # DsOf[c] \/ t # m.schema => auth'[d][t] = auth[d][t]
  /\ ~m.unchanged /\ d = DsOf[c] /\ t = m.schema => auth'[d][t] # None /\ auth'[d][t].hash = m.hash

LEMMA PushAuth ==
  ASSUME IInv, NEW c \in Conn, NEW m \in Message, ApplyPush(c, m), ~Rejected(c, m),
         NEW d \in Datasource, NEW t \in Schema
  PROVE  PushedAuth(c, m, d, t)
<1>0. m.schema \in Schema /\ m.hash \in Hash /\ DsOf[c] \in Datasource
  BY Zenon, Binding DEF Message
<1>1. CASE m.unchanged
  BY Zenon, <1>1 DEF ApplyPush, ApplyUnchanged, PushedAuth
<1>2. CASE ~m.unchanged
  <2>1. auth \in [Datasource -> [Schema -> Opt(AuthType)]]
    BY Zenon DEF IInv, Shape
  <2>2. auth' = [auth EXCEPT ![DsOf[c]][m.schema] = [hash |-> m.hash, inspected |-> now]]
    BY Zenon, <1>2 DEF ApplyPush, ApplyFull
  <2>3. [hash |-> m.hash, inspected |-> now] \in AuthType
    BY Zenon, <1>0, ClockType DEF AuthType
  <2>4. auth'[d][t] = IF d = DsOf[c] /\ t = m.schema THEN [hash |-> m.hash, inspected |-> now] ELSE auth[d][t]
    <3> HIDE DEF AuthType
    <3> QED  BY Zenon, <1>0, <2>1, <2>2
  <2>5. CASE d = DsOf[c] /\ t = m.schema
    <3>1. auth'[d][t].hash = m.hash
      BY <2>4, <2>5
    <3>2. auth'[d][t] # None
      BY Zenon, <2>3, <2>4, <2>5, NoneIsNoEntry
    <3> QED  BY Zenon, <1>2, <2>5, <3>1, <3>2 DEF PushedAuth
  <2>6. CASE ~(d = DsOf[c] /\ t = m.schema)
    BY Zenon, <1>2, <2>4, <2>6 DEF PushedAuth
  <2> QED  BY Zenon, <2>5, <2>6
<1> QED  BY Zenon, <1>1, <1>2

\* applyCatalogPush changes stamps only.
LEMMA CatalogEntry ==
  ASSUME IInv, NEW d \in Datasource, NEW read, CatalogPush(d, read), NEW e \in Datasource, NEW t \in Schema
  PROVE  /\ auth'[e][t] # None <=> auth[e][t] # None
         /\ auth[e][t] # None => auth'[e][t].hash = auth[e][t].hash
<1> DEFINE known == {s \in Schema : auth[d][s] # None}
           stamp(s) == IF AuthKey(d, s) \in DOMAIN pool /\ auth[d][s].hash = read[s] THEN now ELSE now - Staleness - 1
<1>0. auth \in [Datasource -> [Schema -> Opt(AuthType)]] /\ now \in Nat
  BY Zenon DEF IInv, Shape
<1> DEFINE q == [x \in known |-> stamp(x)]
<1>a. \A s \in known : q[s] \in Int
  BY <1>0, Bounds
<1>b. \A s \in known : q[s] = stamp(s)
  BY Zenon
<1> HIDE DEF q
<1>1. auth' = [auth EXCEPT ![d] = [s \in Schema |->
        IF s \notin known THEN None ELSE [auth[d][s] EXCEPT !.inspected = q[s]]]]
  BY Zenon, <1>b DEF CatalogPush
<1>2. CASE e = d
  <2>1. auth'[d][t] = IF t \notin known THEN None ELSE [auth[d][t] EXCEPT !.inspected = q[t]]
    BY Zenon, <1>0, <1>1
  <2>2. CASE t \notin known
    BY Zenon, <1>2, <2>1, <2>2
  <2>3. CASE t \in known
    <3>1. auth[d][t] \in AuthType
      BY Zenon, <1>0, <2>3 DEF Opt
    <3>2. /\ [auth[d][t] EXCEPT !.inspected = q[t]] \in AuthType
          /\ [auth[d][t] EXCEPT !.inspected = q[t]].hash = auth[d][t].hash
      BY Zenon, <1>a, <2>3, <3>1 DEF AuthType
    <3> QED  BY Zenon, <1>2, <2>1, <2>3, <3>2, NoneIsNoEntry
  <2> QED  BY Zenon, <2>2, <2>3
<1>3. CASE e # d
  BY Zenon, <1>0, <1>1, <1>3
<1> QED  BY Zenon, <1>2, <1>3

-----------------------------------------------------------------------------
\* Autocommit: the structures a datasource has had are passed on in order.

\* DDL takes effect at once and only through the proxy, a push follows its inspection without delay,
\* every change brings a new structure, and no datasource is deleted.
Autocommit == ~TxDdl /\ Env \cap {"slow", "outside", "delete", "repeat"} = {}

\* Hash h is not younger than the authoritative entry a.
Behind(h, a) == h # None => a # None /\ h <= a.hash

\* The authoritative structure is one the schema has had, and the one it has once every change has
\* been reported.
AuthOrdered(d, s) ==
  auth[d][s] # None => auth[d][s].hash <= db[d][s] /\ (Settled(d, s) => auth[d][s].hash = db[d][s])

\* Nothing a connection holds, has revalidated or was told is younger than what is authoritative.
HeldOrdered(c, s) ==
  held[c][s] # None =>
    /\ Behind(held[c][s].hash, AuthOf(c, s))
    /\ held[c][s].reval # None => held[c][s].reval <= held[c][s].hash

PendingOrdered(c, s) ==
  pending[c][s] # None => Behind(pending[c][s].expected, AuthOf(c, s)) /\ Behind(pending[c][s].at, AuthOf(c, s))

Ordered ==
  /\ unreported \in [Conn -> SUBSET Schema]
  /\ \A c \in Conn : push[c] = None /\ \A s \in Schema : tx[c][s] = None
  /\ \A d \in Datasource, s \in Schema : db[d][s] <= ddls /\ AuthOrdered(d, s)
  /\ \A c \in Conn, s \in Schema : HeldOrdered(c, s) /\ PendingOrdered(c, s)

OrderInv == Autocommit => Ordered

\* Steps that change only what connections hold and were told.
LEMMA OrderedFrame ==
  ASSUME Ordered, UNCHANGED <<auth, db, ddls, tx, push, unreported>>,
         \A c \in Conn, s \in Schema : HeldOrdered(c, s)' /\ PendingOrdered(c, s)'
  PROVE  Ordered'
<1>1. \A d \in Datasource, s \in Schema : db'[d][s] <= ddls' /\ AuthOrdered(d, s)'
  BY Zenon DEF Ordered, AuthOrdered, Settled
<1> QED  BY Zenon, <1>1 DEF Ordered

LEMMA OrderedStutter ==
  ASSUME Ordered, UNCHANGED <<auth, db, ddls, tx, push, unreported, held, pending>>
  PROVE  Ordered'
<1>1. ASSUME NEW c \in Conn, NEW s \in Schema PROVE HeldOrdered(c, s)' /\ PendingOrdered(c, s)'
  <2>1. HeldOrdered(c, s) /\ PendingOrdered(c, s)
    BY Zenon DEF Ordered
  <2> QED  BY Zenon, <2>1 DEF HeldOrdered, PendingOrdered, AuthOf, Behind
<1> QED  BY Zenon, <1>1, OrderedFrame

\* The authoritative hash of a schema as a command's hash is authoritative itself.
LEMMA BehindItself ==
  ASSUME IInv, NEW c \in Conn, NEW s \in Schema
  PROVE  Behind(HashOf(AuthOf(c, s)), AuthOf(c, s))
<1>1. DsOf[c] \in Datasource
  BY Zenon, Binding
<1>2. AuthOf(c, s) # None => AuthOf(c, s).hash \in Hash
  BY Zenon, <1>1, AuthEntry DEF AuthOf
<1>3. \A h \in Hash : h <= h
  BY Bounds DEF Hash
<1> QED  BY Zenon, <1>2, <1>3 DEF Behind, HashOf

LEMMA InitOrdered == Init => Ordered
<1> SUFFICES ASSUME Init PROVE Ordered
  BY Zenon
<1>1. /\ held = [c \in Conn |-> NoSchemas] /\ pending = [c \in Conn |-> NoSchemas]
      /\ tx = [c \in Conn |-> NoSchemas] /\ auth = [d \in Datasource |-> NoSchemas]
      /\ push = [c \in Conn |-> None] /\ ddls = 0 /\ db = [d \in Datasource |-> [s \in Schema |-> 0]]
      /\ unreported = [c \in Conn |-> {}]
  BY Zenon DEF Init
<1>2. \A d \in Datasource, s \in Schema : auth[d][s] = None /\ db[d][s] = 0
  BY Zenon, <1>1 DEF NoSchemas
<1>3. \A c \in Conn, s \in Schema : held[c][s] = None /\ pending[c][s] = None /\ tx[c][s] = None
  BY Zenon, <1>1 DEF NoSchemas
<1>4. unreported \in [Conn -> SUBSET Schema] /\ \A c \in Conn : push[c] = None
  BY Zenon, <1>1
<1>5. 0 <= 0
  OBVIOUS
<1> QED  BY Zenon, <1>1, <1>2, <1>3, <1>4, <1>5 DEF Ordered, AuthOrdered, HeldOrdered, PendingOrdered

\* issueInitial passes on what is authoritative.
LEMMA IssueOrdered ==
  ASSUME IInv, Ordered, NEW c \in Conn, IssueInitial(c), UNCHANGED <<auth, db, ddls, tx, push, unreported>>
  PROVE  Ordered'
<1>1. ASSUME NEW o \in Conn, NEW t \in Schema PROVE HeldOrdered(o, t)' /\ PendingOrdered(o, t)'
  <2>i. Issued(c, o, t)
    BY Zenon, IssueEntry
  <2>1. /\ held'[o][t] = IF o = c /\ t \in Adopted(c) THEN Adopt(AuthOf(c, t)) ELSE held[o][t]
        /\ pending'[o][t] = IF o = c /\ t \notin Adopted(c)
                            THEN PendingOf(HashOf(AuthOf(c, t)), HashOf(AuthOf(c, t))) ELSE pending[o][t]
    BY Zenon, <2>i DEF Issued
  <2>2. HeldOrdered(o, t) /\ PendingOrdered(o, t) /\ AuthOf(o, t)' = AuthOf(o, t)
    BY Zenon DEF Ordered, AuthOf
  <2>3. HeldOrdered(o, t)'
    <3>1. CASE o = c /\ t \in Adopted(c)
      <4>1. held'[o][t].hash = AuthOf(c, t).hash /\ held'[o][t].reval = None
        BY <2>1, <3>1 DEF Adopt
      <4>2. AuthOf(c, t) # None
        BY Zenon, <3>1 DEF Adopted
      <4>3. Behind(AuthOf(c, t).hash, AuthOf(c, t))
        BY Zenon, <4>2, BehindItself DEF HashOf
      <4> QED  BY Zenon, <2>2, <3>1, <4>1, <4>3 DEF HeldOrdered, Behind
    <3>2. CASE ~(o = c /\ t \in Adopted(c))
      BY Zenon, <2>1, <2>2, <3>2 DEF HeldOrdered, Behind
    <3> QED  BY Zenon, <3>1, <3>2
  <2>4. PendingOrdered(o, t)'
    <3>1. CASE o = c /\ t \notin Adopted(c)
      <4>1. pending'[o][t].expected = HashOf(AuthOf(c, t)) /\ pending'[o][t].at = HashOf(AuthOf(c, t))
        BY <2>1, <3>1 DEF PendingOf
      <4> QED  BY Zenon, <2>2, <3>1, <4>1, BehindItself DEF PendingOrdered, Behind
    <3>2. CASE ~(o = c /\ t \notin Adopted(c))
      BY Zenon, <2>1, <2>2, <3>2 DEF PendingOrdered, Behind
    <3> QED  BY Zenon, <3>1, <3>2
  <2> QED  BY Zenon, <2>3, <2>4
<1> QED  BY Zenon, <1>1, OrderedFrame

LEMMA DropOrdered ==
  ASSUME IInv, Ordered, NEW c \in Conn, Drop(c), push' = push \/ push' = [push EXCEPT ![c] = None],
         tx' = tx \/ tx' = [tx EXCEPT ![c] = NoSchemas]
  PROVE  Ordered'
<1>1. UNCHANGED <<auth, db, ddls, unreported>>
  BY Zenon DEF Drop
<1>2. push \in [Conn -> Opt(Message)] /\ tx \in [Conn -> [Schema -> Opt(Hash)]]
  BY Zenon DEF IInv, Shape
<1>a. ASSUME NEW o \in Conn PROVE push'[o] = None
  <2>1. push[o] = None
    BY Zenon DEF Ordered
  <2> HIDE DEF Message
  <2> QED  BY Zenon, <1>2, <2>1
<1>b. ASSUME NEW o \in Conn, NEW s \in Schema PROVE tx'[o][s] = None
  <2>1. tx[o][s] = None
    BY Zenon DEF Ordered
  <2> QED  BY <1>2, <2>1 DEF NoSchemas
<1>3. \A o \in Conn : push'[o] = None /\ \A s \in Schema : tx'[o][s] = None
  BY Zenon, <1>a, <1>b
<1>4. ASSUME NEW o \in Conn, NEW t \in Schema PROVE HeldOrdered(o, t)' /\ PendingOrdered(o, t)'
  <2>d. Dropped(c, o, t)
    BY Zenon, DropEntry
  <2>1. (held'[o][t] = None \/ held'[o][t] = held[o][t]) /\ (pending'[o][t] = None \/ pending'[o][t] = pending[o][t])
    BY Zenon, <2>d DEF Dropped
  <2>2. HeldOrdered(o, t) /\ PendingOrdered(o, t) /\ AuthOf(o, t)' = AuthOf(o, t)
    BY Zenon, <1>1 DEF Ordered, AuthOf
  <2> QED  BY Zenon, <2>1, <2>2 DEF HeldOrdered, PendingOrdered, Behind
<1>5. \A d \in Datasource, s \in Schema : db'[d][s] <= ddls' /\ AuthOrdered(d, s)'
  BY Zenon, <1>1 DEF Ordered, AuthOrdered, Settled
<1> QED  BY Zenon, <1>1, <1>3, <1>4, <1>5 DEF Ordered

\* What a connection holds, or else the authoritative structure, is a hash a command may expect.
LEMMA ExpectedOrdered ==
  ASSUME IInv, Ordered, NEW c \in Conn, NEW s \in Schema
  PROVE  /\ Behind(HeldHash(c)[s], AuthOf(c, s)) /\ Behind(HeldOrAuth(c)[s], AuthOf(c, s))
         /\ Behind(Unconditional[s], AuthOf(c, s))
<1>1. HeldOrdered(c, s)
  BY Zenon DEF Ordered
<1>2. Behind(HashOf(held[c][s]), AuthOf(c, s))
  BY Zenon, <1>1 DEF HeldOrdered, Behind, HashOf
<1>3. HeldHash(c)[s] = HashOf(held[c][s])
  BY Zenon DEF HeldHash
<1>4. HeldOrAuth(c)[s] = HashOf(held[c][s]) \/ HeldOrAuth(c)[s] = HashOf(AuthOf(c, s))
  BY Zenon DEF HeldOrAuth
<1>5. Unconditional[s] = None
  BY Zenon DEF Unconditional, NoSchemas
<1>6. Behind(HeldOrAuth(c)[s], AuthOf(c, s))
  BY Zenon, <1>2, <1>4, BehindItself
<1>7. Behind(Unconditional[s], AuthOf(c, s))
  BY Zenon, <1>5 DEF Behind
<1> QED  BY Zenon, <1>2, <1>3, <1>6, <1>7

\* The commands markPending leaves behind.
LEMMA MarkOrdered ==
  ASSUME IInv, Ordered, NEW c \in Conn, NEW S, NEW b1 \in BOOLEAN, NEW b2 \in BOOLEAN,
         NEW e \in {HeldHash(c), HeldOrAuth(c), Unconditional}, Mark(c, S, b1, b2, e), UNCHANGED auth
  PROVE  \A o \in Conn, t \in Schema : PendingOrdered(o, t)'
<1> SUFFICES ASSUME NEW o \in Conn, NEW t \in Schema PROVE PendingOrdered(o, t)'
  BY Zenon
<1>0. e \in [Schema -> Opt(Hash)]
  BY Zenon, HashTypes
<1>1. PendingOrdered(o, t) /\ AuthOf(o, t)' = AuthOf(o, t)
  BY Zenon DEF Ordered, AuthOf
<1>m. Marked(c, S, b1, b2, e, o, t)
  BY Zenon, <1>0, MarkEntry
<1>2. CASE o # c \/ t \notin S
  <2>1. pending'[o][t] = pending[o][t]
    BY Zenon, <1>2, <1>m DEF Marked
  <2> QED  BY Zenon, <1>1, <2>1 DEF PendingOrdered, Behind
<1>3. CASE o = c /\ t \in S
  <2>1. /\ pending'[o][t].expected = Command(c, t, e[t]).expected
        /\ pending'[o][t].at = Command(c, t, e[t]).at
    BY Zenon, <1>3, <1>m DEF Marked
  <2>2. Behind(e[t], AuthOf(c, t)) /\ Behind(HashOf(AuthOf(c, t)), AuthOf(c, t))
    BY Zenon, ExpectedOrdered, BehindItself
  <2>3. Behind(Command(c, t, e[t]).expected, AuthOf(c, t)) /\ Behind(Command(c, t, e[t]).at, AuthOf(c, t))
    <3>1. CASE pending[c][t] # None
      BY Zenon, <1>1, <1>3, <3>1 DEF Command, PendingOrdered
    <3>2. CASE pending[c][t] = None
      <4>1. /\ Command(c, t, e[t]).expected = e[t]
            /\ Command(c, t, e[t]).at = HashOf(AuthOf(c, t))
        BY Zenon, <3>2 DEF Command, PendingOf
      <4> QED  BY Zenon, <2>2, <4>1
    <3> QED  BY Zenon, <3>1, <3>2
  <2> QED  BY Zenon, <1>1, <1>3, <2>1, <2>3 DEF PendingOrdered, Behind
<1> QED  BY Zenon, <1>2, <1>3

\* A hash stays behind an authoritative entry that gets younger.
LEMMA BehindMono ==
  ASSUME NEW h \in Opt(Hash), NEW a, NEW b, Behind(h, a),
         a # None => b # None /\ a.hash \in Hash /\ b.hash \in Hash /\ a.hash <= b.hash
  PROVE  Behind(h, b)
<1>1. CASE h = None
  BY Zenon, <1>1 DEF Behind
<1>2. CASE h # None
  <2>1. a # None /\ h <= a.hash /\ h \in Hash
    BY Zenon, <1>2 DEF Behind, Opt
  <2>2. \A x, y, z \in Hash : x <= y /\ y <= z => x <= z
    BY Bounds DEF Hash
  <2>3. b # None /\ h <= b.hash
    BY Zenon, <2>1, <2>2
  <2> QED  BY Zenon, <2>3 DEF Behind
<1> QED  BY Zenon, <1>1, <1>2

\* DDL: the change is younger than everything known, and not reported yet.
LEMMA DdlOrdered ==
  ASSUME IInv, Autocommit, Ordered, NEW c \in Conn, NEW S \in SUBSET Schema, NEW s \in Schema, DecideDdl(c, S, s)
  PROVE  Ordered'
<1> DEFINE d == DsOf[c]
<1>0. /\ db \in [Datasource -> [Schema -> Hash]] /\ ddls \in Nat /\ d \in Datasource
      /\ unreported \in [Conn -> SUBSET Schema]
  BY Bounds, Binding DEF IInv, Shape, Ordered
<1>1. /\ Mark(c, S \cup {s}, TRUE, FALSE, HeldHash(c)) /\ ddls' = ddls + 1
      /\ unreported' = [unreported EXCEPT ![c] = @ \cup {s}] /\ UNCHANGED <<held, auth, push>>
  BY Zenon DEF DecideDdl
<1>2. UNCHANGED tx /\ db' = [db EXCEPT ![d][s] = ddls + 1]
  <2>1. NewStructures(c, s) = {ddls + 1}
    BY Zenon DEF Autocommit, NewStructures
  <2>2. PICK h \in {ddls + 1} : IF TxDdl THEN tx' = [tx EXCEPT ![c][s] = h] /\ UNCHANGED db
                                         ELSE db' = [db EXCEPT ![DsOf[c]][s] = h] /\ UNCHANGED tx
    BY Zenon, <2>1 DEF DecideDdl
  <2> QED  BY Zenon, <2>2 DEF Autocommit
<1>3. ASSUME NEW o \in Conn, NEW t \in Schema PROVE HeldOrdered(o, t)'
  BY Zenon, <1>1 DEF Ordered, HeldOrdered, AuthOf, Behind
<1>4. \A o \in Conn, t \in Schema : PendingOrdered(o, t)'
  BY Zenon, <1>1, MarkOrdered
<1>5. ASSUME NEW e \in Datasource, NEW t \in Schema PROVE db'[e][t] <= ddls' /\ AuthOrdered(e, t)'
  <2>0. db[e][t] <= ddls /\ AuthOrdered(e, t) /\ db[e][t] \in Nat
    BY <1>0 DEF Ordered, Hash
  <2>1. CASE e = d /\ t = s
    <3>1. db'[e][t] = ddls + 1
      BY Zenon, <1>0, <1>2, <2>1
    <3>2. ~Settled(d, s)'
      <4>1. s \in unreported'[c]
        BY Zenon, <1>0, <1>1
      <4> QED  BY Zenon, <4>1 DEF Settled
    <3>3. auth[e][t] # None => auth[e][t].hash \in Nat /\ auth[e][t].hash <= db[e][t]
      <4>1. auth[e][t] # None => auth[e][t].hash \in Hash
        BY Zenon, AuthEntry
      <4>2. Hash \subseteq Nat
        BY Bounds DEF Hash
      <4> QED  BY Zenon, <2>0, <4>1, <4>2 DEF AuthOrdered
    <3>4. db'[e][t] <= ddls' /\ (auth[e][t] # None => auth[e][t].hash <= db'[e][t])
      BY <1>0, <1>1, <2>0, <3>1, <3>3
    <3> QED  BY Zenon, <1>1, <2>1, <3>2, <3>4 DEF AuthOrdered
  <2>2. CASE ~(e = d /\ t = s)
    <3>1. db'[e][t] = db[e][t]
      BY Zenon, <1>0, <1>2, <2>2
    <3>2. db'[e][t] <= ddls'
      BY <1>0, <1>1, <2>0, <3>1
    <3>3. Settled(e, t)' => Settled(e, t)
      <4>1. \A o \in Conn : unreported[o] \subseteq unreported'[o]
        BY Zenon, <1>0, <1>1
      <4> QED  BY Zenon, <4>1 DEF Settled
    <3> QED  BY Zenon, <1>1, <2>0, <3>1, <3>2, <3>3 DEF AuthOrdered
  <2> QED  BY Zenon, <2>1, <2>2
<1>6. unreported' \in [Conn -> SUBSET Schema]
  BY Zenon, <1>0, <1>1
<1>7. \A o \in Conn : push'[o] = None /\ \A t \in Schema : tx'[o][t] = None
  BY Zenon, <1>1, <1>2 DEF Ordered
<1> QED  BY Zenon, <1>3, <1>4, <1>5, <1>6, <1>7 DEF Ordered

\* An inspection and its push: what is accepted as unchanged was authoritative already, and a full
\* structure becomes so.
LEMMA RefetchOrdered ==
  ASSUME IInv, Autocommit, Ordered, NEW c \in Conn, NEW s \in Schema, Refetch(c, s)
  PROVE  Ordered'
<1> DEFINE d == DsOf[c]
           m == Report(c, s)
<1>0. /\ ApplyPush(c, m) /\ UNCHANGED <<db, tx, ddls, push>> /\ pending[c][s] # None
      /\ d \in Datasource /\ unreported \in [Conn -> SUBSET Schema]
  BY Zenon, Binding DEF Refetch, dbVars, Ordered
<1>1. /\ m \in Message /\ m.schema = s /\ m.hash = db[d][s] /\ m.hash \in Hash
      /\ m.unchanged <=> pending[c][s].expected = db[d][s]
  <2>1. View(c, s) = db[d][s] /\ View(c, s) \in Hash
    BY Zenon, ViewType DEF Ordered, View
  <2> QED  BY Zenon, <2>1 DEF Report, Message
<1> HIDE DEF m
<1>2. CASE Rejected(c, m)
  BY Zenon, <1>0, <1>2, OrderedStutter DEF ApplyPush, ghosts
<1>3. CASE ~Rejected(c, m)
  <2>p. ASSUME NEW o \in Conn, NEW t \in Schema PROVE Pushed(c, m, o, t)
    BY Zenon, <1>0, <1>1, <1>3, PushEntry
  <2>a. ASSUME NEW e \in Datasource, NEW t \in Schema PROVE PushedAuth(c, m, e, t)
    BY Zenon, <1>0, <1>1, <1>3, PushAuth
  <2>1. unreported' = [unreported EXCEPT ![c] = @ \ {s}]
    BY Zenon, <1>0, <1>1, <1>3 DEF ApplyPush
  <2>2. /\ unreported' \in [Conn -> SUBSET Schema]
        /\ \A o \in Conn, t \in Schema : t # s /\ t \in unreported[o] => t \in unreported'[o]
    BY Zenon, <1>0, <2>1
  <2>3. pending[c][s] \in PendingType /\ PendingOrdered(c, s) /\ AuthOrdered(d, s) /\ \A h \in Hash : h <= h
    <3>1. pending[c][s] \in PendingType
      BY Zenon, <1>0, PendingEntry
    <3>2. \A h \in Hash : h <= h
      BY Bounds DEF Hash
    <3> QED  BY Zenon, <1>0, <3>1, <3>2 DEF Ordered
  <2>4. auth'[d][s] # None /\ auth'[d][s].hash = m.hash
    <3>1. CASE m.unchanged
      <4>1. auth'[d][s] = auth[d][s]
        BY Zenon, <1>0, <1>1, <3>1, <2>a DEF PushedAuth
      <4>2. pending[c][s].expected = m.hash /\ m.hash # None
        BY <1>1, <3>1, Bounds, NoneIsNone DEF Hash
      <4>3. auth[d][s] # None /\ m.hash <= auth[d][s].hash /\ auth[d][s].hash <= m.hash
        BY Zenon, <1>0, <1>1, <2>3, <4>2 DEF PendingOrdered, AuthOrdered, Behind, AuthOf
      <4>4. auth[d][s].hash \in Hash
        BY Zenon, <1>0, <4>3, AuthEntry
      <4>5. auth[d][s].hash = m.hash
        BY <1>1, <4>3, <4>4, Bounds DEF Hash
      <4> QED  BY Zenon, <4>1, <4>3, <4>5
    <3>2. CASE ~m.unchanged
      BY Zenon, <1>0, <1>1, <3>2, <2>a DEF PushedAuth
    <3> QED  BY Zenon, <3>1, <3>2
  <2>5. \A e \in Datasource, t \in Schema : e # d \/ t # s => auth'[e][t] = auth[e][t]
    BY Zenon, <1>1, <2>a DEF PushedAuth
  <2>6. ASSUME NEW e \in Datasource, NEW t \in Schema PROVE db'[e][t] <= ddls' /\ AuthOrdered(e, t)'
    <3>0. db'[e][t] = db[e][t] /\ db[e][t] <= ddls /\ ddls' = ddls /\ AuthOrdered(e, t)
      BY Zenon, <1>0 DEF Ordered
    <3>1. CASE e = d /\ t = s
      BY Zenon, <1>1, <2>3, <2>4, <3>0, <3>1 DEF AuthOrdered
    <3>2. CASE t # s
      <4>1. Settled(e, t)' => Settled(e, t)
        BY Zenon, <2>2, <3>2 DEF Settled
      <4> QED  BY Zenon, <2>5, <3>0, <3>2, <4>1 DEF AuthOrdered
    <3>3. CASE e # d /\ t = s
      <4>1. \A o \in Conn : DsOf[o] = e => unreported'[o] = unreported[o]
        BY Zenon, <1>0, <2>1, <3>3
      <4>2. Settled(e, t)' => Settled(e, t)
        BY Zenon, <4>1 DEF Settled
      <4> QED  BY Zenon, <2>5, <3>0, <3>3, <4>2 DEF AuthOrdered
    <3> QED  BY Zenon, <3>1, <3>2, <3>3
  <2>7. ASSUME NEW o \in Conn, NEW t \in Schema
        PROVE  AuthOf(o, t) # None => /\ AuthOf(o, t)' # None /\ AuthOf(o, t).hash \in Hash
                                      /\ AuthOf(o, t)'.hash \in Hash /\ AuthOf(o, t).hash <= AuthOf(o, t)'.hash
    <3>0. DsOf[o] \in Datasource
      BY Zenon, Binding
    <3>1. AuthOf(o, t) # None => AuthOf(o, t).hash \in Hash
      BY Zenon, <3>0, AuthEntry DEF AuthOf
    <3>2. CASE DsOf[o] = d /\ t = s
      BY Zenon, <1>1, <2>3, <2>4, <3>1, <3>2 DEF AuthOf, AuthOrdered
    <3>3. CASE ~(DsOf[o] = d /\ t = s)
      <4>1. AuthOf(o, t)' = AuthOf(o, t)
        BY Zenon, <2>5, <3>0, <3>3 DEF AuthOf
      <4> QED  BY Zenon, <2>3, <3>1, <4>1
    <3> QED  BY Zenon, <3>2, <3>3
  <2>8. ASSUME NEW o \in Conn, NEW t \in Schema PROVE HeldOrdered(o, t)'
    <3>1. CASE o = c /\ t = s
      <4>1. held'[c][s].hash = m.hash /\ held'[c][s].reval = IF m.unchanged THEN pending[c][s].at ELSE None
        BY Zenon, <1>1, <2>p DEF Pushed
      <4>2. Behind(held'[c][s].hash, AuthOf(c, s)')
        BY Zenon, <1>1, <2>3, <2>4, <4>1 DEF Behind, AuthOf
      <4>3. pending[c][s].at # None /\ m.unchanged => pending[c][s].at <= m.hash
        <5>1. m.unchanged => auth'[d][s] = auth[d][s]
          BY Zenon, <1>0, <1>1, <2>a DEF PushedAuth
        <5> QED  BY Zenon, <1>0, <2>3, <2>4, <5>1 DEF PendingOrdered, Behind, AuthOf
      <4> QED  BY Zenon, <3>1, <4>1, <4>2, <4>3 DEF HeldOrdered
    <3>2. CASE ~(o = c /\ t = s)
      <4>0. Pushed(c, m, o, t)
        BY Zenon, <2>p
      <4>1. held'[o][t] = held[o][t]
        BY Zenon, <1>1, <3>2, <4>0 DEF Pushed
      <4>2. HeldOrdered(o, t)
        BY Zenon DEF Ordered
      <4>3. held[o][t] # None => held[o][t].hash \in Opt(Hash)
        BY Zenon, HeldEntry DEF Opt
      <4>4. held[o][t] # None => Behind(held[o][t].hash, AuthOf(o, t)')
        BY Zenon, <2>7, <4>2, <4>3, BehindMono DEF HeldOrdered
      <4> QED  BY Zenon, <4>1, <4>2, <4>4 DEF HeldOrdered
    <3> QED  BY Zenon, <3>1, <3>2
  <2>9. ASSUME NEW o \in Conn, NEW t \in Schema PROVE PendingOrdered(o, t)'
    <3>0. Pushed(c, m, o, t)
      BY Zenon, <2>p
    <3>1. pending'[o][t] = None \/ pending'[o][t] = pending[o][t]
      BY Zenon, <3>0 DEF Pushed
    <3>2. PendingOrdered(o, t)
      BY Zenon DEF Ordered
    <3>3. pending[o][t] # None => pending[o][t].expected \in Opt(Hash) /\ pending[o][t].at \in Opt(Hash)
      BY Zenon, PendingEntry
    <3>4. pending[o][t] # None => /\ Behind(pending[o][t].expected, AuthOf(o, t)')
                                  /\ Behind(pending[o][t].at, AuthOf(o, t)')
      BY Zenon, <2>7, <3>2, <3>3, BehindMono DEF PendingOrdered
    <3> QED  BY Zenon, <3>1, <3>4 DEF PendingOrdered
  <2> QED  BY Zenon, <1>0, <2>2, <2>6, <2>8, <2>9 DEF Ordered
<1> QED  BY Zenon, <1>2, <1>3

\* applyCatalogPush leaves every hash.
LEMMA CatalogOrdered ==
  ASSUME IInv, Ordered, NEW d \in Datasource, NEW read, CatalogPush(d, read)
  PROVE  Ordered'
<1>1. UNCHANGED <<held, pending, db, tx, ddls, push, unreported>>
  BY Zenon DEF CatalogPush, dbVars
<1>2. ASSUME NEW e \in Datasource, NEW t \in Schema
      PROVE  /\ auth'[e][t] # None <=> auth[e][t] # None
             /\ auth[e][t] # None => auth'[e][t].hash = auth[e][t].hash
  BY Zenon, CatalogEntry
<1>3. ASSUME NEW e \in Datasource, NEW t \in Schema PROVE db'[e][t] <= ddls' /\ AuthOrdered(e, t)'
  <2>1. db[e][t] <= ddls /\ AuthOrdered(e, t) /\ (Settled(e, t)' <=> Settled(e, t))
    BY Zenon, <1>1 DEF Ordered, Settled
  <2> QED  BY Zenon, <1>1, <1>2, <2>1 DEF AuthOrdered
<1>4. ASSUME NEW o \in Conn, NEW t \in Schema PROVE HeldOrdered(o, t)' /\ PendingOrdered(o, t)'
  <2>0. DsOf[o] \in Datasource
    BY Zenon, Binding
  <2>1. HeldOrdered(o, t) /\ PendingOrdered(o, t)
    BY Zenon DEF Ordered
  <2>2. \A h : Behind(h, AuthOf(o, t)) => Behind(h, AuthOf(o, t)')
    BY Zenon, <1>2, <2>0 DEF Behind, AuthOf
  <2> QED  BY Zenon, <1>1, <2>1, <2>2 DEF HeldOrdered, PendingOrdered
<1> QED  BY Zenon, <1>1, <1>3, <1>4 DEF Ordered

LEMMA RestartOrdered == IInv /\ Ordered /\ Restart => Ordered'
<1> SUFFICES ASSUME IInv, Ordered, Restart PROVE Ordered'
  BY Zenon
<1>1. /\ held' = [o \in Conn |-> NoSchemas] /\ pending' = [o \in Conn |-> NoSchemas]
      /\ auth' = [e \in Datasource |-> NoSchemas] /\ UNCHANGED <<db, tx, ddls, push, unreported>>
  BY Zenon DEF Restart, dbVars
<1>2. \A o \in Conn, t \in Schema : held'[o][t] = None /\ pending'[o][t] = None
  BY Zenon, <1>1 DEF NoSchemas
<1>3. \A e \in Datasource, t \in Schema : auth'[e][t] = None
  BY Zenon, <1>1 DEF NoSchemas
<1>4. \A e \in Datasource, t \in Schema : db'[e][t] <= ddls' /\ AuthOrdered(e, t)'
  BY Zenon, <1>1, <1>3 DEF Ordered, AuthOrdered
<1>5. \A o \in Conn, t \in Schema : HeldOrdered(o, t)' /\ PendingOrdered(o, t)'
  BY Zenon, <1>2 DEF HeldOrdered, PendingOrdered
<1> QED  BY Zenon, <1>1, <1>4, <1>5 DEF Ordered

\* Every step passes structures on in order.
LEMMA StepOrdered == IInv /\ OrderInv /\ [Next]_vars => OrderInv'
<1> SUFFICES ASSUME IInv, Autocommit, Ordered, [Next]_vars PROVE Ordered'
  BY Zenon DEF OrderInv
<1>e. "slow" \notin Env /\ "outside" \notin Env /\ "delete" \notin Env /\ ~TxDdl
  BY Zenon DEF Autocommit
<1>t. ASSUME NEW c \in Conn PROVE tx[c] = NoSchemas /\ push[c] = None
  <2>1. tx[c] \in [Schema -> Opt(Hash)] /\ \A s \in Schema : tx[c][s] = None
    BY Zenon DEF IInv, Shape, Ordered
  <2>2. tx[c] = NoSchemas
    BY Zenon, <2>1 DEF NoSchemas
  <2> QED  BY Zenon, <2>2 DEF Ordered
<1>1. ASSUME NEW c \in Conn, Open(c) \/ RecoverIssue(c) PROVE Ordered'
  BY Zenon, <1>1, IssueOrdered DEF Open, RecoverIssue, dbVars, ghosts
<1>2. ASSUME NEW c \in Conn, Serve(c) \/ RecoverPut(c) PROVE Ordered'
  BY Zenon, <1>2, OrderedStutter DEF Serve, RecoverPut, dbVars, ghosts
<1>3. ASSUME NEW c \in Conn, Close(c) \/ SweepIdle(c) PROVE Ordered'
  BY Zenon, <1>3, DropOrdered DEF Close, SweepIdle, Ended
<1>4. ASSUME NEW c \in Conn, CloseUnknown(c) PROVE Ordered'
  <2>1. /\ push' = [push EXCEPT ![c] = None] /\ tx' = [tx EXCEPT ![c] = NoSchemas]
        /\ UNCHANGED <<held, pending, auth, db, ddls, unreported>>
    BY Zenon, <1>4 DEF CloseUnknown, Ended, ghosts
  <2>2. push' = push /\ tx' = tx
    <3>1. DOMAIN push = Conn /\ push = [o \in DOMAIN push |-> push[o]]
      <4>1. push \in [Conn -> Opt(Message)]
        BY Zenon DEF IInv, Shape
      <4> QED  BY Zenon, <4>1
    <3>2. DOMAIN tx = Conn /\ tx = [o \in DOMAIN tx |-> tx[o]]
      <4>1. tx \in [Conn -> [Schema -> Opt(Hash)]]
        BY Zenon DEF IInv, Shape
      <4> QED  BY Zenon, <4>1
    <3>3. tx[c] = NoSchemas /\ push[c] = None
      BY Zenon, <1>t
    <3> QED  BY Zenon, <2>1, <3>1, <3>2, <3>3
  <2> QED  BY Zenon, <2>1, <2>2, OrderedStutter
<1>5. ASSUME NEW c \in Conn, NEW S \in SUBSET Schema, BeforeDecide(c, S) \/ CatalogMiss(c, S) PROVE Ordered'
  <2>1. UNCHANGED <<held, auth, db, ddls, tx, push, unreported>>
    BY Zenon, <1>5 DEF BeforeDecide, CatalogMiss, dbVars, ghosts
  <2>2. ASSUME BeforeDecide(c, S) PROVE \A o \in Conn, t \in Schema : PendingOrdered(o, t)'
    <3>1. Mark(c, {s \in S : ~Fresh(c, s)}, FALSE, FALSE, HeldOrAuth(c))
      BY Zenon, <2>2 DEF BeforeDecide
    <3> QED  BY Zenon, <2>1, <3>1, MarkOrdered
  <2>3. ASSUME CatalogMiss(c, S) PROVE \A o \in Conn, t \in Schema : PendingOrdered(o, t)'
    <3>1. Mark(c, S, FALSE, FALSE, Unconditional)
      BY Zenon, <2>3 DEF CatalogMiss
    <3> QED  BY Zenon, <2>1, <3>1, MarkOrdered
  <2>4. \A o \in Conn, t \in Schema : HeldOrdered(o, t)'
    BY Zenon, <2>1 DEF Ordered, HeldOrdered, Behind, AuthOf
  <2> QED  BY Zenon, <1>5, <2>1, <2>2, <2>3, <2>4, OrderedFrame
<1>6. ASSUME NEW c \in Conn, DecideCommit(c) \/ DecideRollback(c) PROVE FALSE
  BY Zenon, <1>t, <1>6 DEF DecideCommit, DecideRollback
<1>7. ASSUME NEW c \in Conn, NEW s \in Schema, Inspect(c, s) PROVE FALSE
  BY Zenon, <1>e, <1>7 DEF Inspect
<1>8. ASSUME NEW c \in Conn, PushSchemaFragment(c) PROVE FALSE
  BY Zenon, <1>t, <1>8 DEF PushSchemaFragment
<1>9. ASSUME NEW d \in Datasource, InvalidateDatasource(d) \/ (\E s \in Schema : OutsideDdl(d, s)) PROVE FALSE
  BY Zenon, <1>e, <1>9 DEF InvalidateDatasource, OutsideDdl
<1>10. CASE Tick \/ UNCHANGED vars
  BY Zenon, <1>10, OrderedStutter DEF Tick, vars, dbVars, ghosts
<1>11. ASSUME NEW c \in Conn, NEW S \in SUBSET Schema, NEW s \in Schema, DecideDdl(c, S, s) PROVE Ordered'
  BY Zenon, <1>11, DdlOrdered
<1>12. ASSUME NEW c \in Conn, NEW s \in Schema, Refetch(c, s) PROVE Ordered'
  BY Zenon, <1>12, RefetchOrdered
<1>13. ASSUME NEW d \in Datasource, NEW read \in CatalogReads(d), CatalogPush(d, read) PROVE Ordered'
  BY Zenon, <1>13, CatalogOrdered
<1> QED
  BY Zenon, <1>1, <1>2, <1>3, <1>4, <1>5, <1>6, <1>7, <1>8, <1>9, <1>10, <1>11, <1>12, <1>13, RestartOrdered DEF Next

\* In every reachable state the structures known of a schema are in the order in which it had them.
THEOREM OrderInvariant == Spec => []OrderInv
<1>1. Init => OrderInv
  BY Zenon, InitOrdered DEF OrderInv
<1> QED  BY <1>1, StepOrdered, EvidenceInvariant, PTL DEF Spec

\* Every record is one of a connection.
ConnsType == conns \subseteq Conn

LEMMA Registered == Spec => []ConnsType
<1>1. Init => ConnsType
  BY Zenon DEF Init, ConnsType
<1>2. ConnsType /\ [Next]_vars => ConnsType'
  <2> SUFFICES ASSUME conns \subseteq Conn, [Next]_vars PROVE conns' \subseteq Conn
    BY Zenon DEF ConnsType
  <2>1. ASSUME NEW c \in Conn, Open(c) \/ RecoverPut(c) \/ Close(c) \/ SweepIdle(c) PROVE conns' \subseteq Conn
    BY Zenon, <2>1 DEF Open, RecoverPut, Close, SweepIdle, Drop
  <2>2. ASSUME NEW c \in Conn, Serve(c) \/ RecoverIssue(c) \/ CloseUnknown(c) \/ DecideCommit(c) \/ DecideRollback(c)
                              \/ PushSchemaFragment(c)
        PROVE  conns' = conns
    BY Zenon, <2>2 DEF Serve, RecoverIssue, CloseUnknown, DecideCommit, DecideRollback, PushSchemaFragment
  <2>3. ASSUME NEW c \in Conn, NEW S \in SUBSET Schema, BeforeDecide(c, S) \/ CatalogMiss(c, S) PROVE conns' = conns
    BY Zenon, <2>3 DEF BeforeDecide, CatalogMiss
  <2>4. ASSUME NEW c \in Conn, NEW S \in SUBSET Schema, NEW s \in Schema, DecideDdl(c, S, s) PROVE conns' = conns
    BY Zenon, <2>4 DEF DecideDdl
  <2>5. ASSUME NEW c \in Conn, NEW s \in Schema, Refetch(c, s) \/ Inspect(c, s) PROVE conns' = conns
    BY Zenon, <2>5 DEF Refetch, Inspect
  <2>6. ASSUME NEW d \in Datasource, NEW read, CatalogPush(d, read) PROVE conns' = conns
    BY Zenon, <2>6 DEF CatalogPush
  <2>7. ASSUME NEW d \in Datasource, InvalidateDatasource(d) \/ (\E s \in Schema : OutsideDdl(d, s)) PROVE conns' = conns
    BY Zenon, <2>7 DEF InvalidateDatasource, OutsideDdl
  <2>8. CASE Restart \/ Tick \/ UNCHANGED vars
    BY Zenon, <2>8 DEF Restart, Tick, vars
  <2> QED  BY Zenon, <2>1, <2>2, <2>3, <2>4, <2>5, <2>6, <2>7, <2>8 DEF Next
<1> QED  BY <1>1, <1>2, PTL DEF Spec

\* With autocommit, a statement that passes freshnessGate is decided against the structure its own
\* target connection has, as soon as every change made through the proxy has been reported, whatever
\* was adopted, revalidated, swept or forgotten in a restart meanwhile.
THEOREM AutocommitIsCurrent == Spec => [](Autocommit => CurrentWhenSettled)
<1>1. IInv /\ OrderInv /\ ConnsType => (Autocommit => CurrentWhenSettled)
  <2> SUFFICES ASSUME IInv, Ordered, NEW c \in Conn, NEW s \in Schema, Fresh(c, s), Settled(DsOf[c], s)
               PROVE  held[c][s].hash = View(c, s)
    BY Zenon DEF OrderInv, ConnsType, CurrentWhenSettled
  <2>0. DsOf[c] \in Datasource
    BY Zenon, Binding
  <2>1. held[c][s] # None /\ held[c][s].hash \in Hash
    BY Zenon, HeldEntry DEF Fresh
  <2>2. /\ AuthOf(c, s) # None /\ held[c][s].hash <= AuthOf(c, s).hash
        /\ held[c][s].reval # None => held[c][s].reval <= held[c][s].hash
    <3>1. held[c][s].hash # None
      BY <2>1, Bounds, NoneIsNone DEF Hash
    <3> QED  BY Zenon, <2>1, <3>1 DEF Ordered, HeldOrdered, Behind
  <2>3. AuthOf(c, s).hash \in Hash /\ AuthOf(c, s).hash = db[DsOf[c]][s]
    BY Zenon, <2>0, <2>2, AuthEntry DEF AuthOf, Ordered, AuthOrdered
  <2>4. held[c][s].hash = AuthOf(c, s).hash
    <3>1. CASE held[c][s].reval = AuthOf(c, s).hash
      <4>1. AuthOf(c, s).hash # None
        BY <2>3, Bounds, NoneIsNone DEF Hash
      <4>2. AuthOf(c, s).hash <= held[c][s].hash
        BY Zenon, <2>2, <3>1, <4>1
      <4> QED  BY <2>1, <2>2, <2>3, <4>2, Bounds DEF Hash
    <3> QED  BY Zenon, <2>2, <3>1 DEF Fresh
  <2>5. View(c, s) = db[DsOf[c]][s]
    BY Zenon DEF View, Ordered
  <2> QED  BY Zenon, <2>3, <2>4, <2>5
<1> QED  BY <1>1, OrderInvariant, EvidenceInvariant, Registered, PTL

-----------------------------------------------------------------------------
\* COMMIT: the changes of a transaction are remembered until they are refreshed.

\* No record is lost under an open transaction, and every change brings a new structure.
Remembers == Env \cap {"recover", "repeat"} = {}

\* Structure h, if it is one, has been brought about.
Made(h) == h # None => h <= ddls

\* A change of s in c's transaction is among the schemas COMMIT will mark, or the refetch that adds it
\* is due: nobody has seen the structure yet, so the push will not find it unchanged.
Recorded(c, s) ==
  tx[c][s] # None =>
    /\ c \in conns
    /\ s \in ddl[c] \/ /\ pending[c][s] # None /\ pending[c][s].stmt
                       /\ pending[c][s].expected # tx[c][s] /\ HashOf(held[c][s]) # tx[c][s]

SchemaInv(c, s) ==
  /\ Made(HashOf(held[c][s])) /\ Made(tx[c][s]) /\ (pending[c][s] # None => Made(pending[c][s].expected))
  /\ Recorded(c, s)
  /\ s \in owed[c] => c \in conns /\ pending[c][s] # None /\ pending[c][s].commit

\* A push on its way shows what the transaction of its connection has.
PushInv(c) ==
  push[c] # None =>
    /\ c \in conns /\ push[c].hash <= ddls
    /\ tx[c][push[c].schema] # None => push[c].hash = tx[c][push[c].schema]

ConnInv(c) == PushInv(c) /\ \A s \in Schema : SchemaInv(c, s)

DataInv == \A d \in Datasource, s \in Schema : Made(HashOf(auth[d][s])) /\ db[d][s] <= ddls

CommitInv ==
  /\ ddl \in [Conn -> SUBSET Schema] /\ owed \in [Conn -> SUBSET Schema] /\ issuing = {}
  /\ DataInv /\ \A c \in Conn : ConnInv(c)

RememberInv == Remembers => CommitInv

\* A step leaves connection o alone.
Same(o) ==
  /\ o \in conns' <=> o \in conns
  /\ push'[o] = push[o] /\ owed'[o] = owed[o] /\ ddl'[o] = ddl[o]
  /\ \A t \in Schema : held'[o][t] = held[o][t] /\ tx'[o][t] = tx[o][t] /\ pending'[o][t] = pending[o][t]

\* What has been made stays made.
LEMMA MadeMono ==
  ASSUME IInv, ddls' \in {ddls, ddls + 1}, NEW h \in Opt(Hash), Made(h)
  PROVE  Made(h)' /\ h # ddls + 1
<1>1. ddls \in Nat
  BY Bounds DEF IInv, Shape
<1>2. Hash \subseteq Nat
  BY Bounds DEF Hash
<1>3. CASE h = None
  BY <1>1, <1>3, NoneIsNone DEF Made
<1>4. CASE h # None
  <2>1. h \in Nat /\ h <= ddls
    BY Zenon, <1>2, <1>4 DEF Made, Opt
  <2>2. h <= ddls' /\ h # ddls + 1
    BY <1>1, <2>1
  <2> QED  BY Zenon, <2>2 DEF Made
<1> QED  BY Zenon, <1>3, <1>4

\* The hashes of a connection's entries, and of its push.
LEMMA EntryHashes ==
  ASSUME IInv, NEW c \in Conn, NEW s \in Schema
  PROVE  /\ HashOf(held[c][s]) \in Opt(Hash) /\ tx[c][s] \in Opt(Hash)
         /\ HashOf(AuthOf(c, s)) \in Opt(Hash)
         /\ pending[c][s] # None => pending[c][s].expected \in Opt(Hash)
<1>1. tx \in [Conn -> [Schema -> Opt(Hash)]]
  BY Zenon DEF IInv, Shape
<1>2. tx[c][s] \in Opt(Hash)
  BY Zenon, <1>1
<1>3. HashOf(held[c][s]) \in Opt(Hash)
  BY Zenon, HeldEntry DEF HashOf, Opt
<1> QED  BY Zenon, <1>2, <1>3, HashTypes, PendingEntry

LEMMA PushType ==
  ASSUME IInv, NEW c \in Conn, push[c] # None
  PROVE  push[c] \in Message /\ push[c].hash \in Hash /\ push[c].schema \in Schema
<1>1. push \in [Conn -> Opt(Message)]
  BY Zenon DEF IInv, Shape
<1>2. push[c] \in Message
  BY Zenon, <1>1 DEF Opt
<1> QED  BY Zenon, <1>2 DEF Message

LEMMA SchemaFrame ==
  ASSUME IInv, NEW o \in Conn, NEW t \in Schema, SchemaInv(o, t), ddls' \in {ddls, ddls + 1},
         o \in conns' <=> o \in conns, owed'[o] = owed[o], ddl[o] \subseteq ddl'[o],
         held'[o][t] = held[o][t], tx'[o][t] = tx[o][t], pending'[o][t] = pending[o][t]
  PROVE  SchemaInv(o, t)'
<1>1. /\ Made(HashOf(held[o][t]))' /\ Made(tx[o][t])'
      /\ pending[o][t] # None => Made(pending[o][t].expected)'
  <2>1. Made(HashOf(held[o][t])) /\ Made(tx[o][t]) /\ (pending[o][t] # None => Made(pending[o][t].expected))
    BY Zenon DEF SchemaInv
  <2>2. \A h \in Opt(Hash) : Made(h) => (h # None => h <= ddls')
    BY Zenon, MadeMono DEF Made
  <2> QED  BY Zenon, <2>1, <2>2, EntryHashes DEF Made, HashOf
<1>2. Recorded(o, t)'
  BY Zenon DEF SchemaInv, Recorded, HashOf
<1>3. (t \in owed[o] => o \in conns /\ pending[o][t] # None /\ pending[o][t].commit)'
  BY Zenon DEF SchemaInv
<1> QED  BY Zenon, <1>1, <1>2, <1>3 DEF SchemaInv

LEMMA ConnFrame ==
  ASSUME IInv, NEW o \in Conn, ConnInv(o), ddls' \in {ddls, ddls + 1}, Same(o)
  PROVE  ConnInv(o)'
<1>1. ASSUME NEW t \in Schema PROVE SchemaInv(o, t)'
  <2>1. SchemaInv(o, t)
    BY Zenon DEF ConnInv
  <2>2. /\ o \in conns' <=> o \in conns
        /\ owed'[o] = owed[o] /\ ddl[o] \subseteq ddl'[o]
        /\ held'[o][t] = held[o][t] /\ tx'[o][t] = tx[o][t] /\ pending'[o][t] = pending[o][t]
    BY Zenon DEF Same
  <2> QED  BY Zenon, <2>1, <2>2, SchemaFrame
<1>2. PushInv(o)'
  <2>1. CASE push[o] = None
    BY Zenon, <2>1 DEF PushInv, Same
  <2>2. CASE push[o] # None
    <3>1. push[o].schema \in Schema /\ push[o].hash \in Opt(Hash) /\ push[o].hash # None /\ PushInv(o)
      <4>1. push[o].schema \in Schema /\ push[o].hash \in Hash
        BY Zenon, <2>2, PushType
      <4>2. \A h \in Hash : h # None
        BY Bounds, NoneIsNone DEF Hash
      <4> QED  BY Zenon, <4>1, <4>2 DEF ConnInv, Opt
    <3>2. Made(push[o].hash)
      BY Zenon, <2>2, <3>1 DEF PushInv, Made
    <3>3. push[o].hash <= ddls'
      BY Zenon, <3>1, <3>2, MadeMono DEF Made
    <3> QED  BY Zenon, <2>2, <3>1, <3>3 DEF PushInv, Same
  <2> QED  BY Zenon, <2>1, <2>2
<1> QED  BY Zenon, <1>1, <1>2 DEF ConnInv

\* A step of connection c keeps the invariant if it keeps it for c, and for what datasources have.
LEMMA CommitFrame ==
  ASSUME IInv, CommitInv, NEW c \in Conn, ddls' \in {ddls, ddls + 1}, issuing' = issuing,
         ddl' \in [Conn -> SUBSET Schema], owed' \in [Conn -> SUBSET Schema],
         \A o \in Conn \ {c} : Same(o), DataInv', ConnInv(c)'
  PROVE  CommitInv'
<1>1. ASSUME NEW o \in Conn PROVE ConnInv(o)'
  <2>1. CASE o # c
    <3>1. Same(o) /\ ConnInv(o)
      BY Zenon, <2>1 DEF CommitInv
    <3> QED  BY Zenon, <3>1, ConnFrame
  <2> QED  BY Zenon, <2>1
<1> QED  BY Zenon, <1>1 DEF CommitInv

LEMMA DataFrame ==
  ASSUME IInv, DataInv, ddls' \in {ddls, ddls + 1},
         \A d \in Datasource, s \in Schema :
           /\ db'[d][s] = db[d][s] \/ (db'[d][s] \in Hash /\ db'[d][s] <= ddls')
           /\ \/ HashOf(auth'[d][s]) \in {HashOf(auth[d][s]), None}
              \/ HashOf(auth'[d][s]) \in Hash /\ HashOf(auth'[d][s]) <= ddls'
  PROVE  DataInv'
<1> SUFFICES ASSUME NEW d \in Datasource, NEW s \in Schema PROVE Made(HashOf(auth[d][s]))' /\ db'[d][s] <= ddls'
  BY Zenon DEF DataInv
<1>0. \A h \in Hash : h # None /\ h \in Opt(Hash)
  BY Bounds, NoneIsNone DEF Hash, Opt
<1>1. \A h \in Opt(Hash) : Made(h) => (h # None => h <= ddls')
  BY Zenon, MadeMono DEF Made
<1>2. HashOf(auth[d][s]) \in Opt(Hash) /\ db[d][s] \in Hash
  <2>1. db[d][s] \in Hash
    BY DEF IInv, Shape
  <2> QED  BY Zenon, <2>1, AuthEntry DEF HashOf, Opt
<1>3. Made(HashOf(auth[d][s])) /\ Made(db[d][s])
  BY Zenon DEF DataInv, Made
<1>4. db'[d][s] <= ddls'
  BY Zenon, <1>0, <1>1, <1>2, <1>3
<1>5. HashOf(auth'[d][s]) # None => HashOf(auth'[d][s]) <= ddls'
  BY Zenon, <1>1, <1>2, <1>3
<1> QED  BY Zenon, <1>4, <1>5 DEF Made, HashOf

\* Steps that change only the clock, the client's side, or what datasources have.
LEMMA CommitQuiet ==
  ASSUME IInv, CommitInv, ddls' \in {ddls, ddls + 1}, DataInv',
         UNCHANGED <<conns, issuing, held, pending, ddl, owed, tx, push>>
  PROVE  CommitInv'
<1>1. ASSUME NEW o \in Conn PROVE ConnInv(o)'
  <2>1. Same(o) /\ ConnInv(o)
    BY Zenon DEF CommitInv, Same
  <2> QED  BY Zenon, <2>1, ConnFrame
<1> QED  BY Zenon, <1>1 DEF CommitInv

\* open: a new connection has no transaction and owes nothing.
LEMMA OpenCommit ==
  ASSUME IInv, CommitInv, NEW c \in Conn, Open(c)
  PROVE  CommitInv'
<1>1. /\ c \notin conns /\ conns' = conns \cup {c} /\ IssueInitial(c)
      /\ UNCHANGED <<issuing, ddl, auth, db, tx, ddls, push, owed>>
  BY Zenon DEF Open, Unknown, dbVars, ghosts
<1>2. ASSUME NEW o \in Conn \ {c} PROVE Same(o)
  <2>1. \A t \in Schema : Issued(c, o, t)
    BY Zenon, <1>1, IssueEntry
  <2> QED  BY Zenon, <1>1, <2>1 DEF Same, Issued
<1>3. ASSUME NEW t \in Schema PROVE SchemaInv(c, t)'
  <2>0. Issued(c, c, t) /\ SchemaInv(c, t) /\ DsOf[c] \in Datasource
    BY Zenon, <1>1, IssueEntry, Binding DEF CommitInv, ConnInv
  <2>1. tx[c][t] = None /\ t \notin owed[c]
    BY Zenon, <1>1, <2>0 DEF SchemaInv, Recorded
  <2>2. Made(HashOf(AuthOf(c, t))) /\ Made(HashOf(held[c][t])) /\ (pending[c][t] # None => Made(pending[c][t].expected))
    BY Zenon, <2>0 DEF CommitInv, DataInv, AuthOf, SchemaInv
  <2>3. HashOf(Adopt(AuthOf(c, t))) \in {HashOf(AuthOf(c, t)), None} \/ t \notin Adopted(c)
    <3>1. Adopt(AuthOf(c, t)).hash = AuthOf(c, t).hash
      BY Zenon DEF Adopt
    <3> QED  BY Zenon, <3>1 DEF HashOf, Adopted
  <2>4. Made(HashOf(held'[c][t]))
    BY Zenon, <2>0, <2>2, <2>3 DEF Issued, Made
  <2>5. pending'[c][t] # None => Made(pending'[c][t].expected)
    <3>1. PendingOf(HashOf(AuthOf(c, t)), HashOf(AuthOf(c, t))).expected = HashOf(AuthOf(c, t))
      BY Zenon DEF PendingOf
    <3> QED  BY Zenon, <2>0, <2>2, <3>1 DEF Issued
  <2> QED  BY Zenon, <1>1, <2>1, <2>4, <2>5 DEF SchemaInv, Recorded, Made, HashOf
<1>4. ConnInv(c)'
  <2>1. push'[c] = None
    BY Zenon, <1>1 DEF CommitInv, ConnInv, PushInv
  <2> QED  BY Zenon, <1>3, <2>1 DEF ConnInv, PushInv
<1>5. DataInv'
  BY Zenon, <1>1 DEF CommitInv, DataInv, Made, HashOf
<1> QED  BY Zenon, <1>1, <1>2, <1>4, <1>5, CommitFrame DEF CommitInv

\* close: what the connection owed goes with its record and its transaction.
LEMMA CloseCommit ==
  ASSUME IInv, CommitInv, NEW c \in Conn, Close(c)
  PROVE  CommitInv'
<1>0. /\ tx \in [Conn -> [Schema -> Opt(Hash)]] /\ push \in [Conn -> Opt(Message)]
      /\ ddl \in [Conn -> SUBSET Schema] /\ owed \in [Conn -> SUBSET Schema]
  BY Zenon DEF IInv, Shape, CommitInv
<1>1. /\ Drop(c) /\ conns' = conns \ {c} /\ UNCHANGED <<issuing, auth, db, ddls>>
      /\ tx' = [tx EXCEPT ![c] = NoSchemas] /\ push' = [push EXCEPT ![c] = None]
      /\ ddl' = [ddl EXCEPT ![c] = {}] /\ owed' = [owed EXCEPT ![c] = {}]
  BY Zenon DEF Close, Ended, Drop
<1>2. ASSUME NEW o \in Conn \ {c} PROVE Same(o)
  <2>1. \A t \in Schema : Dropped(c, o, t)
    BY Zenon, <1>1, DropEntry
  <2>2. tx'[o] = tx[o] /\ push'[o] = push[o] /\ ddl'[o] = ddl[o] /\ owed'[o] = owed[o]
    BY Zenon, <1>0, <1>1
  <2> QED  BY Zenon, <1>1, <2>1, <2>2 DEF Same, Dropped
<1>3. ConnInv(c)'
  <2>1. push'[c] = None /\ owed'[c] = {} /\ tx'[c] = NoSchemas
    BY Zenon, <1>0, <1>1
  <2>2. ASSUME NEW t \in Schema PROVE SchemaInv(c, t)'
    <3>1. held'[c][t] = None /\ pending'[c][t] = None
      BY Zenon, <1>1, DropEntry DEF Dropped
    <3>2. tx'[c][t] = None /\ t \notin owed'[c]
      BY Zenon, <2>1 DEF NoSchemas
    <3> QED  BY Zenon, <3>1, <3>2 DEF SchemaInv, Recorded, Made, HashOf
  <2> QED  BY Zenon, <2>1, <2>2 DEF ConnInv, PushInv
<1>4. DataInv'
  BY Zenon, <1>1 DEF CommitInv, DataInv, Made, HashOf
<1>5. ddl' \in [Conn -> SUBSET Schema] /\ owed' \in [Conn -> SUBSET Schema]
  BY Zenon, <1>0, <1>1
<1> QED  BY Zenon, <1>1, <1>2, <1>3, <1>4, <1>5, CommitFrame

\* The end of a connection without a record, and ROLLBACK: the transaction goes.
LEMMA TxGone ==
  ASSUME IInv, CommitInv, NEW c \in Conn, tx' = [tx EXCEPT ![c] = NoSchemas],
         push' = push \/ push' = [push EXCEPT ![c] = None], ddl' = ddl \/ ddl' = [ddl EXCEPT ![c] = {}],
         UNCHANGED <<conns, issuing, held, pending, auth, db, ddls, owed>>
  PROVE  CommitInv'
<1>0. /\ tx \in [Conn -> [Schema -> Opt(Hash)]] /\ push \in [Conn -> Opt(Message)]
      /\ ddl \in [Conn -> SUBSET Schema] /\ owed \in [Conn -> SUBSET Schema]
  BY Zenon DEF IInv, Shape, CommitInv
<1>1. ASSUME NEW o \in Conn \ {c} PROVE Same(o)
  <2>1. tx'[o] = tx[o] /\ push'[o] = push[o] /\ ddl'[o] = ddl[o]
    BY Zenon, <1>0
  <2> QED  BY Zenon, <2>1 DEF Same
<1>2. ConnInv(c)'
  <2>1. tx'[c] = NoSchemas /\ (push'[c] = None \/ push'[c] = push[c])
    BY Zenon, <1>0
  <2>2. ASSUME NEW t \in Schema PROVE tx'[c][t] = None
    BY Zenon, <2>1 DEF NoSchemas
  <2>3. ASSUME NEW t \in Schema PROVE SchemaInv(c, t)'
    <3>1. SchemaInv(c, t) /\ tx'[c][t] = None
      BY Zenon, <2>2 DEF CommitInv, ConnInv
    <3> QED  BY Zenon, <3>1 DEF SchemaInv, Recorded, Made, HashOf
  <2>4. PushInv(c)'
    <3>1. PushInv(c) /\ (push[c] # None => tx'[c][push[c].schema] = None)
      BY Zenon, <2>2, PushType DEF CommitInv, ConnInv
    <3> QED  BY Zenon, <2>1, <3>1 DEF PushInv
  <2> QED  BY Zenon, <2>3, <2>4 DEF ConnInv
<1>3. DataInv'
  BY Zenon DEF CommitInv, DataInv, Made, HashOf
<1>4. ddl' \in [Conn -> SUBSET Schema]
  BY Zenon, <1>0
<1> QED  BY Zenon, <1>0, <1>1, <1>2, <1>3, <1>4, CommitFrame

\* What a command that a mark adds to says.
LEMMA MarkedCommand ==
  ASSUME IInv, CommitInv, NEW c \in Conn, NEW t \in Schema, NEW e \in Opt(Hash), Made(e)
  PROVE  /\ Command(c, t, e).expected \in Opt(Hash) /\ Made(Command(c, t, e).expected)
         /\ pending[c][t] # None => Command(c, t, e) = pending[c][t]
<1>1. CASE pending[c][t] # None
  <2>1. Command(c, t, e) = pending[c][t] /\ SchemaInv(c, t)
    BY Zenon, <1>1 DEF Command, CommitInv, ConnInv
  <2> QED  BY Zenon, <1>1, <2>1, EntryHashes DEF SchemaInv
<1>2. CASE pending[c][t] = None
  <2>1. Command(c, t, e).expected = e
    BY Zenon, <1>2 DEF Command, PendingOf
  <2> QED  BY Zenon, <1>2, <2>1
<1> QED  BY Zenon, <1>1, <1>2

\* The hashes that commands expect have been made.
LEMMA ExpectedMade ==
  ASSUME IInv, CommitInv, NEW c \in Conn, NEW t \in Schema, NEW e \in {HeldHash(c), HeldOrAuth(c), Unconditional}
  PROVE  e[t] \in Opt(Hash) /\ Made(e[t])
<1>1. e \in [Schema -> Opt(Hash)]
  BY Zenon, HashTypes
<1>2. DsOf[c] \in Datasource
  BY Zenon, Binding
<1>3. Made(HashOf(held[c][t])) /\ Made(HashOf(AuthOf(c, t)))
  BY Zenon, <1>2 DEF CommitInv, ConnInv, SchemaInv, DataInv, AuthOf
<1>4. HeldHash(c)[t] = HashOf(held[c][t])
  BY Zenon DEF HeldHash
<1>5. HeldOrAuth(c)[t] = HashOf(held[c][t]) \/ HeldOrAuth(c)[t] = HashOf(AuthOf(c, t))
  BY Zenon DEF HeldOrAuth
<1>6. Unconditional[t] = None
  BY Zenon DEF Unconditional, NoSchemas
<1>7. Made(None)
  BY Zenon DEF Made
<1>8. Made(e[t])
  BY Zenon, <1>3, <1>4, <1>5, <1>6, <1>7
<1> QED  BY Zenon, <1>1, <1>8

\* markPending takes nothing from a command, and leaves none that expects what has not been made.
Kept(c, S, b1, b2, t) ==
  /\ pending'[c][t] # None => pending'[c][t].expected \in Opt(Hash) /\ Made(pending'[c][t].expected)
  /\ pending[c][t] # None => /\ pending'[c][t] # None /\ pending'[c][t].expected = pending[c][t].expected
                             /\ pending[c][t].stmt => pending'[c][t].stmt
                             /\ pending[c][t].commit => pending'[c][t].commit
  /\ t \in S => pending'[c][t] # None /\ (b1 => pending'[c][t].stmt) /\ (b2 => pending'[c][t].commit)

LEMMA MarkKeeps ==
  ASSUME IInv, CommitInv, NEW c \in Conn, NEW S, NEW b1 \in BOOLEAN, NEW b2 \in BOOLEAN,
         NEW e \in {HeldHash(c), HeldOrAuth(c), Unconditional}, Mark(c, S, b1, b2, e), NEW t \in Schema
  PROVE  Kept(c, S, b1, b2, t)
<1>0. e \in [Schema -> Opt(Hash)] /\ e[t] \in Opt(Hash) /\ Made(e[t])
  BY Zenon, HashTypes, ExpectedMade
<1>1. Marked(c, S, b1, b2, e, c, t)
  BY Zenon, <1>0, MarkEntry
<1>2. /\ Command(c, t, e[t]).expected \in Opt(Hash) /\ Made(Command(c, t, e[t]).expected)
      /\ pending[c][t] # None => Command(c, t, e[t]) = pending[c][t]
  BY Zenon, <1>0, MarkedCommand
<1>3. CASE t \in S
  BY Zenon, <1>1, <1>2, <1>3 DEF Marked, Kept
<1>4. CASE t \notin S
  <2>1. pending'[c][t] = pending[c][t] /\ SchemaInv(c, t)
    BY Zenon, <1>1, <1>4 DEF Marked, CommitInv, ConnInv
  <2> QED  BY Zenon, <1>4, <2>1, EntryHashes DEF SchemaInv, Kept
<1> QED  BY Zenon, <1>3, <1>4

LEMMA MarkOthers ==
  ASSUME IInv, NEW c \in Conn, NEW S, NEW b1 \in BOOLEAN, NEW b2 \in BOOLEAN,
         NEW e \in {HeldHash(c), HeldOrAuth(c), Unconditional}, Mark(c, S, b1, b2, e),
         NEW o \in Conn \ {c}, NEW t \in Schema
  PROVE  pending'[o][t] = pending[o][t]
<1>0. e \in [Schema -> Opt(Hash)]
  BY Zenon, HashTypes
<1>1. Marked(c, S, b1, b2, e, o, t)
  BY Zenon, <1>0, MarkEntry
<1> QED  BY Zenon, <1>1 DEF Marked

\* The gates only ask for refetches.
LEMMA GateCommit ==
  ASSUME IInv, CommitInv, NEW c \in Conn, NEW S, NEW e \in {HeldHash(c), HeldOrAuth(c), Unconditional},
         Mark(c, S, FALSE, FALSE, e), UNCHANGED <<conns, issuing, held, ddl, auth, db, tx, ddls, push, owed>>
  PROVE  CommitInv'
<1>1. ASSUME NEW o \in Conn \ {c} PROVE Same(o)
  <2>1. \A t \in Schema : pending'[o][t] = pending[o][t]
    BY Zenon, MarkOthers
  <2> QED  BY Zenon, <2>1 DEF Same
<1>2. ASSUME NEW t \in Schema PROVE SchemaInv(c, t)'
  <2>1. SchemaInv(c, t)
    BY Zenon DEF CommitInv, ConnInv
  <2>2. Kept(c, S, FALSE, FALSE, t)
    BY Zenon, MarkKeeps
  <2> QED  BY Zenon, <2>1, <2>2 DEF SchemaInv, Recorded, Made, HashOf, Kept
<1>3. PushInv(c)' /\ DataInv'
  BY Zenon DEF CommitInv, ConnInv, PushInv, DataInv, Made, HashOf
<1>4. ConnInv(c)'
  BY Zenon, <1>2, <1>3 DEF ConnInv
<1> QED  BY Zenon, <1>1, <1>3, <1>4, CommitFrame DEF CommitInv

\* Between statements no refetch of a statement or of a COMMIT is due.
LEMMA IdleRecords ==
  ASSUME CommitInv, NEW c \in Conn, Idle(c), NEW s \in Schema
  PROVE  c \in conns /\ push[c] = None /\ (tx[c][s] # None => s \in ddl[c]) /\ s \notin owed[c]
<1>1. SchemaInv(c, s)
  BY Zenon DEF CommitInv, ConnInv
<1> QED  BY Zenon, <1>1 DEF SchemaInv, Recorded, Idle

\* DDL in a transaction: the new structure is one nobody has seen, and its refetch is due.
LEMMA DdlCommit ==
  ASSUME IInv, Remembers, CommitInv, NEW c \in Conn, NEW S \in SUBSET Schema, NEW s \in Schema, DecideDdl(c, S, s)
  PROVE  CommitInv'
<1>0. /\ db \in [Datasource -> [Schema -> Hash]] /\ tx \in [Conn -> [Schema -> Opt(Hash)]] /\ ddls \in Nat
      /\ DsOf[c] \in Datasource /\ ddls + 1 \in Hash /\ ddls + 1 <= ddls + 1
  <2>1. ddls \in 0 .. MaxDdl /\ ddls < MaxDdl
    BY Zenon DEF IInv, Shape, DecideDdl
  <2>2. ddls \in Nat /\ ddls + 1 \in Hash /\ ddls + 1 <= ddls + 1
    BY <2>1, Bounds DEF Hash
  <2> QED  BY Zenon, <2>2, Binding DEF IInv, Shape
<1>1. /\ Idle(c) /\ Mark(c, S \cup {s}, TRUE, FALSE, HeldHash(c)) /\ ddls' = ddls + 1
      /\ UNCHANGED <<conns, issuing, held, ddl, auth, push, owed>>
  BY Zenon DEF DecideDdl, Decides
<1>2. \/ tx' = [tx EXCEPT ![c][s] = ddls + 1] /\ db' = db
      \/ db' = [db EXCEPT ![DsOf[c]][s] = ddls + 1] /\ tx' = tx
  <2>1. NewStructures(c, s) = {ddls + 1}
    BY Zenon DEF Remembers, NewStructures
  <2> QED  BY Zenon, <2>1 DEF DecideDdl
<1>3. ASSUME NEW o \in Conn, NEW t \in Schema, ~(o = c /\ t = s) PROVE tx'[o][t] = tx[o][t]
  BY <1>0, <1>2, <1>3
<1>4. ASSUME NEW o \in Conn \ {c} PROVE Same(o)
  <2>1. \A t \in Schema : pending'[o][t] = pending[o][t]
    BY Zenon, <1>1, MarkOthers
  <2> QED  BY Zenon, <1>1, <1>3, <2>1 DEF Same
<1>5. ASSUME NEW t \in Schema PROVE SchemaInv(c, t)'
  <2>0. SchemaInv(c, t)
    BY Zenon DEF CommitInv, ConnInv
  <2>1. c \in conns /\ (tx[c][t] # None => t \in ddl[c]) /\ t \notin owed[c]
    BY Zenon, <1>1, IdleRecords
  <2>k. Kept(c, S \cup {s}, TRUE, FALSE, t)
    BY Zenon, <1>1, MarkKeeps
  <2>2. /\ pending'[c][t] # None => pending'[c][t].expected \in Opt(Hash) /\ Made(pending'[c][t].expected)
        /\ t = s => pending'[c][t] # None /\ pending'[c][t].stmt
    BY Zenon, <2>k DEF Kept
  <2>3. \A h \in Opt(Hash) : Made(h) => (h # None => h <= ddls') /\ h # ddls + 1
    BY Zenon, <1>1, MadeMono DEF Made
  <2>4. /\ HashOf(held[c][t]) # None => HashOf(held[c][t]) <= ddls'
        /\ HashOf(held[c][t]) # ddls + 1
        /\ tx[c][t] # None => tx[c][t] <= ddls'
        /\ pending'[c][t] # None => /\ pending'[c][t].expected # None => pending'[c][t].expected <= ddls'
                                    /\ pending'[c][t].expected # ddls + 1
    BY Zenon, <2>0, <2>2, <2>3, EntryHashes DEF SchemaInv
  <2>5. tx'[c][t] = tx[c][t] \/ (t = s /\ tx'[c][t] = ddls + 1)
    BY Zenon, <1>0, <1>2
  <2>6. tx'[c][t] # None => tx'[c][t] <= ddls'
    BY Zenon, <1>0, <1>1, <2>4, <2>5
  <2>7. Recorded(c, t)'
    <3>1. CASE tx'[c][t] = tx[c][t]
      BY Zenon, <1>1, <2>1, <3>1 DEF Recorded
    <3>2. CASE t = s /\ tx'[c][t] = ddls + 1
      BY Zenon, <1>1, <2>1, <2>2, <2>4, <3>2 DEF Recorded, HashOf
    <3> QED  BY Zenon, <2>5, <3>1, <3>2
  <2> QED  BY Zenon, <1>1, <2>1, <2>4, <2>6, <2>7 DEF SchemaInv, Made, HashOf
<1>6. ConnInv(c)'
  <2>1. push'[c] = None
    BY Zenon, <1>1 DEF Idle
  <2> QED  BY Zenon, <1>5, <2>1 DEF ConnInv, PushInv
<1>7. DataInv'
  <2>1. \A d \in Datasource, t \in Schema : db'[d][t] = db[d][t] \/ (db'[d][t] \in Hash /\ db'[d][t] <= ddls')
    <3> SUFFICES ASSUME NEW d \in Datasource, NEW t \in Schema
                 PROVE  db'[d][t] = db[d][t] \/ (db'[d][t] \in Hash /\ db'[d][t] <= ddls')
      BY Zenon
    <3>1. db'[d][t] = db[d][t] \/ db'[d][t] = ddls + 1
      BY <1>0, <1>2
    <3>2. ddls + 1 \in Hash /\ ddls + 1 <= ddls'
      BY Zenon, <1>0, <1>1
    <3> QED  BY Zenon, <3>1, <3>2
  <2>2. DataInv
    BY Zenon DEF CommitInv
  <2> QED  BY Zenon, <1>1, <2>1, <2>2, DataFrame
<1> QED  BY Zenon, <1>1, <1>4, <1>6, <1>7, CommitFrame DEF CommitInv

\* COMMIT: what the transaction changed is in ddlSinceLastCommit, so markAfterCommit marks all of it.
LEMMA CommitCommit ==
  ASSUME IInv, CommitInv, NEW c \in Conn, DecideCommit(c)
  PROVE  CommitInv'
<1>0. /\ db \in [Datasource -> [Schema -> Hash]] /\ tx \in [Conn -> [Schema -> Opt(Hash)]]
      /\ ddl \in [Conn -> SUBSET Schema] /\ owed \in [Conn -> SUBSET Schema] /\ DsOf[c] \in Datasource
  BY Zenon, Binding DEF IInv, Shape, CommitInv
<1>1. /\ Idle(c) /\ Mark(c, ddl[c], FALSE, TRUE, HeldHash(c)) /\ ddl' = [ddl EXCEPT ![c] = {}]
      /\ owed' = [owed EXCEPT ![c] = @ \cup Changes(c)] /\ tx' = [tx EXCEPT ![c] = NoSchemas]
      /\ db' = [db EXCEPT ![DsOf[c]] = [s \in Schema |-> View(c, s)]]
      /\ UNCHANGED <<conns, issuing, held, auth, ddls, push>>
  BY Zenon DEF DecideCommit, Decides
<1>2. ASSUME NEW o \in Conn \ {c} PROVE Same(o)
  <2>1. \A t \in Schema : pending'[o][t] = pending[o][t]
    BY Zenon, <1>1, MarkOthers
  <2>2. tx'[o] = tx[o] /\ ddl'[o] = ddl[o] /\ owed'[o] = owed[o]
    BY Zenon, <1>0, <1>1
  <2> QED  BY Zenon, <1>1, <2>1, <2>2 DEF Same
<1>3. ASSUME NEW t \in Schema PROVE SchemaInv(c, t)'
  <2>0. SchemaInv(c, t) /\ tx'[c][t] = None
    BY Zenon, <1>0, <1>1 DEF CommitInv, ConnInv, NoSchemas
  <2>1. c \in conns /\ (tx[c][t] # None => t \in ddl[c]) /\ t \notin owed[c]
    BY Zenon, <1>1, IdleRecords
  <2>2. Kept(c, ddl[c], FALSE, TRUE, t)
    BY Zenon, <1>1, MarkKeeps
  <2>3. t \in owed'[c] => pending'[c][t] # None /\ pending'[c][t].commit
    <3>1. owed'[c] = owed[c] \cup Changes(c)
      BY Zenon, <1>0, <1>1
    <3>2. t \in Changes(c) => tx[c][t] # None
      BY Zenon DEF Changes, View
    <3> QED  BY Zenon, <2>1, <2>2, <3>1, <3>2 DEF Kept
  <2> QED  BY Zenon, <1>1, <2>0, <2>1, <2>2, <2>3 DEF SchemaInv, Recorded, Made, HashOf, Kept
<1>4. ConnInv(c)'
  <2>1. push'[c] = None
    BY Zenon, <1>1 DEF Idle
  <2> QED  BY Zenon, <1>3, <2>1 DEF ConnInv, PushInv
<1>5. DataInv'
  <2>1. ASSUME NEW t \in Schema PROVE View(c, t) \in Hash /\ View(c, t) <= ddls
    <3>1. Made(tx[c][t]) /\ db[DsOf[c]][t] <= ddls
      BY Zenon, <1>0 DEF CommitInv, ConnInv, SchemaInv, DataInv
    <3> QED  BY Zenon, <3>1, ViewType DEF View, Made
  <2>2. ASSUME NEW d \in Datasource, NEW t \in Schema
        PROVE  db'[d][t] = db[d][t] \/ (db'[d][t] \in Hash /\ db'[d][t] <= ddls')
    <3>1. db'[d][t] = IF d = DsOf[c] THEN View(c, t) ELSE db[d][t]
      BY Zenon, <1>0, <1>1
    <3>2. View(c, t) \in Hash /\ View(c, t) <= ddls'
      BY Zenon, <1>1, <2>1
    <3> QED  BY Zenon, <3>1, <3>2
  <2>3. DataInv /\ \A d \in Datasource, t \in Schema : HashOf(auth'[d][t]) \in {HashOf(auth[d][t]), None}
    BY Zenon, <1>1 DEF CommitInv
  <2> QED  BY Zenon, <1>1, <2>2, <2>3, DataFrame
<1>6. ddl' \in [Conn -> SUBSET Schema] /\ owed' \in [Conn -> SUBSET Schema]
  <2>1. Changes(c) \subseteq Schema
    BY Zenon DEF Changes
  <2> QED  BY Zenon, <1>0, <1>1, <2>1
<1> QED  BY Zenon, <1>1, <1>2, <1>4, <1>5, <1>6, CommitFrame

\* applyPush: the refetch that was due after DDL finds a structure the record does not hold, and adds
\* the schema to ddlSinceLastCommit; one that was due after COMMIT settles what is owed.
LEMMA PushCommit ==
  ASSUME IInv, CommitInv, NEW c \in Conn, NEW m \in Message, ApplyPush(c, m),
         UNCHANGED <<conns, issuing, db, tx, ddls>>,
         push' = push \/ push' = [push EXCEPT ![c] = None],
         m.hash <= ddls, tx[c][m.schema] # None => m.hash = tx[c][m.schema]
  PROVE  CommitInv'
<1>0. /\ m.schema \in Schema /\ m.hash \in Hash /\ push \in [Conn -> Opt(Message)]
      /\ ddl \in [Conn -> SUBSET Schema] /\ owed \in [Conn -> SUBSET Schema] /\ DsOf[c] \in Datasource
  <2>1. m.schema \in Schema /\ m.hash \in Hash
    BY Zenon DEF Message
  <2> QED  BY Zenon, <2>1, Binding DEF IInv, Shape, CommitInv
<1>p. /\ \A o \in Conn : push'[o] = push[o] \/ push'[o] = None
      /\ \A o \in Conn \ {c} : push'[o] = push[o]
  BY Zenon, <1>0
<1>q. PushInv(c)'
  BY Zenon, <1>p DEF CommitInv, ConnInv, PushInv
<1>1. CASE Rejected(c, m)
  <2>1. UNCHANGED <<held, pending, ddl, auth, owed>>
    BY Zenon, <1>1 DEF ApplyPush, ghosts
  <2>2. \A o \in Conn \ {c} : Same(o)
    BY Zenon, <1>p, <2>1 DEF Same
  <2>3. \A t \in Schema : SchemaInv(c, t)'
    <3> SUFFICES ASSUME NEW t \in Schema PROVE SchemaInv(c, t)'
      BY Zenon
    <3>1. SchemaInv(c, t)
      BY Zenon DEF CommitInv, ConnInv
    <3> QED  BY Zenon, <2>1, <3>1 DEF SchemaInv, Recorded, Made, HashOf
  <2>4. DataInv' /\ ConnInv(c)'
    BY Zenon, <1>q, <2>1, <2>3 DEF CommitInv, DataInv, Made, HashOf, ConnInv
  <2> QED  BY Zenon, <2>1, <2>2, <2>4, CommitFrame DEF CommitInv
<1>2. CASE ~Rejected(c, m)
  <2>p. ASSUME NEW o \in Conn, NEW t \in Schema PROVE Pushed(c, m, o, t)
    BY Zenon, <1>2, PushEntry
  <2>a. ASSUME NEW d \in Datasource, NEW t \in Schema PROVE PushedAuth(c, m, d, t)
    BY Zenon, <1>2, PushAuth
  <2>1. ddl' = [ddl EXCEPT ![c] = IF m.unchanged THEN ddl[c] ELSE DdlAfter(c, m)]
    <3>1. CASE m.unchanged
      <4>1. ddl' = ddl
        BY Zenon, <1>2, <3>1 DEF ApplyPush, ApplyUnchanged
      <4> QED  BY Zenon, <1>0, <3>1, <4>1
    <3>2. CASE ~m.unchanged
      BY Zenon, <1>2, <3>2 DEF ApplyPush, ApplyFull
    <3> QED  BY Zenon, <3>1, <3>2
  <2>2. owed' = [owed EXCEPT ![c] = IF pending[c][m.schema].commit THEN owed[c] \ {m.schema} ELSE owed[c]]
    BY Zenon, <1>2 DEF ApplyPush
  <2>3. DdlAfter(c, m) \in {ddl[c], ddl[c] \cup {m.schema}}
    BY Zenon DEF DdlAfter
  <2>4. /\ ddl' \in [Conn -> SUBSET Schema] /\ owed' \in [Conn -> SUBSET Schema]
        /\ \A o \in Conn \ {c} : ddl'[o] = ddl[o] /\ owed'[o] = owed[o]
        /\ ddl[c] \subseteq ddl'[c] /\ owed'[c] \subseteq owed[c]
    BY Zenon, <1>0, <2>1, <2>2, <2>3
  <2>5. ASSUME NEW o \in Conn \ {c} PROVE Same(o)
    <3>1. \A t \in Schema : held'[o][t] = held[o][t] /\ pending'[o][t] = pending[o][t]
      BY Zenon, <2>p DEF Pushed
    <3> QED  BY Zenon, <1>p, <2>4, <3>1 DEF Same
  <2>6. ASSUME NEW t \in Schema \ {m.schema} PROVE SchemaInv(c, t)'
    <3>1. SchemaInv(c, t) /\ Pushed(c, m, c, t)
      BY Zenon, <2>p DEF CommitInv, ConnInv
    <3>2. held'[c][t] = held[c][t] /\ pending'[c][t] = pending[c][t]
      BY Zenon, <3>1 DEF Pushed
    <3> QED  BY Zenon, <2>4, <3>1, <3>2 DEF SchemaInv, Recorded, Made, HashOf
  <2>7. SchemaInv(c, m.schema)'
    <3>0. SchemaInv(c, m.schema) /\ Pushed(c, m, c, m.schema)
      BY Zenon, <1>0, <2>p DEF CommitInv, ConnInv
    <3>1. held'[c][m.schema].hash = m.hash /\ pending'[c][m.schema] = None
      BY Zenon, <3>0 DEF Pushed
    <3>2. Made(HashOf(held'[c][m.schema]))
      BY Zenon, <3>1 DEF Made, HashOf
    <3>3. m.schema \notin owed'[c]
      <4>1. owed'[c] = IF pending[c][m.schema].commit THEN owed[c] \ {m.schema} ELSE owed[c]
        BY Zenon, <1>0, <2>2
      <4> QED  BY Zenon, <3>0, <4>1 DEF SchemaInv
    <3>4. ASSUME tx[c][m.schema] # None PROVE c \in conns /\ m.schema \in ddl'[c]
      <4>1. c \in conns /\ m.hash = tx[c][m.schema]
        BY Zenon, <3>0, <3>4 DEF SchemaInv, Recorded
      <4>2. CASE m.schema \in ddl[c]
        BY Zenon, <2>4, <4>1, <4>2
      <4>3. CASE m.schema \notin ddl[c]
        <5>1. /\ pending[c][m.schema].stmt /\ pending[c][m.schema].expected # m.hash
              /\ HashOf(held[c][m.schema]) # m.hash
          BY Zenon, <3>0, <3>4, <4>1, <4>3 DEF SchemaInv, Recorded
        <5>2. ~m.unchanged
          BY Zenon, <1>2, <5>1 DEF Rejected
        <5>3. HeldHash(c)[m.schema] # m.hash
          BY Zenon, <1>0, <5>1 DEF HeldHash
        <5>4. DdlAfter(c, m) = ddl[c] \cup {m.schema}
          BY Zenon, <5>1, <5>3 DEF DdlAfter
        <5>5. ddl'[c] = DdlAfter(c, m)
          BY Zenon, <1>0, <2>1, <5>2
        <5> QED  BY Zenon, <4>1, <5>4, <5>5
      <4> QED  BY Zenon, <4>2, <4>3
    <3> QED  BY Zenon, <3>0, <3>1, <3>2, <3>3, <3>4 DEF SchemaInv, Recorded, Made, HashOf
  <2>8. ConnInv(c)'
    BY Zenon, <1>q, <2>6, <2>7 DEF ConnInv
  <2>9. DataInv'
    <3>1. ASSUME NEW d \in Datasource, NEW t \in Schema
          PROVE  \/ HashOf(auth'[d][t]) \in {HashOf(auth[d][t]), None}
                 \/ HashOf(auth'[d][t]) \in Hash /\ HashOf(auth'[d][t]) <= ddls'
      <4>1. auth'[d][t] = auth[d][t] \/ (auth'[d][t] # None /\ auth'[d][t].hash = m.hash)
        BY Zenon, <2>a DEF PushedAuth
      <4>2. m.hash \in Hash /\ m.hash <= ddls'
        BY Zenon, <1>0
      <4>3. HashOf(auth'[d][t]) = HashOf(auth[d][t]) \/ HashOf(auth'[d][t]) = m.hash
        BY Zenon, <4>1 DEF HashOf
      <4> QED  BY Zenon, <4>2, <4>3
    <3>2. DataInv /\ \A d \in Datasource, t \in Schema : db'[d][t] = db[d][t]
      BY Zenon DEF CommitInv
    <3> QED  BY Zenon, <3>1, <3>2, DataFrame
  <2> QED  BY Zenon, <2>4, <2>5, <2>8, <2>9, CommitFrame
<1> QED  BY Zenon, <1>1, <1>2

\* An inspection shows what the transaction of its connection has, and nothing that has not been made.
LEMMA ReportCommit ==
  ASSUME IInv, CommitInv, NEW c \in Conn, NEW s \in Schema
  PROVE  /\ Report(c, s) \in Message /\ Report(c, s).schema = s /\ Report(c, s).hash <= ddls
         /\ tx[c][s] # None => Report(c, s).hash = tx[c][s]
<1>1. View(c, s) \in Hash
  BY Zenon, ViewType
<1>2. View(c, s) <= ddls /\ (tx[c][s] # None => View(c, s) = tx[c][s])
  <2>1. Made(tx[c][s]) /\ DsOf[c] \in Datasource
    BY Zenon, Binding DEF CommitInv, ConnInv, SchemaInv
  <2> QED  BY Zenon, <2>1 DEF CommitInv, DataInv, View, Made
<1>3. Report(c, s) \in Message /\ Report(c, s).schema = s /\ Report(c, s).hash = View(c, s)
  <2>1. Report(c, s) \in Message
    BY Zenon, <1>1 DEF Report, Message
  <2>2. Report(c, s).schema = s /\ Report(c, s).hash = View(c, s)
    BY Zenon DEF Report
  <2> QED  BY Zenon, <2>1, <2>2
<1> QED  BY Zenon, <1>2, <1>3

LEMMA InspectCommit ==
  ASSUME IInv, CommitInv, NEW c \in Conn, NEW s \in Schema, Inspect(c, s)
  PROVE  CommitInv'
<1>0. push \in [Conn -> Opt(Message)]
  BY Zenon DEF IInv, Shape
<1>1. /\ c \in conns /\ push' = [push EXCEPT ![c] = Report(c, s)]
      /\ UNCHANGED <<conns, issuing, held, pending, ddl, auth, db, tx, ddls, owed>>
  BY Zenon DEF Inspect, dbVars, ghosts
<1>2. push'[c] = Report(c, s) /\ \A o \in Conn \ {c} : push'[o] = push[o]
  BY Zenon, <1>0, <1>1
<1>3. \A o \in Conn \ {c} : Same(o)
  BY Zenon, <1>1, <1>2 DEF Same
<1>4. ASSUME NEW t \in Schema PROVE SchemaInv(c, t)'
  <2>1. SchemaInv(c, t)
    BY Zenon DEF CommitInv, ConnInv
  <2> QED  BY Zenon, <1>1, <2>1 DEF SchemaInv, Recorded, Made, HashOf
<1>5. PushInv(c)'
  <2>1. /\ Report(c, s).schema = s /\ Report(c, s).hash <= ddls
        /\ tx[c][s] # None => Report(c, s).hash = tx[c][s]
    BY Zenon, ReportCommit
  <2> QED  BY Zenon, <1>1, <1>2, <2>1 DEF PushInv
<1>6. DataInv' /\ ConnInv(c)'
  BY Zenon, <1>1, <1>4, <1>5 DEF CommitInv, DataInv, Made, HashOf, ConnInv
<1> QED  BY Zenon, <1>1, <1>3, <1>6, CommitFrame DEF CommitInv

\* What happens to a datasource leaves every connection alone.
LEMMA SourceCommit ==
  ASSUME IInv, CommitInv, NEW d \in Datasource,
         \/ \E read : CatalogPush(d, read)
         \/ InvalidateDatasource(d)
         \/ \E s \in Schema : OutsideDdl(d, s)
  PROVE  CommitInv'
<1>0. DataInv /\ auth \in [Datasource -> [Schema -> Opt(AuthType)]] /\ db \in [Datasource -> [Schema -> Hash]]
  BY Zenon DEF CommitInv, IInv, Shape
<1>1. ASSUME NEW read, CatalogPush(d, read) PROVE CommitInv'
  <2>1. UNCHANGED <<conns, issuing, held, pending, ddl, owed, tx, push, db, ddls>>
    BY Zenon, <1>1 DEF CatalogPush, dbVars
  <2>2. ASSUME NEW e \in Datasource, NEW t \in Schema PROVE HashOf(auth'[e][t]) = HashOf(auth[e][t])
    <3>1. /\ auth'[e][t] # None <=> auth[e][t] # None
          /\ auth[e][t] # None => auth'[e][t].hash = auth[e][t].hash
      BY Zenon, <1>1, CatalogEntry
    <3> QED  BY Zenon, <3>1 DEF HashOf
  <2>3. DataInv'
    BY Zenon, <1>0, <2>1, <2>2, DataFrame
  <2> QED  BY Zenon, <2>1, <2>3, CommitQuiet
<1>2. CASE InvalidateDatasource(d)
  <2>1. /\ UNCHANGED <<conns, issuing, held, pending, ddl, owed, tx, push, db, ddls>>
        /\ auth' = [auth EXCEPT ![d] = NoSchemas]
    BY Zenon, <1>2 DEF InvalidateDatasource, dbVars, ghosts
  <2>2. ASSUME NEW e \in Datasource, NEW t \in Schema PROVE HashOf(auth'[e][t]) \in {HashOf(auth[e][t]), None}
    <3>1. auth'[e][t] = auth[e][t] \/ auth'[e][t] = None
      BY Zenon, <1>0, <2>1 DEF NoSchemas
    <3> QED  BY Zenon, <3>1 DEF HashOf
  <2>3. DataInv'
    BY Zenon, <1>0, <2>1, <2>2, DataFrame
  <2> QED  BY Zenon, <2>1, <2>3, CommitQuiet
<1>3. ASSUME NEW s \in Schema, OutsideDdl(d, s) PROVE CommitInv'
  <2>1. /\ UNCHANGED <<conns, issuing, held, pending, ddl, owed, tx, push, auth>>
        /\ ddls < MaxDdl /\ ddls' = ddls + 1 /\ db' = [db EXCEPT ![d][s] = ddls + 1]
    BY Zenon, <1>3 DEF OutsideDdl, ghosts
  <2>2. ddls + 1 \in Hash /\ ddls + 1 <= ddls'
    <3>1. ddls \in 0 .. MaxDdl
      BY Zenon DEF IInv, Shape
    <3> QED  BY <2>1, <3>1, Bounds DEF Hash
  <2>3. ASSUME NEW e \in Datasource, NEW t \in Schema
        PROVE  db'[e][t] = db[e][t] \/ (db'[e][t] \in Hash /\ db'[e][t] <= ddls')
    <3>1. db'[e][t] = db[e][t] \/ db'[e][t] = ddls + 1
      BY Zenon, <1>0, <2>1
    <3> QED  BY Zenon, <2>2, <3>1
  <2>4. DataInv'
    BY Zenon, <1>0, <2>1, <2>3, DataFrame
  <2> QED  BY Zenon, <2>1, <2>4, CommitQuiet
<1> QED  BY Zenon, <1>1, <1>2, <1>3

LEMMA InitCommit == Init => CommitInv
<1> SUFFICES ASSUME Init PROVE CommitInv
  BY Zenon
<1>1. /\ held = [c \in Conn |-> NoSchemas] /\ pending = [c \in Conn |-> NoSchemas]
      /\ tx = [c \in Conn |-> NoSchemas] /\ auth = [d \in Datasource |-> NoSchemas]
      /\ push = [c \in Conn |-> None] /\ ddls = 0 /\ db = [d \in Datasource |-> [s \in Schema |-> 0]]
      /\ ddl = [c \in Conn |-> {}] /\ owed = [c \in Conn |-> {}] /\ issuing = {}
  BY Zenon DEF Init
<1>2. ASSUME NEW c \in Conn, NEW s \in Schema PROVE SchemaInv(c, s)
  <2>1. held[c][s] = None /\ pending[c][s] = None /\ tx[c][s] = None /\ s \notin owed[c]
    BY Zenon, <1>1 DEF NoSchemas
  <2> QED  BY Zenon, <2>1 DEF SchemaInv, Recorded, Made, HashOf
<1>3. ASSUME NEW c \in Conn PROVE PushInv(c)
  BY Zenon, <1>1 DEF PushInv
<1>4. DataInv
  <2>1. 0 <= 0
    OBVIOUS
  <2>2. \A d \in Datasource, s \in Schema : auth[d][s] = None /\ db[d][s] = 0
    BY Zenon, <1>1 DEF NoSchemas
  <2> QED  BY Zenon, <1>1, <2>1, <2>2 DEF DataInv, Made, HashOf
<1>5. ddl \in [Conn -> SUBSET Schema] /\ owed \in [Conn -> SUBSET Schema]
  BY Zenon, <1>1
<1> QED  BY Zenon, <1>1, <1>2, <1>3, <1>4, <1>5 DEF CommitInv, ConnInv

\* Every step remembers what an open transaction has changed.
LEMMA StepCommit == IInv /\ RememberInv /\ [Next]_vars => RememberInv'
<1> SUFFICES ASSUME IInv, Remembers, CommitInv, [Next]_vars PROVE CommitInv'
  BY Zenon DEF RememberInv
<1>e. "recover" \notin Env /\ issuing = {}
  BY Zenon DEF Remembers, CommitInv
<1>1. ASSUME NEW c \in Conn, Open(c) PROVE CommitInv'
  BY Zenon, <1>1, OpenCommit
<1>2. ASSUME NEW c \in Conn, Serve(c) PROVE CommitInv'
  <2>1. UNCHANGED <<conns, issuing, held, pending, ddl, owed, tx, push, auth, db, ddls>>
    BY Zenon, <1>2 DEF Serve, dbVars, ghosts
  <2>2. DataInv'
    BY Zenon, <2>1 DEF CommitInv, DataInv, Made, HashOf
  <2> QED  BY Zenon, <2>1, <2>2, CommitQuiet
<1>3. ASSUME NEW c \in Conn, RecoverPut(c) \/ RecoverIssue(c) \/ SweepIdle(c) PROVE FALSE
  BY Zenon, <1>e, <1>3 DEF RecoverPut, RecoverIssue, SweepIdle
<1>4. ASSUME NEW c \in Conn, Close(c) PROVE CommitInv'
  BY Zenon, <1>4, CloseCommit
<1>5. ASSUME NEW c \in Conn, CloseUnknown(c) PROVE CommitInv'
  BY Zenon, <1>5, TxGone DEF CloseUnknown, Ended, ghosts
<1>6. ASSUME NEW c \in Conn, NEW S \in SUBSET Schema, BeforeDecide(c, S) PROVE CommitInv'
  <2>1. Mark(c, {s \in S : ~Fresh(c, s)}, FALSE, FALSE, HeldOrAuth(c))
    BY Zenon, <1>6 DEF BeforeDecide
  <2>2. UNCHANGED <<conns, issuing, held, ddl, auth, db, tx, ddls, push, owed>>
    BY Zenon, <1>6 DEF BeforeDecide, dbVars, ghosts
  <2> QED  BY Zenon, <2>1, <2>2, GateCommit
<1>7. ASSUME NEW c \in Conn, NEW S \in SUBSET Schema, CatalogMiss(c, S) PROVE CommitInv'
  <2>1. Mark(c, S, FALSE, FALSE, Unconditional)
    BY Zenon, <1>7 DEF CatalogMiss
  <2>2. UNCHANGED <<conns, issuing, held, ddl, auth, db, tx, ddls, push, owed>>
    BY Zenon, <1>7 DEF CatalogMiss, dbVars, ghosts
  <2> QED  BY Zenon, <2>1, <2>2, GateCommit
<1>8. ASSUME NEW c \in Conn, NEW S \in SUBSET Schema, NEW s \in Schema, DecideDdl(c, S, s) PROVE CommitInv'
  BY Zenon, <1>8, DdlCommit
<1>9. ASSUME NEW c \in Conn, DecideCommit(c) PROVE CommitInv'
  BY Zenon, <1>9, CommitCommit
<1>10. ASSUME NEW c \in Conn, DecideRollback(c) PROVE CommitInv'
  BY Zenon, <1>10, TxGone DEF DecideRollback, ghosts
<1>11. ASSUME NEW c \in Conn, NEW s \in Schema, Refetch(c, s) PROVE CommitInv'
  <2>1. ApplyPush(c, Report(c, s)) /\ UNCHANGED <<conns, issuing, db, tx, ddls, push>>
    BY Zenon, <1>11 DEF Refetch, dbVars
  <2>2. /\ Report(c, s) \in Message /\ Report(c, s).schema = s /\ Report(c, s).hash <= ddls
        /\ tx[c][s] # None => Report(c, s).hash = tx[c][s]
    BY Zenon, ReportCommit
  <2> QED  BY Zenon, <2>1, <2>2, PushCommit
<1>12. ASSUME NEW c \in Conn, NEW s \in Schema, Inspect(c, s) PROVE CommitInv'
  BY Zenon, <1>12, InspectCommit
<1>13. ASSUME NEW c \in Conn, PushSchemaFragment(c) PROVE CommitInv'
  <2>1. /\ push[c] # None /\ ApplyPush(c, push[c]) /\ push' = [push EXCEPT ![c] = None]
        /\ UNCHANGED <<conns, issuing, db, tx, ddls>>
    BY Zenon, <1>13 DEF PushSchemaFragment, dbVars
  <2>2. /\ push[c] \in Message /\ push[c].hash <= ddls
        /\ tx[c][push[c].schema] # None => push[c].hash = tx[c][push[c].schema]
    BY Zenon, <2>1, PushType DEF CommitInv, ConnInv, PushInv
  <2> QED  BY Zenon, <2>1, <2>2, PushCommit
<1>14. ASSUME NEW d \in Datasource, NEW read \in CatalogReads(d), CatalogPush(d, read) PROVE CommitInv'
  BY Zenon, <1>14, SourceCommit
<1>15. ASSUME NEW d \in Datasource, InvalidateDatasource(d) \/ (\E s \in Schema : OutsideDdl(d, s)) PROVE CommitInv'
  BY Zenon, <1>15, SourceCommit
<1>16. CASE Restart
  BY Zenon, <1>e, <1>16 DEF Restart
<1>17. CASE Tick \/ UNCHANGED vars
  <2>1. UNCHANGED <<conns, issuing, held, pending, ddl, owed, tx, push, auth, db, ddls>>
    BY Zenon, <1>17 DEF Tick, vars, dbVars, ghosts
  <2>2. DataInv'
    BY Zenon, <2>1 DEF CommitInv, DataInv, Made, HashOf
  <2> QED  BY Zenon, <2>1, <2>2, CommitQuiet
<1> QED
  BY Zenon, <1>1, <1>2, <1>3, <1>4, <1>5, <1>6, <1>7, <1>8, <1>9, <1>10, <1>11, <1>12, <1>13, <1>14, <1>15,
     <1>16, <1>17 DEF Next

\* In every reachable state what an open transaction has changed is remembered, or will be when the
\* refetch that is due has been pushed.
THEOREM CommitInvariant == Spec => []RememberInv
<1>1. Init => RememberInv
  BY Zenon, InitCommit DEF RememberInv
<1> QED  BY <1>1, StepCommit, EvidenceInvariant, PTL DEF Spec

\* Every schema that a COMMIT changes has its after-commit refetch until that refetch has been pushed,
\* however many schemas the transaction changes and whatever rollbacks came before (markAfterCommit,
\* statementChangedStructure).
THEOREM CommitsAreRefreshed == Spec => [](Remembers => CommitRefreshes)
<1>1. RememberInv /\ ConnsType => (Remembers => CommitRefreshes)
  <2> SUFFICES ASSUME CommitInv, NEW c \in Conn, NEW s \in owed[c]
               PROVE  pending[c][s] # None /\ pending[c][s].commit
    BY Zenon DEF RememberInv, ConnsType, CommitRefreshes
  <2>1. s \in Schema
    BY Zenon DEF CommitInv
  <2> QED  BY Zenon, <2>1 DEF CommitInv, ConnInv, SchemaInv
<1> QED  BY <1>1, CommitInvariant, Registered, PTL

-----------------------------------------------------------------------------
\* The pool counts at least what is held and authoritative.
PoolInv == Fits(pool, held, auth)

LEMMA PoolInvNext == PoolInv' <=> Fits(pool', held', auth')
BY Zenon DEF PoolInv

\* Steps that leave the pool alone and need nothing more.
LEMMA QuietPool ==
  ASSUME PoolInv, pool' = pool,
         \A o \in Conn, t \in Schema : held'[o][t] # None => held[o][t] # None /\ held'[o][t].hash = held[o][t].hash,
         \A e \in Datasource, t \in Schema : auth'[e][t] # None => auth[e][t] # None /\ auth'[e][t].hash = auth[e][t].hash
  PROVE  PoolInv'
<1>1. Fits(pool, held, auth) /\ Counted(pool)
  BY Zenon DEF PoolInv, Fits
<1>2. ASSUME NEW y \in Key PROVE Served(pool, held, auth, pool', held', auth', y)
  <2>1. Moves(Conn, DsOf, held, held', y, FALSE, FALSE)
    BY Zenon, Finite, EntriesKept
  <2>2. Moves(Datasource, Self, auth, auth', y, FALSE, FALSE)
    BY Zenon, Finite, EntriesKept
  <2>3. Counts(pool, pool', y, FALSE, FALSE, FALSE, FALSE)
    BY Zenon, <1>1, SameCounts
  <2> QED  BY Zenon, <2>1, <2>2, <2>3 DEF Served
<1>3. Fits(pool', held', auth')
  BY Zenon, <1>1, <1>2, Balance
<1> QED  BY Zenon, <1>3, PoolInvNext

LEMMA StillPool == ASSUME PoolInv, UNCHANGED <<pool, held, auth>> PROVE PoolInv'
BY Zenon, QuietPool

\* issueInitial retains what it adopts: the structures of different schemas have different keys.
LEMMA IssuePool ==
  ASSUME IInv, PoolInv, NEW c \in Conn, IssueInitial(c), auth' = auth
  PROVE  PoolInv'
<1> DEFINE K == AdoptedKeys(c)
<1>0. /\ Fits(pool, held, auth) /\ Counted(pool) /\ K \subseteq DOMAIN pool
      /\ pool' = [k \in DOMAIN pool |-> IF k \in K THEN pool[k] + 1 ELSE pool[k]]
  BY Zenon DEF PoolInv, Fits, IssueInitial, AdoptedKeys, Adopted
<1>1. ASSUME NEW y, NEW z \in At(Conn, DsOf, held', y), z \notin At(Conn, DsOf, held, y)
      PROVE  y \in K /\ z = <<c, y[2]>>
  <2>1. z \in Conn \X Schema /\ held'[z[1]][z[2]] # None /\ KeyAt(DsOf, held', z[1], z[2]) = y
    BY Zenon DEF At
  <2>2. z[1] \in Conn /\ z[2] \in Schema
    BY Zenon, <2>1, Pair
  <2>3. Issued(c, z[1], z[2])
    BY Zenon, <2>2, IssueEntry
  <2>4. held'[z[1]][z[2]] # held[z[1]][z[2]]
    BY Zenon, <1>1, <2>1 DEF At, KeyAt
  <2>5. z[1] = c /\ z[2] \in Adopted(c) /\ held'[c][z[2]] = Adopt(AuthOf(c, z[2]))
    BY Zenon, <2>3, <2>4 DEF Issued
  <2>6. held'[c][z[2]].hash = AuthOf(c, z[2]).hash
    BY <2>5 DEF Adopt
  <2>7. AuthKey(DsOf[c], z[2]) = y
    BY Zenon, <2>1, <2>5, <2>6 DEF AuthKey, AuthOf, KeyAt
  <2>8. y[2] = z[2]
    BY Zenon, <2>7 DEF AuthKey, KeyOf
  <2>9. z = <<z[1], z[2]>>
    BY <2>1
  <2> QED  BY Zenon, <2>5, <2>7, <2>8, <2>9 DEF AdoptedKeys
<1> HIDE DEF K
<1>2. ASSUME NEW y \in Key PROVE Served(pool, held, auth, pool', held', auth', y)
  <2>0. (y \in K) \in BOOLEAN
    OBVIOUS
  <2>1. Moves(Conn, DsOf, held, held', y, y \in K, FALSE)
    <3>1. (y \in K => At(Conn, DsOf, held', y) \subseteq At(Conn, DsOf, held, y) \cup {<<c, y[2]>>})
      BY Zenon, <1>1
    <3>2. y \notin K => At(Conn, DsOf, held', y) \subseteq At(Conn, DsOf, held, y)
      BY Zenon, <1>1
    <3>3. IsFiniteSet(At(Conn, DsOf, held, y))
      BY Zenon, Finite, FewEntries
    <3> QED  BY Zenon, <2>0, <3>1, <3>2, <3>3, SizeMoves DEF Moves
  <2>2. Moves(Datasource, Self, auth, auth', y, FALSE, FALSE)
    BY Zenon, Finite, EntriesKept
  <2>3. Counts(pool, pool', y, y \in K, FALSE, FALSE, FALSE)
    BY Zenon, <1>0, RaiseCounts
  <2> QED  BY Zenon, <2>0, <2>1, <2>2, <2>3 DEF Served
<1>3. Counted(pool')
  BY Zenon, <1>0, RaiseCounts
<1> QED  BY Zenon, <1>0, <1>2, <1>3, Balance, PoolInvNext

\* A record that goes gives back what it held.
LEMMA DropPool ==
  ASSUME IInv, PoolInv, NEW c \in Conn, Drop(c)
  PROVE  PoolInv'
<1> DEFINE K == HeldKeys(c)
<1>0. Fits(pool, held, auth) /\ Counted(pool) /\ pool' = Release(pool, K) /\ auth' = auth
  BY Zenon DEF PoolInv, Fits, Drop
<1>1. \A o \in Conn, t \in Schema : held'[o][t] = IF o = c THEN None ELSE held[o][t]
  BY Zenon, DropEntry DEF Dropped
<1>2. K = {KeyAt(DsOf, held, c, s) : s \in {t \in Schema : held[c][t] # None}}
  BY Zenon DEF HeldKeys, HeldKey, KeyAt
<1> HIDE DEF K
<1>3. ASSUME NEW y \in Key PROVE Served(pool, held, auth, pool', held', auth', y)
  <2>1. Moves(Conn, DsOf, held, held', y, FALSE, y \in K)
    BY Zenon, <1>1, <1>2, Finite, EntriesDropped
  <2>2. Moves(Datasource, Self, auth, auth', y, FALSE, FALSE)
    BY Zenon, <1>0, Finite, EntriesKept
  <2>3. Counts(pool, pool', y, FALSE, y \in K, FALSE, FALSE)
    BY Zenon, <1>0, LowerCounts
  <2>4. (y \in K) \in BOOLEAN
    OBVIOUS
  <2> QED  BY Zenon, <2>1, <2>2, <2>3, <2>4 DEF Served
<1>4. Counted(pool')
  BY Zenon, <1>0, LowerCounts
<1> QED  BY Zenon, <1>0, <1>3, <1>4, Balance, PoolInvNext

\* invalidateDatasource gives back what was authoritative.
LEMMA InvalidatePool ==
  ASSUME IInv, PoolInv, NEW d \in Datasource, InvalidateDatasource(d)
  PROVE  PoolInv'
<1> DEFINE K == AuthKeys(d)
<1>0. Fits(pool, held, auth) /\ Counted(pool) /\ pool' = Release(pool, K) /\ held' = held
  BY Zenon DEF PoolInv, Fits, InvalidateDatasource
<1>1. ASSUME NEW e \in Datasource, NEW t \in Schema PROVE auth'[e][t] = IF e = d THEN None ELSE auth[e][t]
  <2>1. auth \in [Datasource -> [Schema -> Opt(AuthType)]] /\ auth' = [auth EXCEPT ![d] = NoSchemas]
    BY Zenon DEF IInv, Shape, InvalidateDatasource
  <2> QED  BY Zenon, <2>1 DEF NoSchemas
<1>2. K = {KeyAt(Self, auth, d, s) : s \in {t \in Schema : auth[d][t] # None}}
  BY Zenon DEF AuthKeys, AuthKey, KeyAt, Self
<1> HIDE DEF K
<1>3. ASSUME NEW y \in Key PROVE Served(pool, held, auth, pool', held', auth', y)
  <2>1. Moves(Datasource, Self, auth, auth', y, FALSE, y \in K)
    BY Zenon, <1>1, <1>2, Finite, EntriesDropped
  <2>2. Moves(Conn, DsOf, held, held', y, FALSE, FALSE)
    BY Zenon, <1>0, Finite, EntriesKept
  <2>3. Counts(pool, pool', y, FALSE, FALSE, FALSE, y \in K)
    BY Zenon, <1>0, LowerCounts
  <2>4. (y \in K) \in BOOLEAN
    OBVIOUS
  <2> QED  BY Zenon, <2>1, <2>2, <2>3, <2>4 DEF Served
<1>4. Counted(pool')
  BY Zenon, <1>0, LowerCounts
<1> QED  BY Zenon, <1>0, <1>3, <1>4, Balance, PoolInvNext

\* An accepted push leaves the connection with the structure.
LEMMA PushHolds ==
  ASSUME IInv, NEW c \in Conn, NEW m \in Message, ApplyPush(c, m), ~Rejected(c, m)
  PROVE  held'[c][m.schema] # None
<1>0. m.schema \in Schema /\ m.hash \in Hash
  BY DEF Message
<1>1. held \in [Conn -> [Schema -> Opt(HeldType)]]
  BY Zenon DEF IInv, Shape
<1>2. PICK r : /\ r = IF m.unchanged THEN pending[c][m.schema].at ELSE None
               /\ held' = [held EXCEPT ![c][m.schema] = [hash |-> m.hash, verified |-> now, reval |-> r]]
  <2>1. CASE m.unchanged
    BY Zenon, <2>1 DEF ApplyPush, ApplyUnchanged
  <2>2. CASE ~m.unchanged
    BY Zenon, <2>2 DEF ApplyPush, ApplyFull
  <2> QED  BY Zenon, <2>1, <2>2
<1>3. r \in Opt(Hash)
  <2>1. pending[c][m.schema] # None
    BY Zenon DEF Rejected
  <2>2. pending[c][m.schema].at \in Opt(Hash) /\ None \in Opt(Hash)
    BY Zenon, <1>0, <2>1, PendingEntry DEF Opt
  <2> QED  BY Zenon, <1>2, <2>2
<1>4. [hash |-> m.hash, verified |-> now, reval |-> r] \in HeldType
  BY <1>0, <1>3, ClockType DEF HeldType
<1>5. held'[c][m.schema] = [hash |-> m.hash, verified |-> now, reval |-> r]
  <2> HIDE DEF HeldType
  <2> QED  BY Zenon, <1>0, <1>1, <1>2
<1> QED  BY Zenon, <1>4, <1>5, NoneIsNoEntry

LEMMA KeyType == ASSUME NEW d \in Datasource, NEW s \in Schema, NEW h \in Hash PROVE KeyOf(d, s, h) \in Key
BY DEF Key

\* applyPush: what an accepted push replaces, of the connection and of its datasource.
LEMMA PushPool ==
  ASSUME IInv, PoolInv, NEW c \in Conn, NEW m \in Message, ApplyPush(c, m)
  PROVE  PoolInv'
<1> DEFINE s == m.schema
           d == DsOf[c]
           k == KeyOf(d, s, m.hash)
           b == held[c][s] = None \/ HeldKey(c, s) # k
           a == auth[d][s] = None \/ AuthKey(d, s) # k
<1>0. /\ s \in Schema /\ m.hash \in Hash /\ d \in Datasource
      /\ Fits(pool, held, auth) /\ Counted(pool)
  BY Zenon, Binding DEF Message, PoolInv, Fits
<1>1. CASE Rejected(c, m)
  BY Zenon, <1>1, StillPool DEF ApplyPush
<1>2. ASSUME ~Rejected(c, m)
      PROVE  /\ \A o \in Conn, t \in Schema : o # c \/ t # s => held'[o][t] = held[o][t]
             /\ held'[c][s] # None /\ KeyAt(DsOf, held', c, s) = k
  <2>1. \A o \in Conn, t \in Schema : Pushed(c, m, o, t)
    BY Zenon, <1>2, PushEntry
  <2>2. held'[c][s] # None
    BY Zenon, <1>0, <1>2, PushHolds
  <2> QED  BY Zenon, <1>0, <2>1, <2>2 DEF Pushed, KeyAt
<1>3. b \in BOOLEAN /\ a \in BOOLEAN
  BY Zenon
<1>4. ASSUME ~Rejected(c, m), NEW y
      PROVE  Moves(Conn, DsOf, held, held', y, b /\ y = k, b /\ held[c][s] # None /\ y = HeldKey(c, s))
  <2>1. HeldKey(c, s) = KeyAt(DsOf, held, c, s) /\ (b <=> held[c][s] = None \/ KeyAt(DsOf, held, c, s) # k)
    BY Zenon DEF HeldKey, KeyAt
  <2> HIDE DEF b, k
  <2>2. EntryMoved(Conn, DsOf, held, held', y, c, s, k, b)
    BY Zenon, <1>0, <1>2, <1>3, <1>4, <2>1, Finite, EntryMoves
  <2> QED  BY Zenon, <2>1, <2>2 DEF EntryMoved
\* Unchanged: the structure is retained before the one it replaces is released.
<1>5. CASE ~Rejected(c, m) /\ m.unchanged
  <2> DEFINE p1 == IF b THEN Retain(pool, k, 1) ELSE pool
             o == b /\ held[c][s] # None
  <2>0. o \in BOOLEAN
    BY Zenon
  <2>1. auth' = auth /\ pool' = IF o THEN Release(p1, {HeldKey(c, s)}) ELSE p1
    BY Zenon, <1>5 DEF ApplyPush, ApplyUnchanged
  <2>2. ASSUME NEW y PROVE Counted(pool') /\ Counts(pool, pool', y, b /\ y = k, o /\ y = HeldKey(c, s), FALSE, FALSE)
    <3>1. CASE b
      <4>1. One(b) + One(FALSE) = 1 /\ 1 \in Nat /\ 1 > 0
        BY <3>1 DEF One
      <4>2. p1 = Retain(pool, k, 1)
        BY Zenon, <3>1
      <4> HIDE DEF b, k, p1, o
      <4>3. Retained(pool, k, One(b) + One(FALSE), p1)
        BY Zenon, <1>0, <4>1, <4>2, RetainCounts
      <4>4. Released(p1, o, HeldKey(c, s), pool')
        BY Zenon, <2>0, <2>1, <4>3, MayRelease DEF Retained
      <4>5. Released(pool', FALSE, 0, pool')
        BY Zenon, <4>4, MayRelease DEF Released
      <4>6. PoolChanged(pool, pool', y, k, b, FALSE, o, HeldKey(c, s), FALSE, 0)
        BY Zenon, <1>0, <1>3, <2>0, <4>3, <4>4, <4>5, PoolChanges
      <4> QED  BY Zenon, <4>6 DEF PoolChanged
    <3>2. CASE ~b
      <4>1. pool' = pool /\ (b /\ y = k) = FALSE /\ (o /\ y = HeldKey(c, s)) = FALSE
        BY Zenon, <2>1, <3>2
      <4> QED  BY Zenon, <1>0, <4>1, SameCounts
    <3> QED  BY Zenon, <3>1, <3>2
  <2>3. ASSUME NEW y \in Key PROVE Served(pool, held, auth, pool', held', auth', y)
    <3>1. Moves(Datasource, Self, auth, auth', y, FALSE, FALSE)
      BY Zenon, <2>1, Finite, EntriesKept
    <3>2. /\ (b /\ y = k) \in BOOLEAN /\ (o /\ y = HeldKey(c, s)) \in BOOLEAN
          /\ (o /\ y = HeldKey(c, s)) = (b /\ held[c][s] # None /\ y = HeldKey(c, s))
      BY Zenon
    <3> QED  BY Zenon, <1>4, <1>5, <2>2, <3>1, <3>2 DEF Served
  <2>4. Counted(pool')
    BY Zenon, <2>2
  <2> QED  BY Zenon, <1>0, <2>3, <2>4, Balance, PoolInvNext
\* Full: a reference for the connection and one as the authoritative structure, and then the releases.
<1>6. CASE ~Rejected(c, m) /\ ~m.unchanged
  <2> DEFINE p1 == Retain(pool, k, One(b) + One(a))
             o == b /\ held[c][s] # None
             p2 == IF o THEN Release(p1, {HeldKey(c, s)}) ELSE p1
             w == a /\ auth[d][s] # None
  <2>1. pool' = IF w THEN Release(p2, {AuthKey(d, s)}) ELSE p2
    BY Zenon, <1>6 DEF ApplyPush, ApplyFull, One
  <2>2. o \in BOOLEAN /\ w \in BOOLEAN
    BY Zenon
  <2>3. b \/ a \/ k \in DOMAIN pool
    <3> SUFFICES ASSUME ~b PROVE k \in DOMAIN pool
      OBVIOUS
    <3>1. k \in Key
      BY Zenon, <1>0, KeyType
    <3>2. <<c, s>> \in At(Conn, DsOf, held, k)
      BY Zenon, <1>0, EntryAt DEF HeldKey, KeyAt
    <3> QED  BY Zenon, <1>0, <3>1, <3>2, NeededIsThere
  <2>4. ASSUME NEW y
        PROVE  /\ Counted(pool')
               /\ Counts(pool, pool', y, b /\ y = k, o /\ y = HeldKey(c, s), a /\ y = k, w /\ y = AuthKey(d, s))
    <3>1. One(b) + One(a) \in Nat /\ (One(b) + One(a) > 0 \/ (~b /\ ~a))
      BY Zenon, <1>3, TwoOnes
    <3>2. p2 = IF o THEN Release(p1, {HeldKey(c, s)}) ELSE p1
      BY Zenon
    <3> HIDE DEF b, a, k, o, w, p2, d, s
    <3>3. Retained(pool, k, One(b) + One(a), p1)
      BY Zenon, <1>0, <2>3, <3>1, RetainCounts
    <3> HIDE DEF p1
    <3>4. Released(p1, o, HeldKey(c, s), p2)
      <4>1. Counted(p1)
        BY Zenon, <3>3 DEF Retained
      <4> QED  BY Zenon, <2>2, <3>2, <4>1, MayRelease
    <3>5. Released(p2, w, AuthKey(d, s), pool')
      <4>1. Counted(p2)
        BY Zenon, <3>4 DEF Released
      <4> QED  BY Zenon, <2>1, <2>2, <4>1, MayRelease
    <3>6. PoolChanged(pool, pool', y, k, b, a, o, HeldKey(c, s), w, AuthKey(d, s))
      BY Zenon, <1>0, <1>3, <2>2, <3>3, <3>4, <3>5, PoolChanges
    <3> QED  BY Zenon, <3>6 DEF PoolChanged
  <2>5. ASSUME NEW y
        PROVE  Moves(Datasource, Self, auth, auth', y, a /\ y = k, a /\ auth[d][s] # None /\ y = AuthKey(d, s))
    <3>1. \A e \in Datasource, t \in Schema : PushedAuth(c, m, e, t)
      BY Zenon, <1>6, PushAuth
    <3>2. /\ \A e \in Datasource, t \in Schema : e # d \/ t # s => auth'[e][t] = auth[e][t]
          /\ auth'[d][s] # None /\ KeyAt(Self, auth', d, s) = k
      BY Zenon, <1>0, <1>6, <3>1 DEF PushedAuth, KeyAt, Self
    <3>3. AuthKey(d, s) = KeyAt(Self, auth, d, s) /\ (a <=> auth[d][s] = None \/ KeyAt(Self, auth, d, s) # k)
      BY Zenon, <1>0 DEF AuthKey, KeyAt, Self
    <3> HIDE DEF a, k, d
    <3>4. EntryMoved(Datasource, Self, auth, auth', y, d, s, k, a)
      BY Zenon, <1>0, <1>3, <3>2, <3>3, Finite, EntryMoves
    <3> QED  BY Zenon, <3>3, <3>4 DEF EntryMoved
  <2>6. ASSUME NEW y \in Key PROVE Served(pool, held, auth, pool', held', auth', y)
    <3>1. /\ (b /\ y = k) \in BOOLEAN /\ (o /\ y = HeldKey(c, s)) \in BOOLEAN
          /\ (a /\ y = k) \in BOOLEAN /\ (w /\ y = AuthKey(d, s)) \in BOOLEAN
          /\ (o /\ y = HeldKey(c, s)) = (b /\ held[c][s] # None /\ y = HeldKey(c, s))
          /\ (w /\ y = AuthKey(d, s)) = (a /\ auth[d][s] # None /\ y = AuthKey(d, s))
      BY Zenon
    <3> HIDE DEF b, a, o, w, k, d
    <3> QED  BY Zenon, <1>4, <1>6, <2>4, <2>5, <3>1 DEF Served
  <2>7. Counted(pool')
    BY Zenon, <2>4
  <2> QED  BY Zenon, <1>0, <2>6, <2>7, Balance, PoolInvNext
<1> QED  BY Zenon, <1>1, <1>5, <1>6

\* Without entries nothing needs the pool.
LEMMA EmptyFits ==
  ASSUME NEW p, NEW h, NEW a, p = [k \in {} |-> 0],
         h = [c \in Conn |-> NoSchemas], a = [d \in Datasource |-> NoSchemas]
  PROVE  Fits(p, h, a)
<1>1. ASSUME NEW I, NEW ds, NEW f, f = [o \in I |-> NoSchemas], NEW y PROVE At(I, ds, f, y) = {}
  <2>1. ASSUME NEW z \in At(I, ds, f, y) PROVE FALSE
    <3>1. z \in I \X Schema /\ f[z[1]][z[2]] # None
      BY Zenon DEF At
    <3>2. z[1] \in I /\ z[2] \in Schema
      BY Zenon, <3>1, Pair
    <3> QED  BY Zenon, <1>1, <3>1, <3>2 DEF NoSchemas
  <2> QED  BY Zenon, <2>1
<1>2. ASSUME NEW y
      PROVE  Cardinality(At(Conn, DsOf, h, y)) = 0 /\ Cardinality(At(Datasource, Self, a, y)) = 0 /\ Count(p, y) = 0
  BY Zenon, <1>1, FS_EmptySet DEF Count
<1>3. ASSUME NEW y PROVE Cardinality(At(Conn, DsOf, h, y)) + Cardinality(At(Datasource, Self, a, y)) <= Count(p, y)
  <2> HIDE DEF Fits
  <2> QED  BY <1>2
<1> QED  BY Zenon, <1>3 DEF Fits, Counted

LEMMA InitPool == Init => PoolInv
BY Zenon, EmptyFits DEF Init, PoolInv

LEMMA StepPool == IInv /\ PoolInv /\ [Next]_vars => PoolInv'
<1> SUFFICES ASSUME IInv, PoolInv, [Next]_vars PROVE PoolInv'
  OBVIOUS
<1>1. ASSUME NEW c \in Conn, Open(c) \/ RecoverIssue(c) PROVE PoolInv'
  <2>1. IssueInitial(c) /\ auth' = auth
    BY Zenon, <1>1 DEF Open, RecoverIssue
  <2> QED  BY Zenon, <2>1, IssuePool
<1>2. ASSUME NEW c \in Conn, Close(c) \/ SweepIdle(c) PROVE PoolInv'
  <2>1. Drop(c)
    BY Zenon, <1>2 DEF Close, SweepIdle
  <2> QED  BY Zenon, <2>1, DropPool
<1>3. ASSUME NEW c \in Conn, Serve(c) \/ RecoverPut(c) \/ CloseUnknown(c) \/ DecideCommit(c) \/ DecideRollback(c)
      PROVE  PoolInv'
  <2>1. UNCHANGED <<pool, held, auth>>
    BY Zenon, <1>3 DEF Serve, RecoverPut, CloseUnknown, DecideCommit, DecideRollback
  <2> QED  BY Zenon, <2>1, StillPool
<1>4. ASSUME NEW c \in Conn, NEW S \in SUBSET Schema, BeforeDecide(c, S) \/ CatalogMiss(c, S) PROVE PoolInv'
  <2>1. UNCHANGED <<pool, held, auth>>
    BY Zenon, <1>4 DEF BeforeDecide, CatalogMiss
  <2> QED  BY Zenon, <2>1, StillPool
<1>5. ASSUME NEW c \in Conn, NEW S \in SUBSET Schema, NEW s \in Schema, DecideDdl(c, S, s) PROVE PoolInv'
  <2>1. UNCHANGED <<pool, held, auth>>
    BY Zenon, <1>5 DEF DecideDdl
  <2> QED  BY Zenon, <2>1, StillPool
<1>6. ASSUME NEW c \in Conn, NEW s \in Schema, Refetch(c, s) PROVE PoolInv'
  <2>1. ApplyPush(c, Report(c, s))
    BY Zenon, <1>6 DEF Refetch
  <2>2. Report(c, s) \in Message
    <3>1. View(c, s) \in Hash
      BY Zenon, ViewType
    <3> QED  BY Zenon, <3>1 DEF Report, Message
  <2> QED  BY Zenon, <2>1, <2>2, PushPool
<1>7. ASSUME NEW c \in Conn, NEW s \in Schema, Inspect(c, s) PROVE PoolInv'
  <2>1. UNCHANGED <<pool, held, auth>>
    BY Zenon, <1>7 DEF Inspect
  <2> QED  BY Zenon, <2>1, StillPool
<1>8. ASSUME NEW c \in Conn, PushSchemaFragment(c) PROVE PoolInv'
  <2>1. push[c] # None /\ ApplyPush(c, push[c])
    BY Zenon, <1>8 DEF PushSchemaFragment
  <2>2. push[c] \in Message
    BY Zenon, <2>1, PushType
  <2> QED  BY Zenon, <2>1, <2>2, PushPool
<1>9. ASSUME NEW d \in Datasource, NEW read \in CatalogReads(d), CatalogPush(d, read) PROVE PoolInv'
  <2>1. held' = held /\ pool' = pool
    BY Zenon, <1>9 DEF CatalogPush
  <2>2. \A e \in Datasource, t \in Schema : auth'[e][t] # None => auth[e][t] # None /\ auth'[e][t].hash = auth[e][t].hash
    BY Zenon, <1>9, CatalogEntry
  <2> QED  BY Zenon, <2>1, <2>2, QuietPool
<1>10. ASSUME NEW d \in Datasource, InvalidateDatasource(d) PROVE PoolInv'
  BY Zenon, <1>10, InvalidatePool
<1>11. ASSUME NEW d \in Datasource, NEW s \in Schema, OutsideDdl(d, s) PROVE PoolInv'
  <2>1. UNCHANGED <<pool, held, auth>>
    BY Zenon, <1>11 DEF OutsideDdl
  <2> QED  BY Zenon, <2>1, StillPool
<1>12. CASE Restart
  <2>1. Fits(pool', held', auth')
    BY Zenon, <1>12, EmptyFits DEF Restart
  <2> QED  BY Zenon, <2>1, PoolInvNext
<1>13. CASE Tick \/ UNCHANGED vars
  <2>1. UNCHANGED <<pool, held, auth>>
    BY Zenon, <1>13 DEF Tick, vars
  <2> QED  BY Zenon, <2>1, StillPool
<1> QED
  BY Zenon, <1>1, <1>2, <1>3, <1>4, <1>5, <1>6, <1>7, <1>8, <1>9, <1>10, <1>11, <1>12, <1>13 DEF Next

\* In every reachable state the pool counts, for every structure, at least the connections that hold it
\* and the datasources whose authoritative structure it is.
THEOREM PoolInvariant == Spec => []PoolInv
BY InitPool, StepPool, EvidenceInvariant, PTL DEF Spec

\* retain and release: no structure that a connection holds or that is authoritative leaves the pool,
\* whatever is pushed, adopted, shared between datasources, closed, swept, recovered or deleted.
THEOREM NeededStaysPooled == Spec => []HeldIsPooled
<1>1. PoolInv => HeldIsPooled
  <2> SUFFICES ASSUME PoolInv, NEW k \in Key, HeldAt(k) \cup AuthAt(k) # {}
               PROVE  k \in DOMAIN pool /\ pool[k] >= Cardinality(HeldAt(k)) + Cardinality(AuthAt(k))
    BY Zenon DEF HeldIsPooled
  <2>1. HeldAt(k) = At(Conn, DsOf, held, k)
    BY Zenon DEF HeldAt, HeldKey, At, KeyAt
  <2>2. AuthAt(k) = At(Datasource, Self, auth, k)
    <3>1. \A x \in Datasource \X Schema : AuthKey(x[1], x[2]) = KeyAt(Self, auth, x[1], x[2])
      BY Zenon, Pair DEF AuthKey, KeyAt, Self
    <3> QED  BY Zenon, <3>1 DEF AuthAt, At
  <2>3. /\ Fits(pool, held, auth)
        /\ At(Conn, DsOf, held, k) # {} \/ At(Datasource, Self, auth, k) # {}
    BY Zenon, <2>1, <2>2 DEF PoolInv
  <2>4. k \in DOMAIN pool
    BY Zenon, <2>3, NeededIsThere
  <2>5. Count(pool, k) = pool[k] /\ pool[k] \in Nat /\ Cardinality(HeldAt(k)) + Cardinality(AuthAt(k)) <= pool[k]
    BY Zenon, <2>1, <2>2, <2>3, <2>4 DEF Fits, Counted, Count
  <2>6. Cardinality(HeldAt(k)) \in Nat /\ Cardinality(AuthAt(k)) \in Nat
    BY Zenon, <2>1, <2>2, Finite, FewEntries
  <2> QED  BY <2>4, <2>5, <2>6
<1> QED  BY <1>1, PoolInvariant, PTL
=============================================================================
