--------------------------- MODULE ConnectionCatalog ---------------------------
(***************************************************************************)
(* The control plane's per-connection catalog (ConnectionCatalogRegistry)  *)
(* and the decide handler around it.  Every proxy connection holds, per    *)
(* schema, the structure its statements are analyzed against.  Structures  *)
(* are pooled by content hash and reference counted; per datasource the    *)
(* last accepted structure is authoritative; a statement is decided only   *)
(* when the freshness gate lets its schemas through, and otherwise the     *)
(* proxy is told to re-inspect them first.                                 *)
(*                                                                         *)
(* The target database is modelled as far as the registry can see it: the  *)
(* structure of each schema, changed by DDL that connections run through   *)
(* the proxy or that somebody runs directly.                               *)
(*                                                                         *)
(* Requests that fail validation (wrong datasource, catalog or backend     *)
(* generation, no pending refetch) change nothing and are left out, and so *)
(* are two structures with one hash.                                       *)
(***************************************************************************)
EXTENDS Integers, FiniteSets

CONSTANTS
  Conn,        \* connection ids
  Datasource,
  DsOf,        \* the datasource each connection is bound to
  Schema,
  System,      \* schemas pooled per engine version instead of per datasource
  None,
  Adopts,      \* Engine.catalogIsConnectionIndependent
  TxDdl,       \* DDL is part of the transaction, as in PostgreSQL
  Env,         \* what happens around the registry:
               \*   "slow"     other steps fall between an inspection and its push
               \*   "recover"  the control plane restarts or sweeps, and recover brings ids back
               \*   "outside"  structure also changes without the proxy's knowledge
               \*   "delete"   datasources are deleted
               \*   "rollback" transactions are rolled back
               \*   "repeat"   DDL may bring back an earlier structure
  Staleness,   \* stalenessNanos
  MaxTime,     \* bound: the clock
  MaxDdl,      \* bound: changes of structure
  MaxRecover   \* bound: recoveries; after the last one nothing is forgotten any more

\* Structures by content hash; without "repeat" the n-th change brings structure n.
Hash == 0 .. MaxDdl

Opt(S) == S \cup {None}

\* Entries of the registry's maps, and what a push carries.
HeldType == [hash : Hash, verified : Int, reval : Opt(Hash)]
PendingType == [expected : Opt(Hash), at : Opt(Hash), stmt : BOOLEAN, commit : BOOLEAN]
AuthType == [hash : Hash, inspected : Int]
Message == [schema : Schema, hash : Hash, unchanged : BOOLEAN]

ASSUME Finite == IsFiniteSet(Conn) /\ IsFiniteSet(Datasource) /\ IsFiniteSet(Schema)
ASSUME Binding == DsOf \in [Conn -> Datasource]
ASSUME SystemSchemas == System \subseteq Schema
ASSUME EngineTraits == Adopts \in BOOLEAN /\ TxDdl \in BOOLEAN
ASSUME Surroundings == Env \subseteq {"slow", "recover", "outside", "delete", "rollback", "repeat"}
ASSUME Bounds == Staleness \in Nat /\ MaxTime \in Nat /\ MaxDdl \in Nat /\ MaxRecover \in Nat
ASSUME NoneIsNone == None \notin Int
ASSUME NoneIsNoEntry == None \notin HeldType \cup PendingType \cup AuthType

VARIABLES
  conns,    \* the registered connections
  issuing,  \* connections whose recover has not issued its initial commands yet
  held,     \* held[c][s]: hash, lastVerifiedNanos, revalidatedAgainstAuthoritativeHash
  pending,  \* pending[c][s]: expectedHash, authoritativeAtIssue and the two marks
  ddl,      \* ddlSinceLastCommit
  auth,     \* authoritative[d][s]: hash, lastInspectedNanos
  pool,     \* reference counts by pool key
  now,      \* clockNanos
  db,       \* target database: committed structure
  tx,       \* structure each connection's open transaction has changed
  ddls,     \* changes of structure so far
  recoveries, \* recoveries so far
  client,   \* the proxy's side of each connection: "closed", "opening" or "serving"
  push,     \* the inspection a proxy connection is about to push
  owed,       \* ghost: schemas a COMMIT of the connection changed, their refresh still due
  unreported, \* ghost: schemas the connection changed with no accepted push after the change
  evidence    \* ghost: when an accepted push last showed a structure of a datasource's schema

dbVars == <<db, tx, ddls>>
ghosts == <<owed, unreported, evidence>>
vars == <<conns, issuing, held, pending, ddl, auth, pool, now, recoveries, dbVars, client, push, ghosts>>

-----------------------------------------------------------------------------
(* The pool.                                                               *)

\* poolKey
KeyOf(d, s, h) == <<IF s \in System THEN "engine" ELSE d, s, h>>
Key == {KeyOf(d, s, h) : d \in Datasource, s \in Schema, h \in Hash}

\* Faulty variant: a structure both held and authoritative gets one reference.
RetainOnce(p, k, n) ==
  [x \in DOMAIN p \cup {k} |-> (IF x \in DOMAIN p THEN p[x] ELSE 0) + (IF x = k /\ n > 0 THEN 1 ELSE 0)]

Retain(p, k, n) ==
  [x \in DOMAIN p \cup {k} |-> (IF x \in DOMAIN p THEN p[x] ELSE 0) + (IF x = k THEN n ELSE 0)]

\* One reference fewer for every key of K; an entry without references goes.
Release(p, K) ==
  [x \in DOMAIN p \ {k \in K \cap DOMAIN p : p[k] = 1} |-> IF x \in K THEN p[x] - 1 ELSE p[x]]

HeldKey(c, s) == KeyOf(DsOf[c], s, held[c][s].hash)
AuthKey(d, s) == KeyOf(d, s, auth[d][s].hash)

HeldKeys(c) == {HeldKey(c, s) : s \in {t \in Schema : held[c][t] # None}}
AuthOf(c, s) == auth[DsOf[c]][s]
HashOf(x) == IF x = None THEN None ELSE x.hash

\* What connection c sees in its target database.
View(c, s) == IF tx[c][s] # None THEN tx[c][s] ELSE db[DsOf[c]][s]

-----------------------------------------------------------------------------
NoSchemas == [s \in Schema |-> None]

Init ==
  /\ conns = {} /\ issuing = {} /\ recoveries = 0
  /\ held = [c \in Conn |-> NoSchemas] /\ pending = [c \in Conn |-> NoSchemas]
  /\ ddl = [c \in Conn |-> {}]
  /\ auth = [d \in Datasource |-> NoSchemas] /\ pool = [k \in {} |-> 0]
  /\ now = 0
  /\ db = [d \in Datasource |-> [s \in Schema |-> 0]]
  /\ tx = [c \in Conn |-> NoSchemas] /\ push = [c \in Conn |-> None]
  /\ client = [c \in Conn |-> "closed"]
  /\ owed = [c \in Conn |-> {}] /\ unreported = [c \in Conn |-> {}]
  /\ evidence = [d \in Datasource |-> [s \in Schema |-> [h \in Hash |-> None]]]
  /\ ddls = 0

-----------------------------------------------------------------------------
(* Opening and closing.                                                    *)

PendingOf(expected, at) == [expected |-> expected, at |-> at, stmt |-> FALSE, commit |-> FALSE]

\* The schemas a new connection takes over from what the datasource is known to hold.
Adopted(c) == {s \in Schema : Adopts /\ AuthOf(c, s) # None /\ AuthKey(DsOf[c], s) \in DOMAIN pool}

\* Faulty variant: adopted structures get no reference.
AdoptedKeysNone(c) == {}

AdoptedKeys(c) == {AuthKey(DsOf[c], s) : s \in Adopted(c)}

\* Faulty variant: adoption counts as an inspection.
AdoptNow(a) == [hash |-> a.hash, verified |-> now, reval |-> None]

\* An adopted structure keeps the time of its inspection.
Adopt(a) == [hash |-> a.hash, verified |-> a.inspected, reval |-> None]

\* issueInitial: every schema is adopted or has to be fetched.
IssueInitial(c) ==
  /\ held' = [held EXCEPT ![c] = [s \in Schema |->
       IF s \in Adopted(c) THEN Adopt(AuthOf(c, s)) ELSE held[c][s]]]
  /\ pending' = [pending EXCEPT ![c] = [s \in Schema |->
       IF s \in Adopted(c) THEN pending[c][s] ELSE PendingOf(HashOf(AuthOf(c, s)), HashOf(AuthOf(c, s)))]]
  /\ pool' = [k \in DOMAIN pool |-> IF k \in AdoptedKeys(c) THEN pool[k] + 1 ELSE pool[k]]

\* No record of c, nor anything of an earlier one.
Unknown(c) == c \notin conns \cup issuing /\ held[c] = NoSchemas /\ pending[c] = NoSchemas

\* open: nobody else knows the new id before it returns.
Open(c) ==
  /\ client[c] = "closed" /\ Unknown(c)
  /\ client' = [client EXCEPT ![c] = "opening"]
  /\ conns' = conns \cup {c}
  /\ IssueInitial(c)
  /\ UNCHANGED <<issuing, ddl, auth, now, recoveries, dbVars, push, ghosts>>

\* The proxy has run the on-open commands, each of which must succeed, and serves the client.
Serve(c) ==
  /\ client[c] = "opening" /\ c \in conns /\ pending[c] = NoSchemas /\ push[c] = None
  /\ client' = [client EXCEPT ![c] = "serving"]
  /\ UNCHANGED <<conns, issuing, held, pending, ddl, auth, pool, now, recoveries, dbVars, push, ghosts>>

\* recover registers an id the proxy already uses, and then issues the initial commands.
RecoverPut(c) ==
  /\ "recover" \in Env /\ recoveries < MaxRecover /\ client[c] = "serving" /\ Unknown(c)
  /\ recoveries' = recoveries + 1
  /\ conns' = conns \cup {c} /\ issuing' = issuing \cup {c}
  /\ UNCHANGED <<held, pending, ddl, auth, pool, now, dbVars, client, push, ghosts>>

RecoverIssue(c) ==
  /\ c \in issuing
  /\ issuing' = issuing \ {c}
  /\ IssueInitial(c)
  /\ UNCHANGED <<conns, ddl, auth, now, recoveries, dbVars, client, push, ghosts>>

\* The record leaves the map and what it holds is given back.
Drop(c) ==
  /\ c \in conns
  /\ conns' = conns \ {c}
  /\ pool' = Release(pool, HeldKeys(c))
  /\ held' = [held EXCEPT ![c] = NoSchemas] /\ pending' = [pending EXCEPT ![c] = NoSchemas]
  /\ ddl' = [ddl EXCEPT ![c] = {}] /\ owed' = [owed EXCEPT ![c] = {}]
  /\ UNCHANGED <<issuing, auth, now, recoveries, db, ddls, unreported, evidence>>

\* The client's connection ends, and its transaction with it.
Ended(c) ==
  /\ client[c] # "closed"
  /\ client' = [client EXCEPT ![c] = "closed"]
  /\ tx' = [tx EXCEPT ![c] = NoSchemas] /\ push' = [push EXCEPT ![c] = None]

\* close, which the proxy calls at the end of the connection.
Close(c) == Ended(c) /\ Drop(c)

\* sweepIdle: the target connection lives on.
SweepIdle(c) ==
  /\ "recover" \in Env /\ recoveries < MaxRecover
  /\ Drop(c) /\ UNCHANGED <<tx, client, push>>

\* close finds no record: swept, or forgotten in a restart.
CloseUnknown(c) ==
  /\ Ended(c) /\ c \notin conns
  /\ UNCHANGED <<conns, issuing, held, pending, ddl, auth, pool, now, recoveries, db, ddls, ghosts>>

\* The control plane restarts and has forgotten everything.
Restart ==
  /\ "recover" \in Env /\ recoveries < MaxRecover /\ conns # {}
  /\ conns' = {} /\ issuing' = {}
  /\ held' = [c \in Conn |-> NoSchemas] /\ pending' = [c \in Conn |-> NoSchemas]
  /\ ddl' = [c \in Conn |-> {}] /\ owed' = [c \in Conn |-> {}]
  /\ auth' = [d \in Datasource |-> NoSchemas] /\ pool' = [k \in {} |-> 0]
  /\ UNCHANGED <<now, recoveries, dbVars, client, push, unreported, evidence>>

-----------------------------------------------------------------------------
(* Deciding.                                                               *)

\* Faulty variant: the authoritative structure is not consulted.
FreshAlone(c, s) ==
  /\ pending[c][s] = None /\ held[c][s] # None
  /\ now - held[c][s].verified <= Staleness

\* freshnessGate lets s through.
Fresh(c, s) ==
  LET h == held[c][s]
      a == AuthOf(c, s)
  IN /\ pending[c][s] = None
     /\ h # None
     /\ a # None => h.hash = a.hash \/ h.reval = a.hash
     /\ now - h.verified <= Staleness

\* markPending: an existing command keeps its token and only gains the mark.
Mark(c, S, stmt, commit, expected) ==
  pending' = [pending EXCEPT ![c] = [s \in Schema |->
    IF s \notin S THEN pending[c][s]
    ELSE LET p == IF pending[c][s] # None THEN pending[c][s]
                  ELSE PendingOf(expected[s], HashOf(AuthOf(c, s)))
         IN [p EXCEPT !.stmt = @ \/ stmt, !.commit = @ \/ commit]]]

HeldHash(c) == [s \in Schema |-> HashOf(held[c][s])]
Unconditional == NoSchemas
HeldOrAuth(c) == [s \in Schema |-> HashOf(IF held[c][s] # None THEN held[c][s] ELSE AuthOf(c, s))]

\* The proxy sends a statement only after the commands its last one left behind.
Idle(c) ==
  /\ c \in conns /\ client[c] = "serving" /\ push[c] = None
  /\ \A s \in Schema : pending[c][s] # None => ~pending[c][s].stmt /\ ~pending[c][s].commit

\* decideConnection, the gates: not all of the schemas S a statement names are fresh.
BeforeDecide(c, S) ==
  LET stale == {s \in S : ~Fresh(c, s)}
  IN /\ Idle(c) /\ stale # {}
     /\ Mark(c, stale, FALSE, FALSE, HeldOrAuth(c))
     /\ UNCHANGED <<conns, issuing, held, ddl, auth, pool, now, recoveries, dbVars, client, push, ghosts>>

Decides(c, S) == Idle(c) /\ \A s \in S : Fresh(c, s)

\* A name the held structure does not explain: the candidates not held and fresh are fetched.
CatalogMiss(c, M) ==
  /\ Decides(c, {}) /\ M # {} /\ \A s \in M : ~Fresh(c, s)
  /\ Mark(c, M, FALSE, FALSE, Unconditional)
  /\ UNCHANGED <<conns, issuing, held, ddl, auth, pool, now, recoveries, dbVars, client, push, ghosts>>

NewStructures(c, s) == IF "repeat" \in Env THEN Hash \ {View(c, s)} ELSE {ddls + 1}

\* DDL on s is decided (S is its search path) and executed.  Transactions that change one schema at
\* the same time are left out.
DecideDdl(c, S, s) ==
  /\ Decides(c, S) /\ ddls < MaxDdl
  /\ \A o \in Conn \ {c} : DsOf[o] = DsOf[c] => tx[o][s] = None
  /\ Mark(c, S \cup {s}, TRUE, FALSE, HeldHash(c))
  /\ \E h \in NewStructures(c, s) :
       IF TxDdl THEN tx' = [tx EXCEPT ![c][s] = h] /\ UNCHANGED db
                ELSE db' = [db EXCEPT ![DsOf[c]][s] = h] /\ UNCHANGED tx
  /\ ddls' = ddls + 1
  /\ unreported' = [unreported EXCEPT ![c] = @ \cup {s}]
  /\ UNCHANGED <<conns, issuing, held, ddl, auth, pool, now, recoveries, client, push, owed, evidence>>

\* Schemas c's transaction changes.
Changes(c) == {s \in Schema : View(c, s) # db[DsOf[c]][s]}

\* COMMIT is decided, with markAfterCommit, and executed.
DecideCommit(c) ==
  /\ Decides(c, {}) /\ tx[c] # NoSchemas
  /\ Mark(c, ddl[c], FALSE, TRUE, HeldHash(c))
  /\ ddl' = [ddl EXCEPT ![c] = {}]
  /\ owed' = [owed EXCEPT ![c] = @ \cup Changes(c)]
  /\ unreported' = [unreported EXCEPT ![c] = @ \cup Changes(c)]
  /\ db' = [db EXCEPT ![DsOf[c]] = [s \in Schema |-> View(c, s)]]
  /\ tx' = [tx EXCEPT ![c] = NoSchemas]
  /\ UNCHANGED <<conns, issuing, held, auth, pool, now, recoveries, ddls, client, push, evidence>>

\* ROLLBACK is decided, with clearDdlSinceLastCommit, and executed.
DecideRollback(c) ==
  /\ "rollback" \in Env /\ Decides(c, {}) /\ tx[c] # NoSchemas
  /\ ddl' = [ddl EXCEPT ![c] = {}]
  /\ tx' = [tx EXCEPT ![c] = NoSchemas]
  /\ UNCHANGED <<conns, issuing, held, pending, auth, pool, now, recoveries, db, ddls, client, push, ghosts>>

-----------------------------------------------------------------------------
(* The proxy's inspections and their pushes.                               *)

\* ProxyCommandRunner.Refetch: what connection c's inspection of s reports.
Report(c, s) == [schema |-> s, hash |-> View(c, s), unchanged |-> pending[c][s].expected = View(c, s)]

ApplyUnchanged(c, m) ==
  LET s == m.schema
      k == KeyOf(DsOf[c], s, m.hash)
      same == held[c][s] # None /\ HeldKey(c, s) = k
      kept == IF same THEN pool ELSE Retain(pool, k, 1)
  IN /\ held' = [held EXCEPT ![c][s] = [hash |-> m.hash, verified |-> now, reval |-> pending[c][s].at]]
     /\ pool' = IF same \/ held[c][s] = None THEN kept ELSE Release(kept, {HeldKey(c, s)})
     /\ UNCHANGED <<auth, ddl>>

\* Faulty variant: only the last schema changed is remembered.
DdlAfterLast(c, m) ==
  IF pending[c][m.schema].stmt /\ HeldHash(c)[m.schema] # m.hash THEN {m.schema} ELSE ddl[c]

\* statementChangedStructure
DdlAfter(c, m) ==
  IF pending[c][m.schema].stmt /\ HeldHash(c)[m.schema] # m.hash THEN ddl[c] \cup {m.schema} ELSE ddl[c]

ApplyFull(c, m) ==
  LET s == m.schema
      d == DsOf[c]
      k == KeyOf(d, s, m.hash)
      newHeld == held[c][s] = None \/ HeldKey(c, s) # k
      newAuth == auth[d][s] = None \/ AuthKey(d, s) # k
      p1 == Retain(pool, k, (IF newHeld THEN 1 ELSE 0) + (IF newAuth THEN 1 ELSE 0))
      p2 == IF newHeld /\ held[c][s] # None THEN Release(p1, {HeldKey(c, s)}) ELSE p1
  IN /\ held' = [held EXCEPT ![c][s] = [hash |-> m.hash, verified |-> now, reval |-> None]]
     /\ auth' = [auth EXCEPT ![d][s] = [hash |-> m.hash, inspected |-> now]]
     /\ pool' = IF newAuth /\ auth[d][s] # None THEN Release(p2, {AuthKey(d, s)}) ELSE p2
     /\ ddl' = [ddl EXCEPT ![c] = DdlAfter(c, m)]

\* An unchanged report needs the command's own hash, and its structure in the pool.
Rejected(c, m) ==
  \/ c \notin conns \/ pending[c][m.schema] = None
  \/ m.unchanged /\ (m.hash # pending[c][m.schema].expected \/ KeyOf(DsOf[c], m.schema, m.hash) \notin DOMAIN pool)

\* applyPush
ApplyPush(c, m) ==
  IF Rejected(c, m) THEN UNCHANGED <<held, pending, ddl, auth, pool, ghosts>>
  ELSE /\ IF m.unchanged THEN ApplyUnchanged(c, m) ELSE ApplyFull(c, m)
       /\ pending' = [pending EXCEPT ![c][m.schema] = None]
       /\ owed' = [owed EXCEPT ![c] = IF pending[c][m.schema].commit THEN @ \ {m.schema} ELSE @]
       /\ unreported' = [unreported EXCEPT ![c] = @ \ {m.schema}]
       /\ evidence' = [evidence EXCEPT ![DsOf[c]][m.schema][m.hash] = now]

\* Inspection and push with nothing in between.
Refetch(c, s) ==
  /\ "slow" \notin Env /\ c \in conns /\ pending[c][s] # None
  /\ ApplyPush(c, Report(c, s))
  /\ UNCHANGED <<conns, issuing, now, recoveries, dbVars, client, push>>

Inspect(c, s) ==
  /\ "slow" \in Env /\ c \in conns /\ pending[c][s] # None /\ push[c] = None
  /\ push' = [push EXCEPT ![c] = Report(c, s)]
  /\ UNCHANGED <<client, conns, issuing, held, pending, ddl, auth, pool, now, recoveries, dbVars, ghosts>>

PushSchemaFragment(c) ==
  /\ push[c] # None
  /\ ApplyPush(c, push[c])
  /\ push' = [push EXCEPT ![c] = None]
  /\ UNCHANGED <<client, conns, issuing, now, recoveries, dbVars>>

\* applyCatalogPush: the proxy's whole-catalog read confirms the authoritative structures it agrees
\* with and marks the others unverified.
CatalogPush(d, read) ==
  LET known == {s \in Schema : auth[d][s] # None}
      confirmed == {s \in known : AuthKey(d, s) \in DOMAIN pool /\ auth[d][s].hash = read[s]}
  IN /\ known # {}
     /\ auth' = [auth EXCEPT ![d] = [s \in Schema |->
          IF s \notin known THEN None
          ELSE [auth[d][s] EXCEPT !.inspected = IF s \in confirmed THEN now ELSE now - Staleness - 1]]]
     /\ evidence' = [evidence EXCEPT ![d] = [s \in Schema |->
          IF s \in confirmed THEN [evidence[d][s] EXCEPT ![read[s]] = now] ELSE evidence[d][s]]]
     /\ UNCHANGED <<conns, issuing, held, pending, ddl, pool, now, recoveries, dbVars, client, push, owed, unreported>>

\* A slow catalog read may show any structure the schemas have had.
CatalogReads(d) == IF "slow" \in Env THEN [Schema -> 0 .. ddls] ELSE {db[d]}

\* Faulty variant: the authoritative references are not given back.
AuthKeysNone(d) == {}

AuthKeys(d) == {AuthKey(d, s) : s \in {t \in Schema : auth[d][t] # None}}

\* invalidateDatasource, when a datasource is deleted.
InvalidateDatasource(d) ==
  /\ "delete" \in Env /\ auth[d] # NoSchemas
  /\ pool' = Release(pool, AuthKeys(d))
  /\ auth' = [auth EXCEPT ![d] = NoSchemas]
  /\ UNCHANGED <<conns, issuing, held, pending, ddl, now, recoveries, dbVars, client, push, ghosts>>

\* Somebody changes a schema without the proxy.
OutsideDdl(d, s) ==
  /\ "outside" \in Env /\ ddls < MaxDdl
  /\ db' = [db EXCEPT ![d][s] = ddls + 1]
  /\ ddls' = ddls + 1
  /\ UNCHANGED <<conns, issuing, held, pending, ddl, auth, pool, now, recoveries, tx, client, push, ghosts>>

Tick ==
  /\ now < MaxTime
  /\ now' = now + 1
  /\ UNCHANGED <<conns, issuing, held, pending, ddl, auth, pool, recoveries, dbVars, client, push, ghosts>>

-----------------------------------------------------------------------------
Next ==
  \/ \E c \in Conn :
       \/ Open(c) \/ Serve(c) \/ RecoverPut(c) \/ RecoverIssue(c)
       \/ Close(c) \/ SweepIdle(c) \/ CloseUnknown(c)
       \/ \E S \in SUBSET Schema : BeforeDecide(c, S) \/ CatalogMiss(c, S)
       \/ \E S \in SUBSET Schema, s \in Schema : DecideDdl(c, S, s)
       \/ DecideCommit(c) \/ DecideRollback(c)
       \/ \E s \in Schema : Refetch(c, s) \/ Inspect(c, s)
       \/ PushSchemaFragment(c)
  \/ \E d \in Datasource :
       \/ \E read \in CatalogReads(d) : CatalogPush(d, read)
       \/ InvalidateDatasource(d)
       \/ \E s \in Schema : OutsideDdl(d, s)
  \/ Restart
  \/ Tick

Spec == Init /\ [][Next]_vars

-----------------------------------------------------------------------------
(* Properties.                                                             *)

Time == 0 .. MaxTime

\* The registry's maps, the target database and the messages have their types; reference counts are
\* positive, as release's check demands.
TypeOK ==
  /\ conns \subseteq Conn /\ issuing \subseteq Conn
  /\ held \in [Conn -> [Schema -> Opt(HeldType)]] /\ pending \in [Conn -> [Schema -> Opt(PendingType)]]
  /\ ddl \in [Conn -> SUBSET Schema] /\ owed \in [Conn -> SUBSET Schema]
  /\ unreported \in [Conn -> SUBSET Schema]
  /\ auth \in [Datasource -> [Schema -> Opt(AuthType)]]
  /\ DOMAIN pool \subseteq Key /\ \A k \in DOMAIN pool : pool[k] \in Nat \ {0}
  /\ now \in Time /\ recoveries \in 0 .. MaxRecover /\ ddls \in 0 .. MaxDdl
  /\ db \in [Datasource -> [Schema -> Hash]] /\ tx \in [Conn -> [Schema -> Opt(Hash)]]
  /\ client \in [Conn -> {"closed", "opening", "serving"}]
  /\ push \in [Conn -> Opt(Message)]
  /\ evidence \in [Datasource -> [Schema -> [Hash -> Opt(Time)]]]

HeldAt(k) == {x \in Conn \X Schema : held[x[1]][x[2]] # None /\ HeldKey(x[1], x[2]) = k}
AuthAt(k) == {x \in Datasource \X Schema : auth[x[1]][x[2]] # None /\ AuthKey(x[1], x[2]) = k}

\* Whatever a connection holds or a datasource has as authoritative is in the pool, counted at least
\* once for each of them: no order of pushes, adoptions, closes and invalidations frees a structure
\* that structuralRows still needs (retain and release).
HeldIsPooled ==
  \A k \in Key : HeldAt(k) \cup AuthAt(k) # {} =>
    k \in DOMAIN pool /\ pool[k] >= Cardinality(HeldAt(k)) + Cardinality(AuthAt(k))

\* freshnessGate lets a statement through only on a structure that some inspection of this very
\* datasource showed within the staleness bound, adopted, shared and revalidated structures included.
DecidedOnEvidence ==
  \A c \in Conn, s \in Schema :
    Fresh(c, s) => LET seen == evidence[DsOf[c]][s][held[c][s].hash]
                   IN seen # None /\ now - seen <= Staleness

\* Every change of s made through the proxy has been reported: no client went away between the change
\* and the push that follows it.
Settled(d, s) == \A c \in Conn : DsOf[c] = d => s \notin unreported[c]

\* Once every change has been reported, a statement is decided against the structure its own target
\* connection has ("every connection decides against exactly what ITS OWN target DB binds").
CurrentWhenSettled ==
  \A c \in conns, s \in Schema :
    Fresh(c, s) /\ Settled(DsOf[c], s) => held[c][s].hash = View(c, s)

\* A COMMIT that changes a schema leaves an after-commit refetch of it behind, so that its push
\* refreshes the config catalog (markAfterCommit).
CommitRefreshes ==
  \A c \in conns : \A s \in owed[c] : pending[c][s] # None /\ pending[c][s].commit

=============================================================================
