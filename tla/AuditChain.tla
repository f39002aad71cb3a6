----------------------------- MODULE AuditChain -----------------------------
(***************************************************************************)
(* The hash-chained audit_event table and its writers: AuditStore.insert   *)
(* (Kotlin) and audit.Insert (Go) link every event to the audit_chain_head *)
(* row, which they lock until their transaction ends.  A transaction may   *)
(* insert several events (insertAll, or a change that records more than    *)
(* one), and may fail at any statement.  auditmon's tail reader pages      *)
(* through the committed rows by id.                                       *)
(*                                                                         *)
(* A step is one SQL statement under READ COMMITTED: a statement sees the  *)
(* committed rows and its own transaction's writes.                        *)
(***************************************************************************)
EXTENDS Integers, Sequences

CONSTANTS
  Writer,           \* sessions of the control planes
  Event,            \* what an audit event says
  None,             \* no writer
  Digest,           \* hashes
  Genesis,          \* the hash before the first row
  RowHash(_, _, _), \* AuditCanonical.rowHash and canon.RowHash: id, event, prev_hash
  MaxId             \* the largest id: Math.addExact fails beyond it

ASSUME NoneIsNoWriter == None \notin Writer
ASSUME MaxIdNat == MaxId \in Nat
ASSUME DigestClosed ==
  /\ Genesis \in Digest
  /\ \A i \in 1..MaxId, e \in Event, h \in Digest : RowHash(i, e, h) \in Digest

VARIABLES
  rows,     \* audit_event, committed: by id (its primary key)
  head,     \* audit_chain_head, committed: last_id and head_hash
  lock,     \* the session that holds the row lock of audit_chain_head
  pc,       \* of each session: "idle", "open", "read" (has the head), "inserted"
  event,    \* the event it is inserting
  txHead,   \* the head as its transaction sees it since it took the lock
  pending,  \* the rows its transaction has inserted, by id
  cursor,   \* the tail reader: the last id it has read
  delivered \* the rows it was given, by id

vars == <<rows, head, lock, pc, event, txHead, pending, cursor, delivered>>
readVars == <<cursor, delivered>>

Row  == [event : Event, prev : Digest, hash : Digest]
ChainHead == [id : 0..MaxId, hash : Digest]
Empty == [i \in {} |-> Genesis]

Init ==
  /\ rows = Empty /\ head = [id |-> 0, hash |-> Genesis] /\ lock = None
  /\ pc = [w \in Writer |-> "idle"]
  /\ event \in [Writer -> Event]
  /\ txHead = [w \in Writer |-> head]
  /\ pending = [w \in Writer |-> Empty]
  /\ cursor = 0 /\ delivered = Empty

-----------------------------------------------------------------------------
Begin(w) ==
  /\ pc[w] = "idle"
  /\ pc' = [pc EXCEPT ![w] = "open"]
  /\ UNCHANGED <<rows, head, lock, event, txHead, pending, readVars>>

\* CHAIN_HEAD_LOCK_SQL, SELECT ... FOR UPDATE: waits for the lock, then reads the head.
LockHead(w, e) ==
  /\ pc[w] = "open" /\ lock \in {None, w}
  /\ lock' = w
  /\ txHead' = IF lock = w THEN txHead ELSE [txHead EXCEPT ![w] = head]
  /\ event' = [event EXCEPT ![w] = e]
  /\ pc' = [pc EXCEPT ![w] = "read"]
  /\ UNCHANGED <<rows, head, pending, readVars>>

NewId(w) == txHead[w].id + 1
NewRow(w) ==
  [event |-> event[w], prev |-> txHead[w].hash, hash |-> RowHash(NewId(w), event[w], txHead[w].hash)]

\* INSERT_SQL, under the primary key: the next id, the head it is linked to and its own hash.
InsertRow(w) ==
  /\ pc[w] = "read" /\ NewId(w) <= MaxId
  /\ NewId(w) \notin DOMAIN rows /\ \A v \in Writer : NewId(w) \notin DOMAIN pending[v]
  /\ pending' = [pending EXCEPT ![w] =
       [i \in DOMAIN pending[w] \cup {NewId(w)} |-> IF i = NewId(w) THEN NewRow(w) ELSE pending[w][i]]]
  /\ pc' = [pc EXCEPT ![w] = "inserted"]
  /\ UNCHANGED <<rows, head, lock, event, txHead, readVars>>

\* Faulty variants: every insert commits by itself; the head's hash is not advanced with its id.
AdvanceHeadAutocommit(w) ==
  /\ pc[w] = "inserted"
  /\ rows' = [i \in DOMAIN rows \cup DOMAIN pending[w] |->
                IF i \in DOMAIN pending[w] THEN pending[w][i] ELSE rows[i]]
  /\ head' = [id |-> NewId(w), hash |-> NewRow(w).hash]
  /\ lock' = None
  /\ pending' = [pending EXCEPT ![w] = Empty]
  /\ pc' = [pc EXCEPT ![w] = "open"]
  /\ UNCHANGED <<event, txHead, readVars>>
AdvanceHeadIdOnly(w) ==
  /\ pc[w] = "inserted"
  /\ txHead' = [txHead EXCEPT ![w].id = NewId(w)]
  /\ pc' = [pc EXCEPT ![w] = "open"]
  /\ UNCHANGED <<rows, head, lock, event, pending, readVars>>

\* CHAIN_HEAD_UPDATE_SQL
AdvanceHead(w) ==
  /\ pc[w] = "inserted"
  /\ txHead' = [txHead EXCEPT ![w] = [id |-> NewId(w), hash |-> NewRow(w).hash]]
  /\ pc' = [pc EXCEPT ![w] = "open"]
  /\ UNCHANGED <<rows, head, lock, event, pending, readVars>>

\* COMMIT publishes the rows and the head together and releases the lock.
Commit(w) ==
  /\ pc[w] = "open"
  /\ rows' = [i \in DOMAIN rows \cup DOMAIN pending[w] |->
                IF i \in DOMAIN pending[w] THEN pending[w][i] ELSE rows[i]]
  /\ head' = IF lock = w THEN txHead[w] ELSE head
  /\ lock' = IF lock = w THEN None ELSE lock
  /\ pending' = [pending EXCEPT ![w] = Empty]
  /\ pc' = [pc EXCEPT ![w] = "idle"]
  /\ UNCHANGED <<event, txHead, readVars>>

\* A failed statement, a failed change around it, or a lost session: everything is undone.
Rollback(w) ==
  /\ pc[w] # "idle"
  /\ lock' = IF lock = w THEN None ELSE lock
  /\ pending' = [pending EXCEPT ![w] = Empty]
  /\ pc' = [pc EXCEPT ![w] = "idle"]
  /\ UNCHANGED <<rows, head, event, txHead, readVars>>

\* Faulty variant: the next page starts after the chain head instead of after the last row read.
TailEventsToHead(last) ==
  /\ last \in DOMAIN rows /\ last > cursor
  /\ delivered' = [i \in DOMAIN delivered \cup {j \in DOMAIN rows : cursor < j /\ j <= last} |->
                     IF i \in DOMAIN delivered THEN delivered[i] ELSE rows[i]]
  /\ cursor' = head.id
  /\ UNCHANGED <<rows, head, lock, pc, event, txHead, pending>>

\* TailEvents: a page of the committed rows after the cursor, in id order, of whatever size.
TailEvents(last) ==
  /\ last \in DOMAIN rows /\ last > cursor
  /\ delivered' = [i \in DOMAIN delivered \cup {j \in DOMAIN rows : cursor < j /\ j <= last} |->
                     IF i \in DOMAIN delivered THEN delivered[i] ELSE rows[i]]
  /\ cursor' = last
  /\ UNCHANGED <<rows, head, lock, pc, event, txHead, pending>>

Session(w) ==
  \/ Begin(w) \/ InsertRow(w) \/ AdvanceHead(w) \/ Commit(w) \/ Rollback(w)
  \/ \E e \in Event : LockHead(w, e)

Next == (\E w \in Writer : Session(w)) \/ \E last \in 1..MaxId : TailEvents(last)

Spec == Init /\ [][Next]_vars

-----------------------------------------------------------------------------
(* Properties.                                                             *)

\* Every variable keeps its type.
TypeOK ==
  /\ DOMAIN rows \subseteq 1..MaxId /\ rows \in [DOMAIN rows -> Row]
  /\ head \in ChainHead /\ lock \in Writer \cup {None}
  /\ pc \in [Writer -> {"idle", "open", "read", "inserted"}]
  /\ event \in [Writer -> Event] /\ txHead \in [Writer -> ChainHead]
  /\ DOMAIN pending = Writer
  /\ \A w \in Writer : /\ DOMAIN pending[w] \subseteq 1..MaxId
                       /\ \A i \in DOMAIN pending[w] : pending[w][i] \in Row
  /\ cursor \in 0..MaxId

\* Rows lo..hi of the table f are linked from base on, as VerifyTail re-computes it.
Linked(f, lo, hi, base) ==
  \A i \in lo..hi :
    /\ f[i].prev = IF i = lo THEN base ELSE f[i - 1].hash
    /\ f[i].hash = RowHash(i, f[i].event, f[i].prev)
EndHash(f, lo, hi, base) == IF hi < lo THEN base ELSE f[hi].hash

\* The committed trail always verifies from genesis: the ids have no gap, every row links to the
\* one before it, and the head row names the last row and its hash, whatever transactions
\* interleave and fail.
ChainVerifies ==
  /\ DOMAIN rows = 1..head.id
  /\ Linked(rows, 1, head.id, Genesis)
  /\ head.hash = EndHash(rows, 1, head.id, Genesis)

\* A reader that pages by id is never overtaken: no row commits at or below an id it has read,
\* and no row it was given changes.
ReaderMissesNothing ==
  \A i \in DOMAIN rows : i <= cursor => i \in DOMAIN delivered /\ delivered[i] = rows[i]

\* The trail is an append-only log of whole transactions, in the order in which they commit.
Last(w) == IF pc[w] = "inserted" THEN NewId(w) ELSE txHead[w].id
Log == INSTANCE AuditLog WITH
  log    <- [i \in 1..head.id |-> rows[i].event],
  open   <- {w \in Writer : pc[w] # "idle"},
  issued <- [w \in Writer |->
               IF lock = w THEN [k \in 1..(Last(w) - head.id) |-> pending[w][head.id + k].event] ELSE <<>>]
AppendOnlyLog == Log!Spec
=============================================================================
