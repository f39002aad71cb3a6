---------------------------- MODULE AuditMonitor ----------------------------
(***************************************************************************)
(* The audit monitor (auditmon): a daemon that re-verifies the hash chain  *)
(* of audit_event, exports verified rows off-box and signs anchors over    *)
(* the verified head, and the operator command that accepts a chain break. *)
(* Both run the same tail walk (monitor.go, verifyChain) against the same  *)
(* table and the same object store, each with its own memory.              *)
(*                                                                         *)
(* A step is one query of the database or one call of the object store,    *)
(* with the computation that follows it.  The control plane appends rows   *)
(* between any two of them, and the trail may be changed out of band.      *)
(***************************************************************************)
EXTENDS Naturals, Sequences, FiniteSets, FiniteSetsExt, Functions

CONSTANTS
  Content,      \* what an audit event says
  MaxRows,      \* bound: highest id the control plane assigns
  TailBatch,    \* cfg.TailBatch, rows per tail read
  Changes,      \* out-of-band changes of the table that may happen
  MaxChanges,   \* bound: how many of them
  OperatorRuns, \* TRUE: an operator may run accept-break
  MaxTrouble    \* bound: restarts, and failed database, object store and signer calls

ASSUME BatchPositive == TailBatch \in Nat \ {0}
ASSUME BoundsNat == {MaxRows, MaxChanges, MaxTrouble} \subseteq Nat
ASSUME ChangeKinds == Changes \subseteq {"edit", "delete", "restore"}
ASSUME OperatorBool == OperatorRuns \in BOOLEAN

VARIABLES
  rows,       \* audit_event: id -> content, prev_hash, row_hash
  chainHead,  \* audit_chain_head: last id and its hash
  genuine,    \* ghost: every hash the control plane ever appended
  anchors,    \* checkpoints/<id>.json: the signed head, by row id
  exported,   \* events/*: the rows shipped off-box
  accepted,   \* acceptances/*: divergences an operator waived
  halted,     \* Monitor.halted of the daemon
  booting,    \* the daemon is in the FullVerify that precedes its first Poll
  evidence,   \* what FullVerify read before it walks
  reviewed,   \* the finding the operator looked at
  pc,         \* of each process: its next step
  walk,       \* the locals of its tail walk: command, verified head, pinned target, page
  exp,        \* exportedThrough
  changes,    \* ghost: the out-of-band changes so far
  crashes, faults

dbVars    == <<rows, chainHead, genuine, changes>>
storeVars == <<anchors, exported, accepted>>
fullVars  == <<halted, booting, evidence, crashes>>
vars == <<dbVars, storeVars, fullVars, reviewed, pc, walk, exp, faults>>

Proc == {"daemon", "operator"}

-----------------------------------------------------------------------------
(* Hashes.  A hash is the sequence of (id, content) pairs it digests, so   *)
(* equal hashes mean equal histories.                                      *)

Genesis == <<>>
RowHash(id, c, prev) == Append(prev, <<id, c>>)
NoHash == << <<0, "nil">> >>

Ids == DOMAIN rows
MaxId == Max(Ids \cup {0})
Recomputed(i) == RowHash(i, rows[i].c, rows[i].prev)

Finding(id, why, expected, actual) ==
  [id |-> id, reason |-> why, expected |-> expected, actual |-> actual]
NoFinding == Finding(0, "none", NoHash, NoHash)

\* VerifyTail on one row, given the hash its predecessor leaves.
LinkFinding(i, head) ==
  IF rows[i].prev = head THEN NoFinding
  ELSE Finding(i, "prev_hash_mismatch", head, rows[i].prev)

ContentFinding(i) ==
  IF rows[i].hash = Recomputed(i) THEN NoFinding
  ELSE Finding(i, "row_hash_mismatch", rows[i].hash, Recomputed(i))

\* Faulty variant: the link is checked, the content is not.
RowFindingLinkOnly(i, head) == LinkFinding(i, head)

RowFinding(i, head) ==
  IF LinkFinding(i, head) # NoFinding THEN LinkFinding(i, head) ELSE ContentFinding(i)

\* TailEvents: the ids of the page after id.
TailIds(after) ==
  {i \in Ids : i > after /\ Cardinality({j \in Ids : after < j /\ j <= i}) <= TailBatch}

HashBefore(B, i, head) ==
  LET below == {j \in B : j < i}
  IN IF below = {} THEN head ELSE rows[Max(below)].hash

\* VerifyTail: the first finding of a page read after head.
VerifyTail(B, head) ==
  LET bad == {i \in B : RowFinding(i, HashBefore(B, i, head)) # NoFinding}
  IN IF bad = {} THEN NoFinding
     ELSE RowFinding(Min(bad), HashBefore(B, Min(bad), head))

-----------------------------------------------------------------------------
(* The from-genesis verification, over the anchors and acceptances it was  *)
(* given.                                                                  *)

\* Accepted.covers: every field of the divergence must match.
Waivers(acc, f) ==
  {a \in acc : /\ a.id = f.id /\ a.reason = f.reason
               /\ a.expected = f.expected /\ a.actual = f.actual}

\* The walk after row i: its running head, and the first finding nothing waives.
GenesisWalk(acc) ==
  LET w[i \in 0..MaxRows] ==
        IF i = 0 THEN [head |-> Genesis, f |-> NoFinding]
        ELSE LET before  == w[i - 1]
                 found   == RowFinding(i, before.head)
                 content == ContentFinding(i)
                 stop(f) == [head |-> before.head, f |-> f]
             IN IF i \notin Ids \/ before.f # NoFinding THEN before
                ELSE IF found = NoFinding THEN [head |-> rows[i].hash, f |-> NoFinding]
                ELSE IF Waivers(acc, found) = {} THEN stop(found)
                ELSE IF /\ found.reason = "prev_hash_mismatch"
                        /\ content # NoFinding /\ Waivers(acc, content) = {} THEN stop(content)
                ELSE [head |-> (CHOOSE a \in Waivers(acc, found) : TRUE).resume, f |-> NoFinding]
  IN w[MaxRows].f

\* The cross-check of the rows against the heads the anchors witnessed.
AnchorFinding(checks, acc) ==
  LET ids     == DOMAIN checks \ {0}
      at(i)   == Finding(i, "anchor_head_mismatch", checks[i], rows[i].hash)
      differs == {i \in ids \cap Ids : rows[i].hash # checks[i] /\ Waivers(acc, at(i)) = {}}
      gone    == ids \ Ids
      ends    == IF Ids = {} THEN Genesis ELSE rows[MaxId].hash
      missing == Finding(Min(gone), "anchor_row_missing", checks[Min(gone)], ends)
  IN IF differs # {} THEN at(Min(differs))
     ELSE IF gone # {} /\ Waivers(acc, missing) = {} THEN missing
     ELSE NoFinding

\* checks: the anchors that validated; all: every checkpoint object.
Verdict(checks, all, acc) ==
  IF DOMAIN checks = {} /\ all # {}
    THEN Finding(Max(all), "anchor_signature_invalid", NoHash, NoHash)
  ELSE IF GenesisWalk(acc) # NoFinding THEN GenesisWalk(acc)
  ELSE AnchorFinding(checks, acc)

Signed == DOMAIN anchors
HeadsOf(S) == [i \in S |-> anchors[i]]

\* A pass verifies the anchors V and the acceptances A: all there are, or fewer when
\* the signer fails on some.
Verifies(V, A) ==
  /\ V \subseteq Signed /\ A \subseteq accepted
  /\ IF V = Signed /\ A = accepted THEN UNCHANGED faults
                                   ELSE crashes + faults < MaxTrouble /\ faults' = faults + 1
Fault == crashes + faults < MaxTrouble /\ faults' = faults + 1

-----------------------------------------------------------------------------
NoWalk == [cmd |-> "none", id |-> 0, hash |-> Genesis, present |-> FALSE, target |-> 0, batch |-> {}]
NoEvidence == [checks |-> <<>>, all |-> {}, acc |-> {}, complete |-> FALSE]

Init ==
  /\ rows = <<>> /\ chainHead = [id |-> 0, hash |-> Genesis] /\ genuine = {Genesis}
  /\ anchors = <<>> /\ exported = {} /\ accepted = {}
  /\ halted = FALSE /\ booting = TRUE /\ evidence = NoEvidence
  /\ reviewed = NoFinding
  /\ pc = [p \in Proc |-> IF p = "daemon" THEN "witness" ELSE "idle"]
  /\ walk = [p \in Proc |-> NoWalk]
  /\ exp = [p \in Proc |-> 0]
  /\ changes = <<>> /\ crashes = 0 /\ faults = 0

-----------------------------------------------------------------------------
(* The table.                                                              *)

\* AuditStore.insert, one committed transaction under the audit_chain_head row lock.
AppendEvent(c) ==
  LET id   == chainHead.id + 1
      hash == RowHash(id, c, chainHead.hash)
  IN /\ id <= MaxRows
     /\ rows' = [i \in Ids \cup {id} |->
                   IF i = id THEN [c |-> c, prev |-> chainHead.hash, hash |-> hash] ELSE rows[i]]
     /\ chainHead' = [id |-> id, hash |-> hash]
     /\ genuine' = genuine \cup {hash}
     /\ UNCHANGED <<changes, storeVars, fullVars, reviewed, pc, walk, exp, faults>>

Changed(kind) ==
  /\ kind \in Changes /\ Len(changes) < MaxChanges
  /\ changes' = Append(changes, kind)
  /\ UNCHANGED <<genuine, storeVars, fullVars, reviewed, pc, walk, exp, faults>>

\* A row's content is edited in place; its hashes stay.
EditRow(i, c) ==
  /\ c # rows[i].c
  /\ rows' = [rows EXCEPT ![i].c = c]
  /\ Changed("edit") /\ UNCHANGED chainHead

\* A row is deleted; the head row stays.
DeleteRow(i) ==
  /\ rows' = [j \in Ids \ {i} |-> rows[j]]
  /\ Changed("delete") /\ UNCHANGED chainHead

\* The database is restored from a backup that ends at row k.
RestoreBackup(k) ==
  /\ k < MaxId /\ 1..k \subseteq Ids
  /\ rows' = [j \in 1..k |-> rows[j]]
  /\ chainHead' = [id |-> k, hash |-> IF k = 0 THEN Genesis ELSE rows[k].hash]
  /\ Changed("restore")

-----------------------------------------------------------------------------
(* Poll, SignHead and ResumeCoverage: the shared tail walk.                *)

\* p goes to label with the locals w; its locals end with the call.
Goto(p, label, w) ==
  /\ pc' = [pc EXCEPT ![p] = label]
  /\ walk' = [walk EXCEPT ![p] = IF label = "idle" THEN NoWalk ELSE w]

\* Where a walk goes once its page is dealt with: on, to the final anchor, or back to its caller.
\* A short page below the target means that rows vanished, which is a finding.
AfterPage(w) ==
  IF w.id >= w.target
    THEN IF w.cmd = "poll" /\ w.present THEN "idle" ELSE "getFinal"
  ELSE IF Cardinality(w.batch) < TailBatch THEN "idle" ELSE "page"

\* Faulty variant: no first run from genesis.
SelectBaselineAnchored(p) ==
  /\ pc[p] = "baseline"
  /\ IF Signed = {} THEN Goto(p, "idle", NoWalk)
     ELSE Goto(p, "pin", [walk[p] EXCEPT !.id = Max(Signed), !.hash = anchors[Max(Signed)],
                                        !.present = TRUE])
  /\ UNCHANGED <<dbVars, storeVars, fullVars, reviewed, exp, faults>>

\* selectBaseline: the highest anchor that validates; none valid among some is a finding.
SelectBaseline(p) ==
  /\ pc[p] = "baseline"
  /\ \E V \in SUBSET Signed : Verifies(V, accepted) /\
       IF V # {}
         THEN Goto(p, "pin", [walk[p] EXCEPT !.id = Max(V), !.hash = anchors[Max(V)],
                                             !.present = TRUE])
       ELSE Goto(p, IF Signed = {} THEN "pin" ELSE "idle", walk[p])
  /\ UNCHANGED <<dbVars, storeVars, fullVars, reviewed, exp>>

\* MaxEventID
PinTarget(p) ==
  /\ pc[p] = "pin"
  /\ Goto(p, "page", [walk[p] EXCEPT !.target = MaxId])
  /\ UNCHANGED <<dbVars, storeVars, fullVars, reviewed, exp, faults>>

\* TailEvents and VerifyTail: a finding ends the walk with nothing of the page exported.
ReadPage(p) ==
  LET B    == TailIds(walk[p].id)
      page == {[id |-> i, c |-> rows[i].c, hash |-> rows[i].hash] : i \in B}
      w    == IF B = {} THEN [walk[p] EXCEPT !.batch = {}]
              ELSE [walk[p] EXCEPT !.batch = page, !.id = Max(B), !.hash = rows[Max(B)].hash]
  IN /\ pc[p] = "page"
     /\ Goto(p, IF VerifyTail(B, walk[p].hash) # NoFinding THEN "idle"
                ELSE IF B = {} THEN AfterPage(w) ELSE "export", w)
     /\ UNCHANGED <<dbVars, storeVars, fullVars, reviewed, exp, faults>>

\* Faulty variants: an off-by-one in eventsAfter; the watermark one past the last row shipped.
ExportBatchSkips(p) ==
  LET fresh == {e \in walk[p].batch : e.id > exp[p] + 1} IN
  /\ pc[p] = "export"
  /\ exported' = exported \cup fresh
  /\ exp' = [exp EXCEPT ![p] = IF fresh = {} THEN @ ELSE Max({e.id : e \in fresh})]
  /\ Goto(p, IF Cardinality(walk[p].batch) = TailBatch THEN "getCheckpoint" ELSE AfterPage(walk[p]),
          walk[p])
  /\ UNCHANGED <<dbVars, anchors, accepted, fullVars, reviewed, faults>>
\* processFreshMode: ship the rows of the page past exportedThrough.
ExportBatch(p) ==
  LET fresh == {e \in walk[p].batch : e.id > exp[p]} IN
  /\ pc[p] = "export"
  /\ exported' = exported \cup fresh
  /\ exp' = [exp EXCEPT ![p] = IF fresh = {} THEN @ ELSE Max({e.id : e \in fresh})]
  /\ Goto(p, IF Cardinality(walk[p].batch) = TailBatch THEN "getCheckpoint" ELSE AfterPage(walk[p]),
          walk[p])
  /\ UNCHANGED <<dbVars, anchors, accepted, fullVars, reviewed, faults>>

\* Faulty variant: WriteAnchor does not compare with what is there.
GetAnchorBlind(p) ==
  /\ \/ pc[p] = "getCheckpoint" /\ Goto(p, "putCheckpoint", walk[p])
     \/ pc[p] = "getFinal" /\ Goto(p, "putFinal", walk[p])
  /\ UNCHANGED <<dbVars, storeVars, fullVars, reviewed, exp, faults>>

\* WriteAnchor reads the key first and refuses to replace a different head ...
GetAnchor(p) ==
  LET conflict == walk[p].id \in Signed /\ anchors[walk[p].id] # walk[p].hash IN
  /\ \/ /\ pc[p] = "getCheckpoint"
        /\ Goto(p, IF conflict THEN AfterPage(walk[p]) ELSE "putCheckpoint", walk[p])
     \/ /\ pc[p] = "getFinal"
        /\ Goto(p, IF conflict THEN "idle" ELSE "putFinal", walk[p])
  /\ UNCHANGED <<dbVars, storeVars, fullVars, reviewed, exp, faults>>

\* ... then writes it: a checkpoint of the catch-up, or the walk's final anchor.
PutAnchor(p) ==
  /\ \/ pc[p] = "putCheckpoint" /\ Goto(p, AfterPage(walk[p]), walk[p])
     \/ pc[p] = "putFinal" /\ Goto(p, "idle", walk[p])
  /\ anchors' = [i \in Signed \cup {walk[p].id} |->
                   IF i = walk[p].id THEN walk[p].hash ELSE anchors[i]]
  /\ UNCHANGED <<dbVars, exported, accepted, fullVars, reviewed, exp, faults>>

\* A failed call ends the walk; a failed checkpoint is only logged.
WalkError(p) ==
  /\ Fault
  /\ \/ /\ pc[p] \in {"baseline", "pin", "page", "export", "getFinal", "putFinal"}
        /\ Goto(p, "idle", walk[p])
     \/ /\ pc[p] \in {"getCheckpoint", "putCheckpoint"}
        /\ Goto(p, AfterPage(walk[p]), walk[p])
  /\ UNCHANGED <<dbVars, storeVars, fullVars, reviewed, exp>>

-----------------------------------------------------------------------------
(* The daemon's loop: Run.                                                 *)

Daemon == "daemon"
StartWalk(p, cmd) == Goto(p, "baseline", [NoWalk EXCEPT !.cmd = cmd])

\* The poll and sign tickers; both return at once while halted.
Tick(cmd) ==
  /\ pc[Daemon] = "idle" /\ ~halted
  /\ StartWalk(Daemon, cmd)
  /\ UNCHANGED <<dbVars, storeVars, fullVars, reviewed, exp, faults>>

FullTick ==
  /\ pc[Daemon] = "idle"
  /\ Goto(Daemon, "witness", NoWalk)
  /\ UNCHANGED <<dbVars, storeVars, fullVars, reviewed, exp, faults>>

\* FullVerify reads its witnesses: what could not be verified makes the evidence incomplete.
ReadWitnesses ==
  /\ pc[Daemon] = "witness"
  /\ \E V \in SUBSET Signed, A \in SUBSET accepted : Verifies(V, A) /\
       evidence' = [checks |-> HeadsOf(V), all |-> Signed, acc |-> A,
                    complete |-> V = Signed /\ A = accepted]
  /\ Goto(Daemon, "full", NoWalk)
  /\ UNCHANGED <<dbVars, storeVars, halted, booting, crashes, reviewed, exp>>

\* After the boot-time full verification comes the first Poll.
LeaveFull(h) ==
  /\ booting' = FALSE /\ evidence' = NoEvidence
  /\ IF booting /\ ~h THEN StartWalk(Daemon, "poll") ELSE Goto(Daemon, "idle", NoWalk)

\* Faulty variants: a clean pass resumes whatever it saw; a finding does not latch; a halt is final.
FullVerifyHalting(h) ==
  /\ pc[Daemon] = "full"
  /\ halted' = h
  /\ LeaveFull(h)
  /\ UNCHANGED <<dbVars, storeVars, crashes, reviewed, exp, faults>>
FullVerifyPartial == FullVerifyHalting(Verdict(evidence.checks, evidence.all, evidence.acc) # NoFinding)
FullVerifyNoLatch == FullVerifyHalting(FALSE)
FullVerifyFinal ==
  FullVerifyHalting(halted \/ Verdict(evidence.checks, evidence.all, evidence.acc) # NoFinding)

\* FullVerify walks and judges: a finding halts; a clean pass over complete evidence resumes.
FullVerify ==
  LET f == Verdict(evidence.checks, evidence.all, evidence.acc)
      h == IF f # NoFinding THEN TRUE ELSE halted /\ ~evidence.complete
  IN /\ pc[Daemon] = "full"
     /\ halted' = h
     /\ LeaveFull(h)
     /\ UNCHANGED <<dbVars, storeVars, crashes, reviewed, exp, faults>>

FullVerifyError ==
  /\ Fault /\ pc[Daemon] \in {"witness", "full"}
  /\ LeaveFull(halted)
  /\ UNCHANGED <<dbVars, storeVars, halted, crashes, reviewed, exp>>

\* The daemon restarts: the watermark and the halt are in memory only.
Crash ==
  /\ crashes + faults < MaxTrouble
  /\ crashes' = crashes + 1
  /\ halted' = FALSE /\ booting' = TRUE /\ evidence' = NoEvidence
  /\ exp' = [exp EXCEPT ![Daemon] = 0]
  /\ Goto(Daemon, "witness", NoWalk)
  /\ UNCHANGED <<dbVars, storeVars, reviewed, faults>>

-----------------------------------------------------------------------------
(* The operator's accept-break command, a process of its own.              *)

Op == "operator"

\* Diagnose: there is something to accept.
OpDiagnose ==
  /\ OperatorRuns /\ pc[Op] = "idle"
  /\ \E V \in SUBSET Signed, A \in SUBSET accepted : Verifies(V, A) /\
       reviewed' = Verdict(HeadsOf(V), Signed, A)
  /\ reviewed' # NoFinding
  /\ Goto(Op, "diagnosed", NoWalk)
  /\ exp' = [exp EXCEPT ![Op] = 0]
  /\ UNCHANGED <<dbVars, storeVars, fullVars>>

\* AcceptBreak re-derives the finding; a different one is refused.
OpRecheck ==
  /\ pc[Op] = "diagnosed"
  /\ \E V \in SUBSET Signed, A \in SUBSET accepted : Verifies(V, A) /\
       Goto(Op, IF Verdict(HeadsOf(V), Signed, A) = reviewed THEN "rechecked" ELSE "idle", NoWalk)
  /\ UNCHANGED <<dbVars, storeVars, fullVars, reviewed, exp>>

\* resumeHashAt, then the signed acceptance is stored and ResumeCoverage begins.
OpAccept ==
  LET i == reviewed.id IN
  /\ pc[Op] = "rechecked"
  /\ accepted' = accepted \cup
       {[id |-> i, reason |-> reviewed.reason, expected |-> reviewed.expected,
         actual |-> reviewed.actual, resume |-> IF i \in Ids THEN rows[i].hash ELSE NoHash]}
  /\ reviewed' = NoFinding
  /\ StartWalk(Op, "resume")
  /\ UNCHANGED <<dbVars, anchors, exported, fullVars, exp, faults>>

OpError ==
  /\ Fault /\ pc[Op] \in {"diagnosed", "rechecked"}
  /\ Goto(Op, "idle", NoWalk)
  /\ UNCHANGED <<dbVars, storeVars, fullVars, reviewed, exp>>

-----------------------------------------------------------------------------
Walk(p) ==
  \/ SelectBaseline(p) \/ PinTarget(p) \/ ReadPage(p) \/ ExportBatch(p)
  \/ GetAnchor(p) \/ PutAnchor(p)

Table ==
  \/ \E c \in Content : AppendEvent(c)
  \/ \E i \in Ids : DeleteRow(i) \/ \E c \in Content : EditRow(i, c)
  \/ \E k \in 0..MaxRows : RestoreBackup(k)

Next ==
  \/ Table
  \/ \E p \in Proc : Walk(p) \/ WalkError(p)
  \/ Tick("poll") \/ Tick("sign") \/ FullTick \/ ReadWitnesses \/ FullVerify \/ FullVerifyError
  \/ Crash
  \/ OpDiagnose \/ OpRecheck \/ OpAccept \/ OpError

Spec == Init /\ [][Next]_vars

\* A started walk or command goes on; every ticker of Run's select is served again and again.
FairSpec ==
  /\ Spec
  /\ \A p \in Proc : WF_vars(Walk(p))
  /\ WF_vars(ReadWitnesses) /\ WF_vars(FullVerify)
  /\ WF_vars(OpRecheck) /\ WF_vars(OpAccept)
  /\ SF_vars(Tick("poll")) /\ SF_vars(Tick("sign")) /\ SF_vars(FullTick)

-----------------------------------------------------------------------------
(* Properties.                                                             *)

\* Every variable keeps its type.
TypeOK ==
  /\ Ids \subseteq 1..MaxRows /\ chainHead.id \in 0..MaxRows
  /\ \A i \in Ids : rows[i].c \in Content
  /\ Signed \subseteq Nat
  /\ halted \in BOOLEAN /\ booting \in BOOLEAN
  /\ exp \in [Proc -> 0..MaxRows]
  /\ \A p \in Proc : walk[p].id \in Nat /\ walk[p].target \in 0..MaxRows

\* An event is exported before an anchor covers it, in the very version that the anchor
\* witnesses, whichever of the two processes signs and however often the daemon restarts.
AnchoredRowsExported ==
  \A a \in Signed : LET head == anchors[a] IN
    /\ Len(head) = a
    /\ \A i \in 1..a : \E e \in exported : e.id = i /\ e.hash = SubSeq(head, 1, i)

\* So it is as long as no backup is restored under a running daemon.
ExportPrecedesAnchor == "restore" \in Range(changes) \/ AnchoredRowsExported

\* The monitor signs only heads that the control plane wrote, and ships rows only with the
\* content the control plane gave them, although rows change between its reads.
WitnessIsGenuine ==
  /\ \A a \in Signed : anchors[a] \in genuine
  /\ \A e \in exported : e.hash \in genuine /\ e.hash[Len(e.hash)] = <<e.id, e.c>>

\* What the trail must satisfy, row by row and anchor by anchor, to count as accounted for by the
\* acceptances: stated without the walk.
Waived(id, why, actual) == \E a \in accepted : a.id = id /\ a.reason = why /\ a.actual = actual
TrailAccounted(checks) ==
  /\ \A i \in Ids :
       /\ rows[i].hash = Recomputed(i) \/ Waived(i, "row_hash_mismatch", Recomputed(i))
       /\ rows[i].prev = HashBefore(Ids, i, Genesis) \/ Waived(i, "prev_hash_mismatch", rows[i].prev)
  /\ \A a \in DOMAIN checks \ {0} :
       IF a \in Ids
         THEN rows[a].hash = checks[a] \/ Waived(a, "anchor_head_mismatch", rows[a].hash)
         ELSE \E b \in 1..a : Waived(b, "anchor_row_missing", HashBefore(Ids, MaxRows + 1, Genesis))

\* A halt ends only with a restart, or with a pass over every anchor there was that left no divergence
\* that the operator has not accepted byte for byte.
HaltClearsWhenAccounted ==
  [][(halted /\ ~halted' /\ crashes' = crashes) =>
       TrailAccounted(HeadsOf(evidence.all))]_vars

\* WriteAnchor refuses a different head at a signed id, whatever happens to the table and wherever
\* the daemon restarts, as long as no accept-break has started to write beside it.
AnchorsAreKept ==
  [][accepted = {} => \A a \in Signed : a \in Signed' /\ anchors'[a] = anchors[a]]_vars

\* The trail holds a divergence that no acceptance covers.
Unaccepted == Verdict(HeadsOf(Signed), Signed, accepted) # NoFinding

\* Every committed row is eventually exported and covered by an anchor, through failed calls and
\* restarts.
CoverageReached ==
  \A i \in 1..MaxRows :
    i \in Ids ~> \/ changes # <<>>
                 \/ \E a \in Signed : a >= i /\ \E e \in exported : e.id = i

\* A divergence halts the daemon unless it is undone or accepted first.
BreakHalts == Unaccepted ~> (halted \/ ~Unaccepted)

\* The daemon resumes by itself once nothing unaccepted remains, also when the acceptance was
\* written by another process.
HaltEnds == ~Unaccepted ~> (~halted \/ Unaccepted)

\* What accept-break promises: with the break accepted, every row reaches the export again.
AcceptanceRestoresCoverage ==
  \A i \in 1..MaxRows :
    (i \in Ids /\ accepted # {} /\ ~Unaccepted) ~> (Unaccepted \/ \E e \in exported : e.id = i)

=============================================================================
