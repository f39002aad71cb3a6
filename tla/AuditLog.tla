------------------------------ MODULE AuditLog ------------------------------
(***************************************************************************)
(* What the audit trail promises its readers: events issued inside a       *)
(* transaction appear together, in order and after everything already      *)
(* there, at the moment the transaction commits; a transaction that rolls  *)
(* back leaves nothing.                                                    *)
(***************************************************************************)
EXTENDS Naturals, Sequences

CONSTANTS
  Writer,  \* database sessions that write audit events
  Event    \* what an audit event says

VARIABLES
  log,     \* the committed trail
  open,    \* the writers that are inside a transaction
  issued   \* of each writer: the events its transaction has issued

vars == <<log, open, issued>>

Init == log = <<>> /\ open = {} /\ issued = [w \in Writer |-> <<>>]

Begin(w) ==
  /\ w \notin open
  /\ open' = open \cup {w}
  /\ UNCHANGED <<log, issued>>

Issue(w, e) ==
  /\ w \in open
  /\ issued' = [issued EXCEPT ![w] = Append(@, e)]
  /\ UNCHANGED <<log, open>>

Commit(w) ==
  /\ w \in open
  /\ open' = open \ {w}
  /\ log' = log \o issued[w]
  /\ issued' = [issued EXCEPT ![w] = <<>>]

Rollback(w) ==
  /\ w \in open
  /\ open' = open \ {w}
  /\ issued' = [issued EXCEPT ![w] = <<>>]
  /\ UNCHANGED log

Next ==
  \E w \in Writer : Begin(w) \/ (\E e \in Event : Issue(w, e)) \/ Commit(w) \/ Rollback(w)

Spec == Init /\ [][Next]_vars
=============================================================================
