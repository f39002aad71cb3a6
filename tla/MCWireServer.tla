---------------------------- MODULE MCWireServer ----------------------------
(* WireServer for TLC, with two capacities of connSlots side by side: one   *)
(* that two clients fill, and one under which both are handled at once.     *)
EXTENDS WireServer

VARIABLE capacity   \* chosen once

Narrow == INSTANCE WireServer WITH MaxConnections <- 1

pairVars == <<vars, capacity>>

PairInit == Init /\ capacity \in {1, MaxConnections}

PairNext ==
  /\ \/ capacity = 1 /\ Narrow!Next
     \/ capacity = MaxConnections /\ Next
  /\ UNCHANGED capacity

PairAcceptProgress ==
  /\ \/ capacity = 1 /\ Narrow!AcceptLoopProgress
     \/ capacity = MaxConnections /\ AcceptLoopProgress
  /\ UNCHANGED capacity

\* The fairness of FairSpec.  The drainer and the handlers do not look at the capacity.
PairFairSpec ==
  /\ PairInit /\ [][PairNext]_pairVars
  /\ WF_pairVars(PairAcceptProgress)
  /\ WF_pairVars(Drainer /\ UNCHANGED capacity)
  /\ \A c \in Conn : WF_pairVars(HandlerProgress(c) /\ UNCHANGED capacity)

=============================================================================
