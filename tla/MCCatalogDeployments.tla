------------------------- MODULE MCCatalogDeployments -------------------------
(* ConnectionCatalog for TLC in three deployments side by side, chosen once: *)
(*   drifting       two datasources of one engine share the system schemas;  *)
(*                  structure changes behind the proxy's back, pushes are    *)
(*                  late, the control plane restarts (the constants of the   *)
(*                  configuration);                                          *)
(*   autocommit     two connections to one datasource whose DDL takes effect *)
(*                  at once, and nothing else changes the structure;         *)
(*   transactional  one connection, DDL on two schemas inside transactions   *)
(*                  that commit or roll back, and the datasource is deleted. *)
EXTENDS ConnectionCatalog, TLC

CONSTANTS c1, c2, c3, c4, d1, d2, d3

Bindings == [c \in Conn |-> CASE c = c1 -> d1 [] c = c2 -> d2 [] OTHER -> d3]

\* The drifting deployment's two datasources, each with its connection, are alike.
Twins == {f \in Permutations({c1, c2, d1, d2}) :
            \A c \in {c1, c2} : f[c] \in {c1, c2} /\ f[DsOf[c]] = DsOf[f[c]]}

Autocommit == INSTANCE ConnectionCatalog WITH
  TxDdl <- FALSE, Env <- {}, MaxTime <- 0, MaxDdl <- 2
Transactional == INSTANCE ConnectionCatalog WITH
  Adopts <- FALSE, TxDdl <- TRUE, Env <- {"rollback", "delete"}, MaxTime <- 0, MaxDdl <- 2,
  Schema <- {"app", "aux"}

VARIABLE deployment

\* The connections a deployment uses.
Used == CASE deployment = "drifting" -> {c1, c2}
          [] deployment = "autocommit" -> {c3, c4}
          [] deployment = "transactional" -> {c3}

DeploymentInit ==
  \/ deployment = "drifting" /\ Init
  \/ deployment = "autocommit" /\ Autocommit!Init
  \/ deployment = "transactional" /\ Transactional!Init

DeploymentNext ==
  /\ \/ deployment = "drifting" /\ Next
     \/ deployment = "autocommit" /\ Autocommit!Next
     \/ deployment = "transactional" /\ Transactional!Next
  /\ \A c \in Conn \ Used : client'[c] = "closed"
  /\ \A d \in Datasource \ {DsOf[c] : c \in Used} : UNCHANGED db[d]
  /\ UNCHANGED deployment

DeploymentSpec == DeploymentInit /\ [][DeploymentNext]_<<vars, deployment>>

\* Where DDL takes effect at once and only through the proxy, a statement is decided against the
\* structure of its own target connection once every change has been reported (freshnessGate,
\* CurrentWhenSettled).
CurrentOnAutocommit == deployment = "autocommit" => Autocommit!CurrentWhenSettled

===============================================================================
