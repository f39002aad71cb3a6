----------------------------- MODULE MCPmonDaemon -----------------------------
(* One server name, two URLs, one datasource. *)
EXTENDS PmonDaemon, TLC

CONSTANTS l1, l2, c1

Urls2 == {1, 2}
Listeners == {l1, l2}
Conns == {c1}

\* The writers of the config (login, command, renewal) overlap freely; discovery, which only
\* reads it, overlaps with a login or with a command, with brokers and restarts.
Overlap ==
  discovery.pc = "idle" \/ (renewal.pc = "idle" /\ (login.pc = "idle" \/ command.pc = "idle"))

\* One of: a control plane that deprovisions the principal, a window that closes by itself.
OneUpset == Cardinality(gone) + Cardinality({s \in shut \ ended : home[s] \notin gone}) <= 1

ListenerSymmetry == Permutations(Listeners)
=============================================================================
