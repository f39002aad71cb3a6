-------------------------- MODULE MCConnectionCatalog --------------------------
(* ConnectionCatalog for TLC: one connection to one datasource.                *)
EXTENDS ConnectionCatalog

CONSTANTS c1, d1

OneDatasource == [c \in Conn |-> d1]

=============================================================================
