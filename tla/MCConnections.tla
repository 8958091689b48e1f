--------------------------- MODULE MCConnections ---------------------------
(* Two connections; the theorems of ConnectionsProofs are about any number.*)
EXTENDS Connections

CONSTANTS c1, c2
=============================================================================
