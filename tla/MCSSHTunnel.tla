---------------------------- MODULE MCSSHTunnel ----------------------------
(* Values of SSHTunnel's constants for TLC. *)
EXTENDS SSHTunnel

CONSTANTS k1, k2

TwoConns == {k1, k2}
NoConn == {}
=============================================================================
