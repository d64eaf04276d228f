----------------------------- MODULE MCConnector -----------------------------
(* Small instances of Connector for TLC. *)
EXTENDS Connector
CONSTANTS c1, c2, x, y, misfit
=============================================================================
