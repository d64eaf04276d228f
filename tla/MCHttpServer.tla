----------------------------- MODULE MCHttpServer -----------------------------
(* Small instances of HttpServer for TLC. *)
EXTENDS HttpServer

CONSTANTS r1, r2
=============================================================================
