---------------------------- MODULE MCHttpServer ----------------------------
(***************************************************************************)
(* Instances of HttpServer for TLC, which also compare Session.dequeue's   *)
(* loop with its closed form.                                              *)
(***************************************************************************)
EXTENDS HttpServer, MCSessionQueue

CONSTANTS a, b
=============================================================================
