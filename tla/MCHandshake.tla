---------------------------- MODULE MCHandshake ----------------------------
(* The start of one worker, which may start one helper. *)
EXTENDS Handshake
=============================================================================
