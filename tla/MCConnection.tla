---------------------------- MODULE MCConnection ----------------------------
(* Clients whose connections are served by one event loop. *)
EXTENDS Connection

\* The first sends a body in up to three chunks, or goes on with another
\* head; the second sends a head at most.
Sends == <<6, 1>>
=============================================================================
