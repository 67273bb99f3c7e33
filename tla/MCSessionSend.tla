---------------------------- MODULE MCSessionSend ----------------------------
(* SessionSend on small instances; see the README for the bounds.          *)
EXTENDS SessionSend
=============================================================================
