---------------------------- MODULE MCCallManager ----------------------------
(* CallManager on small instances; see the README for the bounds.          *)
EXTENDS CallManager
=============================================================================
