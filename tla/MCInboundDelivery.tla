------------------------- MODULE MCInboundDelivery -------------------------
(* InboundDelivery on small instances; see the README for the bounds.      *)
EXTENDS InboundDelivery
=============================================================================
