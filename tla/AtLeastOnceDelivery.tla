------------------------ MODULE AtLeastOnceDelivery ------------------------
(***************************************************************************)
(* What the inbound side of the client promises, with no connection, no    *)
(* queue and no database in sight.  An envelope that reaches the Signal    *)
(* server stays in the server's mailbox until the client has stored it;    *)
(* a stored envelope is exposed to the consumer, perhaps several times;    *)
(* the consumer's acknowledgement consumes it.  Nothing is ever forgotten  *)
(* in between.  InboundDelivery is shown to implement this module.         *)
(***************************************************************************)
EXTENDS Naturals

CONSTANT EnvelopeCount          \* envelopes that may reach the server

Envelopes == 1 .. EnvelopeCount \* numbered in the order of their arrival

VARIABLES
  arrived,   \* how many envelopes have reached the server
  mailbox,   \* the envelopes the server still holds for this device
  stored,    \* the envelopes the client answers for
  exposed,   \* the envelopes shown to the consumer at least once
  consumed   \* the envelopes the consumer has acknowledged

vars == <<arrived, mailbox, stored, exposed, consumed>>

Init ==
  /\ arrived  = 0
  /\ mailbox  = {}
  /\ stored   = {}
  /\ exposed  = {}
  /\ consumed = {}

Arrive ==
  /\ arrived < EnvelopeCount
  /\ arrived' = arrived + 1
  /\ mailbox' = mailbox \cup {arrived + 1}
  /\ UNCHANGED <<stored, exposed, consumed>>

(* The client takes responsibility while the server still holds the copy.  *)
Store(e) ==
  /\ e \in mailbox
  /\ stored' = stored \cup {e}
  /\ UNCHANGED <<arrived, mailbox, exposed, consumed>>

(* The server drops its copy, and only of a stored envelope.               *)
Discard(e) ==
  /\ e \in mailbox \cap stored
  /\ mailbox' = mailbox \ {e}
  /\ UNCHANGED <<arrived, stored, exposed, consumed>>

Expose(E) ==
  /\ E \subseteq stored
  /\ exposed' = exposed \cup E
  /\ UNCHANGED <<arrived, mailbox, stored, consumed>>

Consume(e) ==
  /\ e \in exposed
  /\ consumed' = consumed \cup {e}
  /\ UNCHANGED <<arrived, mailbox, stored, exposed>>

Next ==
  \/ Arrive
  \/ \E e \in Envelopes : Store(e) \/ Discard(e) \/ Consume(e)
  \/ \E E \in SUBSET Envelopes : Expose(E)

Spec == Init /\ [][Next]_vars

=============================================================================
