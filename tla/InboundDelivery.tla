-------------------------- MODULE InboundDelivery --------------------------
(***************************************************************************)
(* The durable inbound path of SignalTsClient (client.ts) over an incoming *)
(* envelope store (incoming-envelope-store.ts).                            *)
(*                                                                         *)
(* The Signal server delivers the envelopes it holds for the device over   *)
(* one authenticated socket.  Each callback of the socket's listener is    *)
(* queued for admission; the admission queue persists one envelope at a    *)
(* time and only then acknowledges it to the server.  Once the server has  *)
(* reported its queue empty and the host has started delivery, drains of   *)
(* the store expose persisted envelopes to the consumer, at most           *)
(* MaxActiveDeliveries unacknowledged ones at a time.  The consumer's ack  *)
(* completes the row.                                                      *)
(*                                                                         *)
(* The client is one JavaScript process: a step is a run of synchronous    *)
(* code between two awaits.  A crash loses everything but the database.    *)
(* Each call of the store is two steps: the database works (Store...) and  *)
(* the caller resumes (...Replied); the store runs one call at a time, in  *)
(* order, and a caller resumes before the next call runs.                  *)
(***************************************************************************)
EXTENDS Naturals, Sequences, FiniteSets

CONSTANTS
  EnvelopeCount,         \* envelopes that may reach the server
  MaxActiveDeliveries,   \* MAX_ACTIVE_INCOMING_DELIVERIES
  MaxFaults,             \* bound on interruptions, crashes and failed calls
  MaxDays                \* bound on the prune intervals that pass

ASSUME InboundAssumption ==
  /\ EnvelopeCount \in Nat
  /\ MaxActiveDeliveries \in Nat \ {0}
  /\ MaxFaults \in Nat
  /\ MaxDays \in Nat

Envelopes == 1 .. EnvelopeCount   \* numbered in the order of their arrival

(* One exposure of an envelope: the n-th, by a drain of generation gen.  It *)
(* is the event payload whose ack() the consumer calls, and its identity is *)
(* the claim symbol of emitDurableIncomingEnvelope.                         *)
Delivery   == [env : Envelopes, gen : Nat, n : Nat]
NoDelivery == [env |-> 1, gen |-> 0, n |-> 0]

StoreCall   == [op : {"accept", "prune", "list", "complete"},
                del : Delivery \cup {NoDelivery}]
AcceptCall  == [op |-> "accept", del |-> NoDelivery]
PruneCall   == [op |-> "prune",  del |-> NoDelivery]
ListCall    == [op |-> "list",   del |-> NoDelivery]
CompleteCall(d) == [op |-> "complete", del |-> d]

VARIABLES
  (* the Signal server and its socket *)
  arrived,      \* how many envelopes have reached the server
  retained,     \* the envelopes the server holds for the device
  session,      \* generation of the listener of the open socket, 0 if none
  sentTo,       \* last envelope sent over the open socket
  emptySent,    \* whether onQueueEmpty was called over the open socket
  ackWire,      \* acknowledgements sent and not yet received by the server
  (* the incoming_envelopes table *)
  row,          \* sequence of each envelope's row, 0 if it has none
  nextRow,      \* next AUTOINCREMENT value
  done,         \* envelopes whose row has completed_at
  aged,         \* completed rows older than the retention period
  days,         \* prune intervals that have passed
  (* the client's fields *)
  generation, acceptingIncoming, serverQueueEmpty, incomingDeliveryStarted,
  retryTimer,   \* incomingDrainRetryTimer is set
  claims,       \* activeIncomingEnvelopeClaims
  pruneDue,     \* now >= nextIncomingTombstonePruneAt
  (* the client's tasks *)
  admissionQ,   \* incomingAdmissionQueue: callbacks in order
  admissionPc,  \* where the head of admissionQ is
  drainQ,       \* incomingDrainQueue: drains in order
  drainPc,      \* where the head of drainQ is
  storeQ,       \* pendingMutation of the store: calls in order
  storePc,      \* "idle", or how the head of storeQ ended
  page,         \* the rows that the last SELECT returned to its caller
  (* the consumer *)
  held,         \* deliveries it has not acknowledged, or whose ack failed
  times,        \* how often each envelope was exposed
  consumed,     \* envelopes it has processed and acknowledged
  faults        \* failures so far

serverVars   == <<arrived, retained, session, sentTo, emptySent, ackWire>>
inboxVars    == <<row, nextRow, done, aged, days>>
clientVars   == <<generation, acceptingIncoming, serverQueueEmpty,
                  incomingDeliveryStarted, retryTimer, claims, pruneDue>>
admissionVars == <<admissionQ, admissionPc>>
drainVars    == <<drainQ, drainPc>>
storeVars    == <<storeQ, storePc, page>>
consumerVars == <<held, times, consumed>>

vars == <<serverVars, inboxVars, clientVars, admissionVars, drainVars,
          storeVars, consumerVars, faults>>

Init ==
  /\ arrived = 0 /\ retained = {} /\ session = 0 /\ sentTo = 0
  /\ emptySent = FALSE /\ ackWire = {}
  /\ row = [e \in Envelopes |-> 0] /\ nextRow = 1 /\ done = {} /\ aged = {}
  /\ generation = 0 /\ acceptingIncoming = FALSE /\ serverQueueEmpty = FALSE
  /\ incomingDeliveryStarted = FALSE /\ retryTimer = FALSE
  /\ claims = {} /\ pruneDue = TRUE
  /\ admissionQ = <<>> /\ admissionPc = "idle"
  /\ drainQ = <<>> /\ drainPc = "idle"
  /\ storeQ = <<>> /\ storePc = "idle" /\ page = {}
  /\ held = {} /\ times = [e \in Envelopes |-> 0] /\ consumed = {}
  /\ faults = 0 /\ days = 0

-----------------------------------------------------------------------------
(* Helpers shared by the handlers *)

isIncomingDeliveryActive(g) ==
  /\ g = generation
  /\ acceptingIncoming
  /\ serverQueueEmpty
  /\ incomingDeliveryStarted

(* invalidateConnectionGeneration for the current generation               *)
Invalidate ==
  /\ generation' = generation + 1
  /\ acceptingIncoming' = FALSE
  /\ serverQueueEmpty' = FALSE
  /\ incomingDeliveryStarted' = FALSE
  /\ retryTimer' = FALSE
  /\ claims' = {}
  /\ UNCHANGED pruneDue

(* handleDeadConnection: nothing happens to a newer generation             *)
handleDeadConnection(g) ==
  IF g = generation THEN Invalidate ELSE UNCHANGED clientVars

requestIncomingDrain(g) ==
  drainQ' = IF isIncomingDeliveryActive(g)
            THEN Append(drainQ, [gen |-> g, admission |-> FALSE])
            ELSE drainQ

scheduleIncomingDrainRetry(g) ==
  retryTimer' = (retryTimer \/ isIncomingDeliveryActive(g))

Fault == faults < MaxFaults /\ faults' = faults + 1

StoreReplied(op, pc) ==
  /\ storePc = pc
  /\ storeQ # <<>>
  /\ Head(storeQ).op = op

EndCall      == storeQ' = Tail(storeQ) /\ storePc' = "idle" /\ page' = {}
EndAdmission == admissionQ' = Tail(admissionQ) /\ admissionPc' = "idle"

(* A drain awaited by an admission ends that admission with it.            *)
EndDrain ==
  /\ drainQ' = Tail(drainQ)
  /\ drainPc' = "idle"
  /\ IF Head(drainQ).admission THEN EndAdmission ELSE UNCHANGED admissionVars

-----------------------------------------------------------------------------
(* The Signal server, the network and the passing of time *)

Arrive ==
  /\ arrived < EnvelopeCount
  /\ arrived' = arrived + 1
  /\ retained' = retained \cup {arrived + 1}
  /\ UNCHANGED <<session, sentTo, emptySent, ackWire, inboxVars, clientVars,
                 admissionVars, drainVars, storeVars, consumerVars, faults>>

ServerReceivesAck ==
  \E e \in ackWire :
    /\ ackWire' = ackWire \ {e}
    /\ retained' = retained \ {e}
    /\ UNCHANGED <<arrived, session, sentTo, emptySent, inboxVars, clientVars,
                   admissionVars, drainVars, storeVars, consumerVars, faults>>

(* The socket of an invalidated generation goes down; acknowledgements the *)
(* server has not read are lost with it.                                   *)
SocketClosed ==
  /\ session # 0
  /\ session # generation
  /\ session' = 0
  /\ ackWire' = {}
  /\ UNCHANGED <<arrived, retained, sentTo, emptySent, inboxVars, clientVars,
                 admissionVars, drainVars, storeVars, consumerVars, faults>>

(* A day passes (a prune is due again) and then some: every tombstone is   *)
(* older than INCOMING_TOMBSTONE_RETENTION_MS.                             *)
TimePasses ==
  /\ days < MaxDays
  /\ days' = days + 1
  /\ pruneDue' = TRUE
  /\ aged' = done
  /\ UNCHANGED <<serverVars, row, nextRow, done, generation,
                 acceptingIncoming, serverQueueEmpty, incomingDeliveryStarted,
                 retryTimer, claims, admissionVars, drainVars, storeVars,
                 consumerVars, faults>>

-----------------------------------------------------------------------------
(* The connection.  Host calls and listener callbacks *)

(* connect(): the previous socket has closed (connectionCloseTasks).       *)
Connect ==
  /\ session = 0
  /\ ~acceptingIncoming
  /\ generation' = generation + 1
  /\ serverQueueEmpty' = FALSE
  /\ incomingDeliveryStarted' = FALSE
  /\ acceptingIncoming' = TRUE
  /\ session' = generation + 1
  /\ sentTo' = 0
  /\ emptySent' = FALSE
  /\ UNCHANGED <<arrived, retained, ackWire, inboxVars, retryTimer, claims,
                 pruneDue, admissionVars, drainVars, storeVars, consumerVars,
                 faults>>

(* The host calls it once per connection, early or late.                   *)
startIncomingDelivery ==
  /\ ~incomingDeliveryStarted
  /\ incomingDeliveryStarted' = TRUE
  /\ drainQ' = IF acceptingIncoming /\ serverQueueEmpty
               THEN Append(drainQ, [gen |-> generation, admission |-> FALSE])
               ELSE drainQ
  /\ UNCHANGED <<serverVars, inboxVars, generation, acceptingIncoming,
                 serverQueueEmpty, retryTimer, claims, pruneDue,
                 admissionVars, drainPc, storeVars, consumerVars, faults>>

disconnect ==
  /\ Fault
  /\ acceptingIncoming
  /\ Invalidate
  /\ UNCHANGED <<serverVars, inboxVars, admissionVars, drainVars, storeVars,
                 consumerVars>>

(* The network drops the open socket.                                      *)
onConnectionInterrupted ==
  /\ Fault
  /\ session # 0
  /\ session = generation
  /\ handleDeadConnection(session)
  /\ session' = 0
  /\ ackWire' = {}
  /\ UNCHANGED <<arrived, retained, sentTo, emptySent, inboxVars,
                 admissionVars, drainVars, storeVars, consumerVars>>

(* The server sends what it holds in order, once per socket.  The callback *)
(* of a superseded listener is dropped without an acknowledgement.         *)
NextToSend(e) ==
  /\ e \in retained
  /\ e > sentTo
  /\ \A f \in retained : f > sentTo => e <= f

onIncomingMessage(e) ==
  /\ session # 0
  /\ NextToSend(e)
  /\ sentTo' = e
  /\ admissionQ' = IF session = generation /\ acceptingIncoming
                   THEN Append(admissionQ, [env |-> e, gen |-> session])
                   ELSE admissionQ
  /\ UNCHANGED <<arrived, retained, session, emptySent, ackWire, inboxVars,
                 clientVars, admissionPc, drainVars, storeVars, consumerVars,
                 faults>>

onQueueEmpty ==
  /\ session # 0
  /\ ~emptySent
  /\ \A e \in retained : e <= sentTo
  /\ emptySent' = TRUE
  /\ IF session = generation
     THEN /\ serverQueueEmpty' = TRUE
          /\ drainQ' = IF acceptingIncoming /\ incomingDeliveryStarted
                       THEN Append(drainQ, [gen |-> session,
                                            admission |-> FALSE])
                       ELSE drainQ
     ELSE UNCHANGED <<serverQueueEmpty, drainQ>>
  /\ UNCHANGED <<arrived, retained, session, sentTo, ackWire, inboxVars,
                 generation, acceptingIncoming, incomingDeliveryStarted,
                 retryTimer, claims, pruneDue, admissionVars, drainPc,
                 storeVars, consumerVars, faults>>

(* The process dies; the next one starts with fresh fields.  Generations   *)
(* of the next process are numbered on, so that all of them are distinct.  *)
Crash ==
  /\ Fault
  /\ generation' = generation + 1
  /\ acceptingIncoming' = FALSE /\ serverQueueEmpty' = FALSE
  /\ incomingDeliveryStarted' = FALSE /\ retryTimer' = FALSE
  /\ claims' = {} /\ pruneDue' = TRUE
  /\ admissionQ' = <<>> /\ admissionPc' = "idle"
  /\ drainQ' = <<>> /\ drainPc' = "idle"
  /\ storeQ' = <<>> /\ storePc' = "idle" /\ page' = {}
  /\ held' = {}
  /\ session' = 0 /\ ackWire' = {}
  /\ UNCHANGED <<arrived, retained, sentTo, emptySent, inboxVars, times,
                 consumed>>

-----------------------------------------------------------------------------
(* The store: one call at a time *)

NextCall(op) ==
  /\ storePc = "idle"
  /\ storeQ # <<>>
  /\ Head(storeQ).op = op

(* Seeded fault: the sequence is not advanced.                             *)
StoreAcceptReusesSequence ==
  /\ NextCall("accept")
  /\ row' = [row EXCEPT ![Head(admissionQ).env] = nextRow]
  /\ storePc' = "ok"
  /\ UNCHANGED <<serverVars, nextRow, done, aged, days, clientVars,
                 admissionVars, drainVars, storeQ, page, consumerVars, faults>>

(* Seeded fault: the call resolves though nothing was written.             *)
StoreAcceptNotDurable ==
  /\ NextCall("accept")
  /\ storePc' = "ok"
  /\ UNCHANGED <<serverVars, inboxVars, clientVars, admissionVars, drainVars,
                 storeQ, page, consumerVars, faults>>

StoreAccept ==
  /\ NextCall("accept")
  /\ LET e == Head(admissionQ).env IN
       IF row[e] = 0
       THEN row' = [row EXCEPT ![e] = nextRow] /\ nextRow' = nextRow + 1
       ELSE UNCHANGED <<row, nextRow>>
  /\ storePc' = "ok"
  /\ UNCHANGED <<serverVars, done, aged, days, clientVars, admissionVars, drainVars,
                 storeQ, page, consumerVars, faults>>

(* The UPDATE of a row that a prune has removed rejects.                   *)
StoreComplete ==
  /\ NextCall("complete")
  /\ LET e == Head(storeQ).del.env IN
       IF row[e] = 0
       THEN storePc' = "failed" /\ UNCHANGED done
       ELSE storePc' = "ok" /\ done' = done \cup {e}
  /\ UNCHANGED <<serverVars, row, nextRow, aged, days, clientVars, admissionVars,
                 drainVars, storeQ, page, consumerVars, faults>>

StorePrune ==
  /\ NextCall("prune")
  /\ row' = [e \in Envelopes |-> IF e \in done \cap aged THEN 0 ELSE row[e]]
  /\ done' = done \ aged
  /\ aged' = {}
  /\ storePc' = "ok"
  /\ UNCHANGED <<serverVars, nextRow, days, clientVars, admissionVars, drainVars,
                 storeQ, page, consumerVars, faults>>

(* Seeded fault: completed rows are listed too.                            *)
PendingWithTombstones == {e \in Envelopes : row[e] # 0}

Pending == {e \in Envelopes : row[e] # 0 /\ e \notin done}

(* Seeded fault: no ORDER BY, any rows fill the page (here the last ones). *)
ListedUnordered(limit) ==
  {e \in Pending : Cardinality({f \in Pending : row[f] > row[e]}) < limit}

(* listPending(limit): the first pending rows in sequence order            *)
Listed(limit) ==
  {e \in Pending : Cardinality({f \in Pending : row[f] < row[e]}) < limit}

StoreList ==
  /\ NextCall("list")
  /\ storePc' = "ok"
  /\ page' = Listed(MaxActiveDeliveries)
  /\ UNCHANGED <<serverVars, inboxVars, clientVars, admissionVars, drainVars,
                 storeQ, consumerVars, faults>>

StoreFails ==
  /\ Fault
  /\ storePc = "idle"
  /\ storeQ # <<>>
  /\ storePc' = "failed"
  /\ UNCHANGED <<serverVars, inboxVars, clientVars, admissionVars, drainVars,
                 storeQ, page, consumerVars>>

-----------------------------------------------------------------------------
(* Admission: admitIncomingEnvelope and acceptIncomingEnvelope *)

AdmissionLive ==
  /\ Head(admissionQ).gen = generation
  /\ acceptingIncoming

StartAdmission ==
  /\ admissionPc = "idle"
  /\ admissionQ # <<>>
  /\ IF AdmissionLive
     THEN /\ admissionPc' = "accept"
          /\ storeQ' = Append(storeQ, AcceptCall)
          /\ UNCHANGED admissionQ
     ELSE EndAdmission /\ UNCHANGED storeQ
  /\ UNCHANGED <<serverVars, inboxVars, clientVars, drainVars, storePc, page,
                 consumerVars, faults>>

(* Seeded fault: the failure is only logged and the envelope acknowledged. *)
AcceptRejectedAcknowledges ==
  /\ StoreReplied("accept", "failed")
  /\ EndCall
  /\ ackWire' = ackWire \cup {Head(admissionQ).env}
  /\ EndAdmission
  /\ UNCHANGED <<arrived, retained, session, sentTo, emptySent, inboxVars,
                 clientVars, drainVars, consumerVars, faults>>

(* Bytes that are not durable are not acknowledged.                        *)
AcceptRejected ==
  /\ StoreReplied("accept", "failed")
  /\ EndCall
  /\ handleDeadConnection(Head(admissionQ).gen)
  /\ EndAdmission
  /\ UNCHANGED <<serverVars, inboxVars, drainVars, consumerVars, faults>>

(* The connection went away during the accept.                             *)
AcceptStale ==
  /\ StoreReplied("accept", "ok")
  /\ ~AdmissionLive
  /\ EndCall
  /\ EndAdmission
  /\ UNCHANGED <<serverVars, inboxVars, clientVars, drainVars, consumerVars,
                 faults>>

AcceptAcknowledged ==
  /\ StoreReplied("accept", "ok")
  /\ AdmissionLive
  /\ EndCall
  /\ LET a == Head(admissionQ) IN
       /\ ackWire' = ackWire \cup {a.env}
       /\ IF a.env \in done \/ ~serverQueueEmpty \/ ~incomingDeliveryStarted
          THEN EndAdmission /\ UNCHANGED drainQ
          ELSE /\ drainQ' = Append(drainQ, [gen |-> a.gen, admission |-> TRUE])
               /\ admissionPc' = "drain"
               /\ UNCHANGED admissionQ
  /\ UNCHANGED <<arrived, retained, session, sentTo, emptySent, inboxVars,
                 clientVars, drainPc, consumerVars, faults>>

AcceptAckFails ==
  /\ Fault
  /\ StoreReplied("accept", "ok")
  /\ AdmissionLive
  /\ EndCall
  /\ Invalidate
  /\ EndAdmission
  /\ UNCHANGED <<serverVars, inboxVars, drainVars, consumerVars>>

-----------------------------------------------------------------------------
(* Drains: drainIncomingEnvelopeStore and emitDurableIncomingEnvelope *)

DrainLive == isIncomingDeliveryActive(Head(drainQ).gen)

AtCapacity == Cardinality(claims) >= MaxActiveDeliveries

(* What a drain does before it lists: nothing more when every slot is      *)
(* taken, for the completion that frees one will request a drain.          *)
CheckCapacity(calls) ==
  IF AtCapacity
  THEN /\ retryTimer' = FALSE
       /\ EndDrain
       /\ storeQ' = calls
  ELSE /\ drainPc' = "list"
       /\ storeQ' = Append(calls, ListCall)
       /\ UNCHANGED <<retryTimer, drainQ, admissionVars>>

StartDrain ==
  /\ drainPc = "idle"
  /\ drainQ # <<>>
  /\ \/ /\ ~DrainLive
        /\ EndDrain
        /\ UNCHANGED <<storeQ, retryTimer>>
     \/ /\ DrainLive /\ pruneDue
        /\ drainPc' = "prune"
        /\ storeQ' = Append(storeQ, PruneCall)
        /\ UNCHANGED <<drainQ, admissionVars, retryTimer>>
     \/ /\ DrainLive /\ ~pruneDue
        /\ CheckCapacity(storeQ)
  /\ UNCHANGED <<serverVars, inboxVars, generation, acceptingIncoming,
                 serverQueueEmpty, incomingDeliveryStarted, claims, pruneDue,
                 storePc, page, consumerVars, faults>>

PruneReplied ==
  /\ StoreReplied("prune", "ok")
  /\ storePc' = "idle"
  /\ page' = {}
  /\ \/ /\ ~DrainLive
        /\ EndDrain
        /\ storeQ' = Tail(storeQ)
        /\ UNCHANGED <<pruneDue, retryTimer>>
     \/ /\ DrainLive
        /\ pruneDue' = FALSE
        /\ CheckCapacity(Tail(storeQ))
  /\ UNCHANGED <<serverVars, inboxVars, generation, acceptingIncoming,
                 serverQueueEmpty, incomingDeliveryStarted, claims,
                 consumerVars, faults>>

DrainCallFails ==
  /\ StoreReplied("prune", "failed") \/ StoreReplied("list", "failed")
  /\ EndCall
  /\ scheduleIncomingDrainRetry(Head(drainQ).gen)
  /\ EndDrain
  /\ UNCHANGED <<serverVars, inboxVars, generation, acceptingIncoming,
                 serverQueueEmpty, incomingDeliveryStarted, claims, pruneDue,
                 consumerVars, faults>>

Claimed == {d.env : d \in claims}

(* Seeded fault: rows that are already claimed are exposed again.          *)
FreshIgnoresClaims == page

(* The rows of the page that the loop has still to expose                  *)
Fresh == page \ Claimed

(* The loop exposes the fresh rows in order while there is a free slot.    *)
IsExposed(E) ==
  /\ E \subseteq Fresh
  /\ \A e \in E, f \in Fresh : row[f] < row[e] => f \in E
  /\ Cardinality(claims) + Cardinality(E) <= MaxActiveDeliveries

LoopEnds(E) ==
  E = Fresh \/ Cardinality(claims) + Cardinality(E) = MaxActiveDeliveries

NewDeliveries(E) ==
  {[env |-> e, gen |-> generation, n |-> times[e] + 1] : e \in E}

CountExposures(E) ==
  times' = [e \in Envelopes |-> IF e \in E THEN times[e] + 1 ELSE times[e]]

ListStale ==
  /\ StoreReplied("list", "ok")
  /\ ~DrainLive
  /\ EndCall
  /\ EndDrain
  /\ UNCHANGED <<serverVars, inboxVars, clientVars, consumerVars, faults>>

ListReplied ==
  /\ StoreReplied("list", "ok")
  /\ DrainLive
  /\ EndCall
  /\ \E E \in SUBSET Fresh :
       /\ IsExposed(E)
       /\ LoopEnds(E)
       /\ claims' = claims \cup NewDeliveries(E)
       /\ held' = held \cup NewDeliveries(E)
       /\ CountExposures(E)
  /\ retryTimer' = FALSE
  /\ EndDrain
  /\ UNCHANGED <<serverVars, inboxVars, generation, acceptingIncoming,
                 serverQueueEmpty, incomingDeliveryStarted, pruneDue,
                 consumed, faults>>

(* Seeded fault: the claim of the row whose handler threw is kept.         *)
ClaimsAfterThrowKept(E, last) == claims \cup NewDeliveries(E)

ClaimsAfterThrow(E, last) == claims \cup NewDeliveries(E \ {last})

(* The consumer's handler throws on the last row of E: its claim goes, the *)
(* rest of the page is not exposed and the drain is retried.               *)
HandlerThrows ==
  /\ Fault
  /\ StoreReplied("list", "ok")
  /\ DrainLive
  /\ EndCall
  /\ \E E \in SUBSET Fresh : \E last \in E :
       /\ IsExposed(E)
       /\ \A e \in E : row[e] <= row[last]
       /\ claims' = ClaimsAfterThrow(E, last)
       /\ held' = held \cup NewDeliveries(E \ {last})
       /\ CountExposures(E)
  /\ scheduleIncomingDrainRetry(Head(drainQ).gen)
  /\ EndDrain
  /\ UNCHANGED <<serverVars, inboxVars, generation, acceptingIncoming,
                 serverQueueEmpty, incomingDeliveryStarted, pruneDue,
                 consumed>>

RetryTimerFires ==
  /\ retryTimer
  /\ retryTimer' = FALSE
  /\ requestIncomingDrain(generation)
  /\ UNCHANGED <<serverVars, inboxVars, generation, acceptingIncoming,
                 serverQueueEmpty, incomingDeliveryStarted, claims, pruneDue,
                 admissionVars, drainPc, storeVars, consumerVars, faults>>

-----------------------------------------------------------------------------
(* The consumer's ack() *)

(* The consumer has processed d and calls its ack.                         *)
ConsumerAcks(d) ==
  /\ d \in held
  /\ held' = held \ {d}
  /\ consumed' = consumed \cup {d.env}
  /\ storeQ' = Append(storeQ, CompleteCall(d))
  /\ UNCHANGED <<serverVars, inboxVars, clientVars, admissionVars, drainVars,
                 storePc, page, times, faults>>

(* Seeded fault: a freed slot is not refilled.                             *)
CompleteRepliedNoRefill ==
  /\ StoreReplied("complete", "ok")
  /\ EndCall
  /\ claims' = claims \ {Head(storeQ).del}
  /\ UNCHANGED <<serverVars, inboxVars, generation, acceptingIncoming,
                 serverQueueEmpty, incomingDeliveryStarted, retryTimer,
                 pruneDue, admissionVars, drainVars, consumerVars, faults>>

(* Only the delivery that still owns the claim frees the slot.             *)
CompleteReplied ==
  /\ StoreReplied("complete", "ok")
  /\ EndCall
  /\ LET d == Head(storeQ).del IN
       /\ claims' = claims \ {d}
       /\ IF d \in claims THEN requestIncomingDrain(d.gen) ELSE UNCHANGED drainQ
  /\ UNCHANGED <<serverVars, inboxVars, generation, acceptingIncoming,
                 serverQueueEmpty, incomingDeliveryStarted, retryTimer,
                 pruneDue, admissionVars, drainPc, consumerVars, faults>>

(* A failed completion may be retried by the same handle, or the row is    *)
(* exposed again by the retried drain.                                     *)
CompleteFails ==
  /\ StoreReplied("complete", "failed")
  /\ EndCall
  /\ LET d == Head(storeQ).del IN
       /\ held' = held \cup {d}
       /\ claims' = claims \ {d}
       /\ IF d \in claims
          THEN scheduleIncomingDrainRetry(d.gen)
          ELSE UNCHANGED retryTimer
  /\ UNCHANGED <<serverVars, inboxVars, generation, acceptingIncoming,
                 serverQueueEmpty, incomingDeliveryStarted, pruneDue,
                 admissionVars, drainVars, times, consumed, faults>>

-----------------------------------------------------------------------------
ServerStep == Arrive \/ ServerReceivesAck \/ SocketClosed \/ TimePasses

ConnectionStep ==
  \/ Connect \/ startIncomingDelivery \/ disconnect
  \/ onConnectionInterrupted \/ onQueueEmpty \/ Crash
  \/ \E e \in Envelopes : onIncomingMessage(e)

StoreWorks == StoreAccept \/ StoreComplete \/ StorePrune \/ StoreList

StoreReturns ==
  \/ AcceptRejected \/ AcceptStale \/ AcceptAcknowledged
  \/ PruneReplied \/ DrainCallFails \/ ListStale \/ ListReplied
  \/ CompleteReplied \/ CompleteFails

Next ==
  \/ ServerStep \/ ConnectionStep \/ StoreWorks \/ StoreFails
  \/ StoreReturns \/ StartAdmission \/ AcceptAckFails
  \/ StartDrain \/ HandlerThrows \/ RetryTimerFires
  \/ \E d \in held : ConsumerAcks(d)

Spec == Init /\ [][Next]_vars

(***************************************************************************)
(* The event loop runs what is ready: the store's calls, their callers,    *)
(* queued tasks and timers.  The server delivers over an open socket and   *)
(* reads acknowledgements.  The host reconnects and starts delivery after  *)
(* each connect, and the consumer acknowledges what it is shown.  Failures *)
(* are not fair, and there are at most MaxFaults.                          *)
(***************************************************************************)
Fairness ==
  /\ WF_vars(StoreWorks)
  /\ WF_vars(StoreReturns)
  /\ WF_vars(StartAdmission)
  /\ WF_vars(StartDrain)
  /\ WF_vars(RetryTimerFires)
  /\ WF_vars(SocketClosed)
  /\ WF_vars(ServerReceivesAck)
  /\ WF_vars(\E e \in Envelopes : onIncomingMessage(e))
  /\ WF_vars(onQueueEmpty)
  /\ WF_vars(Connect)
  /\ WF_vars(acceptingIncoming /\ startIncomingDelivery)
  /\ \A e \in Envelopes : WF_vars(\E d \in held : d.env = e /\ ConsumerAcks(d))

FairSpec == Spec /\ Fairness

-----------------------------------------------------------------------------
(* Properties *)

ServerTypeOK ==
  /\ arrived \in 0 .. EnvelopeCount
  /\ retained \subseteq 1 .. arrived
  /\ session \in Nat
  /\ sentTo \in Nat
  /\ emptySent \in BOOLEAN
  /\ ackWire \subseteq Envelopes

InboxTypeOK ==
  /\ nextRow \in Nat \ {0}
  /\ row \in [Envelopes -> 0 .. nextRow - 1]
  /\ done \subseteq Envelopes
  /\ aged \subseteq Envelopes
  /\ days \in Nat

ClientTypeOK ==
  /\ generation \in Nat
  /\ acceptingIncoming \in BOOLEAN
  /\ serverQueueEmpty \in BOOLEAN
  /\ incomingDeliveryStarted \in BOOLEAN
  /\ retryTimer \in BOOLEAN
  /\ claims \subseteq Delivery
  /\ pruneDue \in BOOLEAN

TaskTypeOK ==
  /\ admissionQ \in Seq([env : Envelopes, gen : Nat])
  /\ admissionPc \in {"idle", "accept", "drain"}
  /\ drainQ \in Seq([gen : Nat, admission : BOOLEAN])
  /\ drainPc \in {"idle", "prune", "list"}
  /\ storeQ \in Seq(StoreCall)
  /\ storePc \in {"idle", "ok", "failed"}
  /\ page \subseteq Envelopes

ConsumerTypeOK ==
  /\ held \subseteq Delivery
  /\ times \in [Envelopes -> Nat]
  /\ consumed \subseteq Envelopes

TypeOK ==
  /\ ServerTypeOK
  /\ InboxTypeOK
  /\ ClientTypeOK
  /\ TaskTypeOK
  /\ ConsumerTypeOK
  /\ faults \in Nat

(* No envelope is ever lost: until the consumer has processed it, either   *)
(* the server or the database has it, across crashes, dead sockets and     *)
(* lost acknowledgements (persist before ACK, acceptIncomingEnvelope).     *)
NoLoss ==
  \A e \in 1 .. arrived : e \in retained \/ row[e] # 0 \/ e \in consumed

(* No slot leaks: each of the MaxActiveDeliveries claims belongs to a      *)
(* delivery that the consumer can still acknowledge or whose completion is *)
(* on its way (emitDurableIncomingEnvelope).                               *)
Completing == {storeQ[i].del : i \in {j \in DOMAIN storeQ :
                                        storeQ[j].op = "complete"}}

NoLeakedClaim == claims \subseteq held \cup Completing

(* At most MaxActiveDeliveries unacknowledged deliveries of the current    *)
(* connection, and none while delivery is not active: reconnecting frees   *)
(* every slot (drainIncomingEnvelopeStore, invalidateConnectionGeneration).*)
ClaimsBounded ==
  /\ Cardinality(claims) <= MaxActiveDeliveries
  /\ claims # {} => isIncomingDeliveryActive(generation)

(* A retry is armed only for the connection that asked for it.             *)
RetryBelongsToConnection ==
  retryTimer => isIncomingDeliveryActive(generation)

(* Envelopes are first shown to the consumer in the order in which the     *)
(* server received them, whatever fails and whenever the client restarts.  *)
FirstExposureInOrder ==
  \A e, f \in Envelopes : f < e /\ times[e] > 0 => times[f] > 0

(* Without a failure every envelope is exposed once at most.               *)
ExactlyOnceWithoutFaults ==
  faults = 0 => \A e \in Envelopes : times[e] <= 1

(* A completed row is never exposed: the ack of an earlier connection's    *)
(* delivery may complete a row while a drain has it on its page.           *)
NeverExposeCompleted ==
  [][\A e \in Envelopes : times'[e] > times[e] => e \notin done]_vars

(* Every envelope that reaches the server is eventually processed by the   *)
(* consumer and completed or, later, pruned.                               *)
EventuallyConsumed ==
  \A e \in Envelopes :
    (e <= arrived) ~> (e \in consumed /\ e \notin Pending /\ e \notin retained)

-----------------------------------------------------------------------------
(* The inductive invariant behind NoLoss and the refinement               *)

Safe(e) == row[e] # 0 \/ e \in consumed

Calls(op) == {i \in 1 .. Len(storeQ) : storeQ[i].op = op}

(* The tasks and the calls they wait for match, so the reply of an accept  *)
(* always goes to the admission that asked for it.                         *)
HeadsOK ==
  /\ admissionPc # "idle" => admissionQ # <<>>
  /\ drainPc # "idle" => drainQ # <<>>
  /\ storePc # "idle" => storeQ # <<>>

CallsOK ==
  /\ \A i \in Calls("accept") : admissionPc = "accept"
  /\ \A i \in Calls("prune") : drainPc = "prune"
  /\ \A i \in Calls("list") : drainPc = "list"
  /\ \A i, j \in Calls("accept") : i = j
  /\ \A i, j \in Calls("prune") : i = j
  /\ \A i, j \in Calls("list") : i = j

AdmissionDrains == {i \in 1 .. Len(drainQ) : drainQ[i].admission}

DrainsOK ==
  /\ \A i \in AdmissionDrains : admissionPc = "drain"
  /\ \A i, j \in AdmissionDrains : i = j

TasksOK == HeadsOK /\ CallsOK /\ DrainsOK

(* What the server is told, or will be, is stored; what is completed, or   *)
(* will be, was processed by the consumer; what was exposed is stored.     *)
AdmittedArrived ==
  \A i \in 1 .. Len(admissionQ) : admissionQ[i].env <= arrived

AcksSafe ==
  /\ \A e \in ackWire : Safe(e)
  /\ StoreReplied("accept", "ok") => Safe(Head(admissionQ).env)

CompletedConsumed ==
  /\ done \subseteq consumed
  /\ \A i \in Calls("complete") : /\ storeQ[i].del \in Delivery
                                  /\ storeQ[i].del.env \in consumed

ExposedSafe ==
  /\ \A d \in held : times[d.env] > 0
  /\ \A e \in consumed : times[e] > 0
  /\ \A e \in Envelopes : times[e] > 0 => Safe(e)

AcksOK == AdmittedArrived /\ AcksSafe /\ CompletedConsumed /\ ExposedSafe

(* The page is what the table holds when its caller looks at it.           *)
PageOK == StoreReplied("list", "ok") => page = Listed(MaxActiveDeliveries)

IInv == TypeOK /\ TasksOK /\ AcksOK /\ PageOK /\ NoLoss

-----------------------------------------------------------------------------
(* The inductive invariant behind FirstExposureInOrder                    *)

(* A listener that is heard is that of the open socket, and nothing is     *)
(* queued for a generation to come.                                        *)
SocketOK ==
  /\ session <= generation
  /\ sentTo <= arrived
  /\ acceptingIncoming <=> session # 0 /\ session = generation
  /\ \A i \in 1 .. Len(admissionQ) : admissionQ[i].gen <= generation

(* What the open socket has sent is stored or queued, in order.            *)
Live(i) == i \in 1 .. Len(admissionQ) /\ admissionQ[i].gen = generation

SentInOrder ==
  /\ \A i \in 1 .. Len(admissionQ) : Live(i) => admissionQ[i].env <= sentTo
  /\ \A i, j \in 1 .. Len(admissionQ) :
       Live(i) /\ Live(j) /\ i < j => admissionQ[i].env < admissionQ[j].env
  /\ acceptingIncoming => \A f \in 1 .. sentTo :
       Safe(f) \/ \E i \in 1 .. Len(admissionQ) : Live(i) /\ admissionQ[i].env = f

(* An envelope is written when the earlier ones have been, also when its   *)
(* connection has gone away meanwhile.                                     *)
AcceptInOrder ==
  /\ admissionPc = "accept" =>
       \A f \in Envelopes : f < Head(admissionQ).env => Safe(f)
  /\ admissionPc = "drain" => Safe(Head(admissionQ).env)

(* Rows are in order but for those of envelopes exposed before, which may  *)
(* be pruned, sent again and stored anew.                                  *)
StoredInOrder ==
  \A e, f \in Envelopes :
    f < e /\ row[e] # 0 /\ times[f] = 0 => row[f] # 0 /\ row[f] < row[e]

OrderInv ==
  SocketOK /\ SentInOrder /\ AcceptInOrder /\ StoredInOrder /\ FirstExposureInOrder

-----------------------------------------------------------------------------
(* The inductive invariant behind ExactlyOnceWithoutFaults                *)

Unseen(e) == row[e] = 0 /\ times[e] = 0

(* Whether the head of admissionQ has been written                         *)
Written == admissionPc = "drain" \/ StoreReplied("accept", "ok")

(* What is still to be sent or to be written is new.                       *)
ArrivesOnce ==
  /\ storePc # "failed"
  /\ ~acceptingIncoming => session = 0 /\ sentTo = 0 /\ admissionQ = <<>>
  /\ \A e \in Envelopes : e > sentTo => Unseen(e)
  /\ \A i \in 1 .. Len(admissionQ) :
       Live(i) /\ (i # 1 \/ ~Written => Unseen(admissionQ[i].env))

(* What has been exposed is claimed until it is completed.                 *)
ClaimedOnce ==
  /\ \A e \in Envelopes : times[e] > 0 => e \in Claimed \/ e \notin Pending
  /\ held \cup Completing \subseteq claims
  /\ \A c, d \in claims : c.env = d.env => c = d

(* What is claimed is acknowledged once and completed once.                *)
CompletedOnce ==
  /\ \A d \in held : d.env \in Pending
  /\ \A i \in Calls("complete") :
       /\ storeQ[i].del \notin held
       /\ storeQ[i].del.env \in Pending <=> i # 1 \/ storePc = "idle"
  /\ \A i, j \in Calls("complete") : storeQ[i].del = storeQ[j].del => i = j

OnceInv ==
  faults = 0 => /\ ArrivesOnce /\ ClaimedOnce /\ CompletedOnce
                /\ \A e \in Envelopes : times[e] <= 1

-----------------------------------------------------------------------------
(* The abstract promise: the client answers for what the database holds    *)
(* and for what the consumer has processed.                                *)
Promise == INSTANCE AtLeastOnceDelivery WITH
  mailbox <- retained,
  stored  <- {e \in Envelopes : row[e] # 0} \cup consumed,
  exposed <- {e \in Envelopes : times[e] > 0}

ImplementsPromise == Promise!Spec

=============================================================================
