---------------------- MODULE InboundGuarantees_proofs ----------------------
(***************************************************************************)
(* What inbound delivery guarantees, from the invariant proved in          *)
(* InboundDelivery_proofs: the slots of the consumer and the retry timer,  *)
(* no claim left behind, the order of first exposures, exactly one         *)
(* exposure when nothing fails, and the implementation of                  *)
(* AtLeastOnceDelivery.  The first half is about the claims, the second    *)
(* about what is exposed and completed.                                    *)
(***************************************************************************)
EXTENDS InboundDelivery_proofs, FiniteSetTheorems


(* ClaimsBounded and RetryBelongsToConnection are inductive together; the  *)
(* count needs the claims to be a finite set.                              *)
SlotInv == IsFiniteSet(claims) /\ ClaimsBounded /\ RetryBelongsToConnection

LEMMA SlotInit == Init => SlotInv
<1> SUFFICES ASSUME Init PROVE SlotInv
  OBVIOUS
<1>1. claims = {} /\ retryTimer = FALSE
  BY DEF Init
<1>2. IsFiniteSet({}) /\ Cardinality({}) = 0
  BY FS_EmptySet
<1>3. 0 <= MaxActiveDeliveries
  BY InboundAssumption DEF InboundAssumption
<1> QED
  BY <1>1, <1>2, <1>3 DEF SlotInv, ClaimsBounded, RetryBelongsToConnection

(* With no claim and no timer there is nothing to check.                   *)
LEMMA SlotsFree == claims' = {} /\ ~retryTimer' => SlotInv'
<1> SUFFICES ASSUME claims' = {}, ~retryTimer' PROVE SlotInv'
  OBVIOUS
<1>1. IsFiniteSet({}) /\ Cardinality({}) = 0
  BY FS_EmptySet
<1>2. 0 <= MaxActiveDeliveries
  BY InboundAssumption DEF InboundAssumption
<1> QED
  BY <1>1, <1>2 DEF SlotInv, ClaimsBounded, RetryBelongsToConnection

(* Delivery stays active, no claim is added and a retry is asked for while *)
(* delivery is active.                                                     *)
LEMMA SlotsKept ==
  ASSUME SlotInv,
         claims' = claims,
         retryTimer' => retryTimer \/ isIncomingDeliveryActive(generation),
         isIncomingDeliveryActive(generation)
           => isIncomingDeliveryActive(generation)'
  PROVE  SlotInv'
  BY DEF SlotInv, ClaimsBounded, RetryBelongsToConnection

LEMMA SlotFreed ==
  ASSUME SlotInv, NEW d, claims' = claims \ {d},
         retryTimer' => retryTimer \/ isIncomingDeliveryActive(generation),
         isIncomingDeliveryActive(generation)
           => isIncomingDeliveryActive(generation)'
  PROVE  SlotInv'
<1>1. IsFiniteSet(claims) /\ Cardinality(claims) \in Nat
  BY FS_CardinalityType DEF SlotInv
<1>2. IsFiniteSet(claims') /\ Cardinality(claims') <= Cardinality(claims)
  <2>1. claims' \subseteq claims
    OBVIOUS
  <2> QED
    BY <1>1, <2>1, FS_Subset
<1>3. Cardinality(claims') \in Nat
  BY <1>2, FS_CardinalityType
<1>4. MaxActiveDeliveries \in Nat /\ Cardinality(claims) <= MaxActiveDeliveries
  BY InboundAssumption DEF InboundAssumption, SlotInv, ClaimsBounded
<1>5. Cardinality(claims') <= MaxActiveDeliveries
  BY <1>1, <1>2, <1>3, <1>4
<1>6. claims' # {} => isIncomingDeliveryActive(generation)'
  BY DEF SlotInv, ClaimsBounded
<1>7. RetryBelongsToConnection'
  BY DEF SlotInv, RetryBelongsToConnection
<1> QED
  BY <1>2, <1>5, <1>6, <1>7 DEF SlotInv, ClaimsBounded

(* The deliveries of a page take one slot each.                            *)
LEMMA SlotsTaken ==
  ASSUME IInv, SlotInv, NEW E \in SUBSET Fresh, NEW F \in SUBSET E,
         IsExposed(E),
         claims' = claims \cup NewDeliveries(F)
  PROVE  IsFiniteSet(claims') /\ Cardinality(claims') <= MaxActiveDeliveries
<1>1. IsFiniteSet(claims) /\ MaxActiveDeliveries \in Nat
  BY InboundAssumption DEF InboundAssumption, SlotInv
<1>2. IsFiniteSet(E)
  <2>1. E \subseteq 1 .. EnvelopeCount
    BY DEF Fresh, IInv, TypeOK, TaskTypeOK, Envelopes
  <2>2. IsFiniteSet(1 .. EnvelopeCount)
    BY FS_Interval, InboundAssumption DEF InboundAssumption
  <2> QED
    BY <2>1, <2>2, FS_Subset
<1>3. IsFiniteSet(F) /\ Cardinality(F) <= Cardinality(E)
  BY <1>2, FS_Subset
<1>4. IsFiniteSet(NewDeliveries(F)) /\ Cardinality(NewDeliveries(F)) <= Cardinality(F)
  <2> DEFINE f == [e \in F |-> [env |-> e, gen |-> generation, n |-> times[e] + 1]]
  <2>1. f \in Surjection(F, NewDeliveries(F))
    BY DEF Surjection, NewDeliveries
  <2> QED
    BY <1>3, <2>1, FS_Surjection
<1>5. /\ IsFiniteSet(claims')
      /\ Cardinality(claims') =
           Cardinality(claims) + Cardinality(NewDeliveries(F))
             - Cardinality(claims \cap NewDeliveries(F))
  BY <1>1, <1>4, FS_Union
<1>6. IsFiniteSet(claims \cap NewDeliveries(F))
  BY <1>1, FS_Subset
<1>7. /\ Cardinality(claims) \in Nat
      /\ Cardinality(NewDeliveries(F)) \in Nat
      /\ Cardinality(claims \cap NewDeliveries(F)) \in Nat
      /\ Cardinality(E) \in Nat /\ Cardinality(F) \in Nat
  BY <1>1, <1>2, <1>3, <1>4, <1>6, FS_CardinalityType
<1>8. Cardinality(claims) + Cardinality(E) <= MaxActiveDeliveries
  BY DEF IsExposed
<1> QED
  BY <1>1, <1>3, <1>4, <1>5, <1>7, <1>8

activeVars == <<generation, acceptingIncoming, serverQueueEmpty,
                incomingDeliveryStarted>>

LEMMA ActiveKept ==
  UNCHANGED activeVars =>
    (isIncomingDeliveryActive(generation)
       => isIncomingDeliveryActive(generation)')
  BY DEF activeVars, isIncomingDeliveryActive

LEMMA SlotInvStep == IInv /\ SlotInv /\ [Next]_vars => SlotInv'
<1> SUFFICES ASSUME IInv, SlotInv, [Next]_vars PROVE SlotInv'
  OBVIOUS
<1>1. ASSUME UNCHANGED <<claims, retryTimer, activeVars>> PROVE SlotInv'
  BY <1>1, SlotsKept, ActiveKept
<1>2. ASSUME Invalidate PROVE SlotInv'
  BY <1>2, SlotsFree DEF Invalidate
<1>3. ASSUME NEW g, handleDeadConnection(g) PROVE SlotInv'
  BY <1>1, <1>2, <1>3 DEF handleDeadConnection, clientVars, activeVars
<1>4. CASE ServerStep
  BY <1>1, <1>4
  DEF ServerStep, Arrive, ServerReceivesAck, SocketClosed, TimePasses,
      clientVars, activeVars
<1>5. CASE ConnectionStep
  <2>1. CASE Connect
    <3>1. claims = {} /\ ~retryTimer
      BY <2>1
      DEF Connect, SlotInv, ClaimsBounded, RetryBelongsToConnection,
          isIncomingDeliveryActive
    <3> QED
      BY <2>1, <3>1, SlotsFree DEF Connect
  <2>2. CASE startIncomingDelivery
    BY <2>2, SlotsKept DEF startIncomingDelivery, isIncomingDeliveryActive
  <2>3. CASE disconnect
    BY <1>2, <2>3 DEF disconnect
  <2>4. CASE onConnectionInterrupted
    BY <1>3, <2>4 DEF onConnectionInterrupted
  <2>5. CASE onQueueEmpty
    <3>1. isIncomingDeliveryActive(generation)
            => isIncomingDeliveryActive(generation)'
      BY <2>5 DEF onQueueEmpty, isIncomingDeliveryActive
    <3> QED
      BY <2>5, <3>1, SlotsKept DEF onQueueEmpty
  <2>6. CASE Crash
    BY <2>6, SlotsFree DEF Crash
  <2>7. CASE \E e \in Envelopes : onIncomingMessage(e)
    BY <1>1, <2>7 DEF onIncomingMessage, clientVars, activeVars
  <2> QED
    BY <1>5, <2>1, <2>2, <2>3, <2>4, <2>5, <2>6, <2>7 DEF ConnectionStep
<1>6. CASE StoreWorks \/ StoreFails
  BY <1>1, <1>6
  DEF StoreWorks, StoreAccept, StoreComplete, StorePrune, StoreList,
      StoreFails, clientVars, activeVars
<1>7. CASE StoreReturns
  <2>1. CASE AcceptRejected
    BY <1>3, <2>1 DEF AcceptRejected
  <2>2. CASE AcceptStale \/ AcceptAcknowledged \/ ListStale
    BY <1>1, <2>2
    DEF AcceptStale, AcceptAcknowledged, ListStale, clientVars, activeVars
  <2>3. CASE PruneReplied
    <3>1. claims' = claims /\ UNCHANGED activeVars
      BY <2>3 DEF PruneReplied, activeVars
    <3>2. retryTimer' => retryTimer
      BY <2>3 DEF PruneReplied, CheckCapacity
    <3> QED
      BY <3>1, <3>2, SlotsKept, ActiveKept
  <2>4. CASE DrainCallFails
    <3>1. claims' = claims /\ UNCHANGED activeVars
      BY <2>4 DEF DrainCallFails, activeVars
    <3>2. retryTimer' => retryTimer \/ isIncomingDeliveryActive(generation)
      BY <2>4
      DEF DrainCallFails, scheduleIncomingDrainRetry, isIncomingDeliveryActive
    <3> QED
      BY <3>1, <3>2, SlotsKept, ActiveKept
  <2>5. CASE ListReplied
    <3>1. isIncomingDeliveryActive(generation) /\ UNCHANGED activeVars
      BY <2>5
      DEF ListReplied, DrainLive, isIncomingDeliveryActive, activeVars
    <3>2. IsFiniteSet(claims') /\ Cardinality(claims') <= MaxActiveDeliveries
      BY <2>5, SlotsTaken DEF ListReplied
    <3> QED
      BY <2>5, <3>1, <3>2, ActiveKept
      DEF ListReplied, SlotInv, ClaimsBounded, RetryBelongsToConnection
  <2>6. CASE CompleteReplied
    <3>1. UNCHANGED <<retryTimer, activeVars>>
      BY <2>6 DEF CompleteReplied, activeVars
    <3>2. claims' = claims \ {Head(storeQ).del}
      BY <2>6 DEF CompleteReplied
    <3> QED
      BY <3>1, <3>2, SlotFreed, ActiveKept
  <2>7. CASE CompleteFails
    <3>1. UNCHANGED activeVars
      BY <2>7 DEF CompleteFails, activeVars
    <3>2. claims' = claims \ {Head(storeQ).del}
      BY <2>7 DEF CompleteFails
    <3>3. retryTimer' => retryTimer \/ isIncomingDeliveryActive(generation)
      BY <2>7
      DEF CompleteFails, scheduleIncomingDrainRetry, isIncomingDeliveryActive
    <3> QED
      BY <3>1, <3>2, <3>3, SlotFreed, ActiveKept
  <2> QED
    BY <1>7, <2>1, <2>2, <2>3, <2>4, <2>5, <2>6, <2>7 DEF StoreReturns
<1>8. CASE StartAdmission \/ \E d \in held : ConsumerAcks(d)
  BY <1>1, <1>8 DEF StartAdmission, ConsumerAcks, clientVars, activeVars
<1>9. CASE AcceptAckFails
  BY <1>2, <1>9 DEF AcceptAckFails
<1>10. CASE StartDrain
  <2>1. claims' = claims /\ UNCHANGED activeVars
    BY <1>10 DEF StartDrain, activeVars
  <2>2. retryTimer' => retryTimer
    BY <1>10 DEF StartDrain, CheckCapacity
  <2> QED
    BY <2>1, <2>2, SlotsKept, ActiveKept
<1>11. CASE HandlerThrows
  <2>1. isIncomingDeliveryActive(generation) /\ UNCHANGED activeVars
    BY <1>11
    DEF HandlerThrows, DrainLive, isIncomingDeliveryActive, activeVars
  <2>2. IsFiniteSet(claims') /\ Cardinality(claims') <= MaxActiveDeliveries
    <3>1. PICK E \in SUBSET Fresh : \E last \in E :
            /\ IsExposed(E)
            /\ claims' = ClaimsAfterThrow(E, last)
      BY <1>11 DEF HandlerThrows
    <3>2. \A last \in E : E \ {last} \in SUBSET E
      OBVIOUS
    <3> QED
      BY <3>1, <3>2, SlotsTaken DEF ClaimsAfterThrow
  <2> QED
    BY <2>1, <2>2, ActiveKept
    DEF SlotInv, ClaimsBounded, RetryBelongsToConnection
<1>12. CASE RetryTimerFires
  <2>1. claims' = claims /\ UNCHANGED activeVars /\ ~retryTimer'
    BY <1>12 DEF RetryTimerFires, activeVars
  <2> QED
    BY <2>1, SlotsKept, ActiveKept
<1>13. CASE UNCHANGED vars
  BY <1>1, <1>13 DEF vars, clientVars, activeVars
<1> QED
  BY <1>4, <1>5, <1>6, <1>7, <1>8, <1>9, <1>10, <1>11, <1>12, <1>13 DEF Next

LEMMA SlotInvariant == Spec => []SlotInv
  BY SlotInit, SlotInvStep, InductiveInvariant, PTL DEF Spec

(* At most MaxActiveDeliveries deliveries are out at a time, and none when *)
(* delivery is not active, for every page size.                            *)
THEOREM SlotsBounded == Spec => []ClaimsBounded
<1>1. SlotInv => ClaimsBounded
  BY DEF SlotInv
<1> QED
  BY <1>1, SlotInvariant, PTL

(* The retry timer never outlives the connection that armed it.            *)
THEOREM RetryScoped == Spec => []RetryBelongsToConnection
<1>1. SlotInv => RetryBelongsToConnection
  BY DEF SlotInv
<1> QED
  BY <1>1, SlotInvariant, PTL

-----------------------------------------------------------------------------
(* The completions under way, as the store's queue grows and shrinks.      *)
LEMMA CompletingBegins ==
  ASSUME storeQ \in Seq(StoreCall), NEW c \in StoreCall,
         storeQ' = Append(storeQ, c)
  PROVE  /\ Completing \subseteq Completing'
         /\ c.op = "complete" => c.del \in Completing'
<1>1. /\ Len(storeQ) \in Nat
      /\ DOMAIN storeQ = 1 .. Len(storeQ)
      /\ DOMAIN storeQ' = 1 .. Len(storeQ) + 1
  BY AppendProps
<1>2. /\ \A i \in DOMAIN storeQ : i \in DOMAIN storeQ' /\ storeQ'[i] = storeQ[i]
      /\ Len(storeQ) + 1 \in DOMAIN storeQ' /\ storeQ'[Len(storeQ) + 1] = c
  BY <1>1, AppendProps
<1> QED
  BY <1>2 DEF Completing

(* A call that ends takes no completion but its own with it.               *)
LEMMA CompletingEnds ==
  ASSUME storeQ \in Seq(StoreCall), storeQ # <<>>, storeQ' = Tail(storeQ)
  PROVE  \A d \in Completing :
           d \in Completing' \/ (Head(storeQ).op = "complete" /\ d = Head(storeQ).del)
<1>1. /\ Len(storeQ) \in Nat \ {0}
      /\ DOMAIN storeQ = 1 .. Len(storeQ)
      /\ DOMAIN storeQ' = 1 .. Len(storeQ) - 1
      /\ Head(storeQ) = storeQ[1]
  BY TailProps
<1>2. \A i \in DOMAIN storeQ : i # 1 =>
        i - 1 \in DOMAIN storeQ' /\ storeQ'[i - 1] = storeQ[i]
  BY <1>1, TailProps
<1>3. ASSUME NEW d \in Completing
      PROVE  d \in Completing' \/ (Head(storeQ).op = "complete" /\ d = Head(storeQ).del)
  <2>1. PICK i \in DOMAIN storeQ : storeQ[i].op = "complete" /\ d = storeQ[i].del
    BY DEF Completing
  <2>2. CASE i = 1
    BY <1>1, <2>1, <2>2
  <2>3. CASE i # 1
    BY <1>2, <2>1, <2>3 DEF Completing
  <2> QED
    BY <2>2, <2>3
<1> QED
  BY <1>3

(* A drain whose prune has ended may ask for its list in the same step.    *)
LEMMA CompletingKept ==
  ASSUME storeQ \in Seq(StoreCall), storeQ # <<>>, Head(storeQ).op # "complete",
         storeQ' \in {Tail(storeQ), Append(Tail(storeQ), ListCall)}
  PROVE  Completing \subseteq Completing'
<1>1. CASE storeQ' = Tail(storeQ)
  BY <1>1, CompletingEnds
<1>2. CASE storeQ' = Append(Tail(storeQ), ListCall)
  <2>1. /\ Len(storeQ) \in Nat \ {0}
        /\ DOMAIN storeQ = 1 .. Len(storeQ)
        /\ DOMAIN storeQ' = 1 .. Len(storeQ)
        /\ Head(storeQ) = storeQ[1]
    BY <1>2, TailProps, ReplaceProps, CallTypes
  <2>2. \A i \in DOMAIN storeQ : i # 1 =>
          i - 1 \in DOMAIN storeQ' /\ storeQ'[i - 1] = storeQ[i]
    BY <1>2, <2>1, ReplaceProps, CallTypes
  <2>3. ASSUME NEW d \in Completing PROVE d \in Completing'
    <3>1. PICK i \in DOMAIN storeQ : storeQ[i].op = "complete" /\ d = storeQ[i].del
      BY DEF Completing
    <3>2. i # 1
      BY <2>1, <3>1
    <3> QED
      BY <2>2, <3>1, <3>2 DEF Completing
  <2> QED
    BY <2>3
<1> QED
  BY <1>1, <1>2

(* A claim keeps its delivery: at the consumer or on its way to the store. *)
LEMMA LeakKept ==
  ASSUME NoLeakedClaim, claims' \subseteq claims, held \subseteq held',
         Completing \subseteq Completing'
  PROVE  NoLeakedClaim'
  BY DEF NoLeakedClaim

LEMMA NoClaims == claims' = {} => NoLeakedClaim'
  BY DEF NoLeakedClaim

(* Each step of a call that is not a completion, and whose caller does not *)
(* touch the consumer, keeps every claim's delivery.                       *)
LEMMA LeakAfterCall ==
  ASSUME IInv, NoLeakedClaim, storeQ # <<>>, Head(storeQ).op # "complete",
         storeQ' \in {Tail(storeQ), Append(Tail(storeQ), ListCall)},
         claims' \subseteq claims, held' = held
  PROVE  NoLeakedClaim'
<1>1. storeQ \in Seq(StoreCall)
  BY DEF IInv, TypeOK, TaskTypeOK
<1> QED
  BY <1>1, CompletingKept, LeakKept

LEMMA LeakStep == IInv /\ NoLeakedClaim /\ [Next]_vars => NoLeakedClaim'
<1> SUFFICES ASSUME IInv, NoLeakedClaim, [Next]_vars PROVE NoLeakedClaim'
  OBVIOUS
<1>q. storeQ \in Seq(StoreCall)
  BY DEF IInv, TypeOK, TaskTypeOK
<1>1. ASSUME UNCHANGED <<claims, held, storeQ>> PROVE NoLeakedClaim'
  BY <1>1 DEF NoLeakedClaim, Completing
<1>2. ASSUME Invalidate PROVE NoLeakedClaim'
  BY <1>2, NoClaims DEF Invalidate
<1>3. ASSUME NEW g, handleDeadConnection(g) PROVE claims' \subseteq claims
  BY <1>3 DEF handleDeadConnection, Invalidate, clientVars
<1>4. CASE ServerStep
  BY <1>1, <1>4
  DEF ServerStep, Arrive, ServerReceivesAck, SocketClosed, TimePasses,
      clientVars, consumerVars, storeVars
<1>5. CASE ConnectionStep
  <2>1. CASE disconnect
    BY <1>2, <2>1 DEF disconnect
  <2>2. CASE onConnectionInterrupted
    <3>1. claims' \subseteq claims /\ UNCHANGED <<held, storeQ>>
      BY <1>3, <2>2 DEF onConnectionInterrupted, consumerVars, storeVars
    <3> QED
      BY <3>1, LeakKept DEF Completing
  <2>3. CASE Crash
    BY <2>3, NoClaims DEF Crash
  <2>4. CASE \/ Connect \/ startIncomingDelivery \/ onQueueEmpty
             \/ \E e \in Envelopes : onIncomingMessage(e)
    BY <1>1, <2>4
    DEF Connect, startIncomingDelivery, onQueueEmpty, onIncomingMessage,
        clientVars, consumerVars, storeVars
  <2> QED
    BY <1>5, <2>1, <2>2, <2>3, <2>4 DEF ConnectionStep
<1>6. CASE StoreWorks \/ StoreFails
  BY <1>1, <1>6
  DEF StoreWorks, StoreAccept, StoreComplete, StorePrune, StoreList,
      StoreFails, clientVars, consumerVars
<1>7. CASE StoreReturns
  <2>1. CASE AcceptRejected \/ AcceptStale \/ AcceptAcknowledged
    <3>1. /\ storeQ # <<>> /\ Head(storeQ).op # "complete"
          /\ storeQ' = Tail(storeQ) /\ held' = held
      BY <2>1
      DEF AcceptRejected, AcceptStale, AcceptAcknowledged, StoreReplied,
          EndCall, consumerVars
    <3>2. claims' \subseteq claims
      BY <1>3, <2>1
      DEF AcceptRejected, AcceptStale, AcceptAcknowledged, clientVars
    <3> QED
      BY <3>1, <3>2, LeakAfterCall
  <2>2. CASE PruneReplied \/ DrainCallFails \/ ListStale
    <3>1. /\ storeQ # <<>> /\ Head(storeQ).op # "complete"
          /\ held' = held /\ claims' = claims
      BY <2>2
      DEF PruneReplied, DrainCallFails, ListStale, StoreReplied,
          consumerVars, clientVars
    <3>2. storeQ' \in {Tail(storeQ), Append(Tail(storeQ), ListCall)}
      BY <2>2
      DEF PruneReplied, DrainCallFails, ListStale, EndCall, CheckCapacity
    <3> QED
      BY <3>1, <3>2, LeakAfterCall
  <2>3. CASE ListReplied
    <3>1. storeQ # <<>> /\ Head(storeQ).op # "complete" /\ storeQ' = Tail(storeQ)
      BY <2>3 DEF ListReplied, StoreReplied, EndCall
    <3>2. Completing \subseteq Completing'
      BY <1>q, <3>1, CompletingKept
    <3>3. PICK D : claims' = claims \cup D /\ held' = held \cup D
      BY <2>3 DEF ListReplied
    <3> QED
      BY <3>2, <3>3 DEF NoLeakedClaim
  <2>4. CASE CompleteReplied \/ CompleteFails
    <3>1. /\ storeQ # <<>> /\ storeQ' = Tail(storeQ)
          /\ claims' = claims \ {Head(storeQ).del} /\ held \subseteq held'
      BY <2>4
      DEF CompleteReplied, CompleteFails, StoreReplied, EndCall, consumerVars
    <3> QED
      BY <1>q, <3>1, CompletingEnds DEF NoLeakedClaim
  <2> QED
    BY <1>7, <2>1, <2>2, <2>3, <2>4 DEF StoreReturns
<1>8. CASE StartAdmission
  <2>1. UNCHANGED <<claims, held>>
    BY <1>8 DEF StartAdmission, clientVars, consumerVars
  <2>2. CASE storeQ' = storeQ
    BY <1>1, <2>1, <2>2
  <2>3. CASE storeQ' = Append(storeQ, AcceptCall)
    BY <1>q, <2>1, <2>3, CompletingBegins, CallTypes, LeakKept
  <2> QED
    BY <1>8, <2>2, <2>3 DEF StartAdmission
<1>9. CASE AcceptAckFails
  BY <1>2, <1>9 DEF AcceptAckFails
<1>10. CASE StartDrain
  <2>1. UNCHANGED <<claims, held>>
    BY <1>10 DEF StartDrain, consumerVars
  <2>2. storeQ' \in {storeQ, Append(storeQ, PruneCall), Append(storeQ, ListCall)}
    BY <1>10 DEF StartDrain, CheckCapacity
  <2>3. CASE storeQ' = storeQ
    BY <1>1, <2>1, <2>3
  <2>4. CASE storeQ' # storeQ
    <3>1. Completing \subseteq Completing'
      BY <1>q, <2>2, <2>4, CompletingBegins, CallTypes
    <3> QED
      BY <2>1, <3>1, LeakKept
  <2> QED
    BY <2>3, <2>4
<1>11. CASE HandlerThrows
  <2>1. storeQ # <<>> /\ Head(storeQ).op # "complete" /\ storeQ' = Tail(storeQ)
    BY <1>11 DEF HandlerThrows, StoreReplied, EndCall
  <2>2. Completing \subseteq Completing'
    BY <1>q, <2>1, CompletingKept
  <2>3. PICK D : claims' = claims \cup D /\ held' = held \cup D
    BY <1>11 DEF HandlerThrows, ClaimsAfterThrow
  <2> QED
    BY <2>2, <2>3 DEF NoLeakedClaim
<1>12. CASE RetryTimerFires
  BY <1>1, <1>12 DEF RetryTimerFires, consumerVars, storeVars
<1>13. CASE \E d \in held : ConsumerAcks(d)
  <2>1. PICK d \in held : ConsumerAcks(d)
    BY <1>13
  <2>2. CompleteCall(d) \in StoreCall /\ CompleteCall(d).op = "complete"
          /\ CompleteCall(d).del = d
    BY CallTypes DEF IInv, TypeOK, ConsumerTypeOK, CompleteCall
  <2>3. Completing \cup {d} \subseteq Completing'
    BY <1>q, <2>1, <2>2, CompletingBegins DEF ConsumerAcks
  <2>4. claims' = claims /\ held' = held \ {d}
    BY <2>1 DEF ConsumerAcks, clientVars
  <2> QED
    BY <2>3, <2>4 DEF NoLeakedClaim
<1>14. CASE UNCHANGED vars
  BY <1>1, <1>14 DEF vars, clientVars, consumerVars, storeVars
<1> QED
  BY <1>4, <1>5, <1>6, <1>7, <1>8, <1>9, <1>10, <1>11, <1>12, <1>13, <1>14
  DEF Next

(* No slot leaks, for every page size and any number of failures: each     *)
(* claim has a delivery the consumer can acknowledge or a completion that  *)
(* will free it.                                                           *)
THEOREM NoSlotLeaks == Spec => []NoLeakedClaim
<1>1. Init => NoLeakedClaim
  BY DEF Init, NoLeakedClaim
<1> QED
  BY <1>1, LeakStep, InductiveInvariant, PTL DEF Spec

-----------------------------------------------------------------------------
(* The order of first exposure *)

(* What is stored or consumed stays so while no row goes.                  *)
LEMMA SafeKept ==
  ASSUME row' = row, consumed \subseteq consumed'
  PROVE  \A e : Safe(e) => Safe(e)'
  BY DEF Safe

LEMMA RowsKept ==
  ASSUME OrderInv, UNCHANGED <<row, times>>
  PROVE  StoredInOrder' /\ FirstExposureInOrder'
  BY DEF OrderInv, StoredInOrder, FirstExposureInOrder

LEMMA SocketKept ==
  ASSUME OrderInv, UNCHANGED <<generation, session, acceptingIncoming, sentTo,
                               arrived, admissionQ>>
  PROVE  SocketOK'
  BY DEF OrderInv, SocketOK

LEMMA QueueKept ==
  ASSUME OrderInv, \A e : Safe(e) => Safe(e)',
         UNCHANGED <<generation, acceptingIncoming, sentTo, admissionQ>>
  PROVE  SentInOrder'
<1>1. \A i : Live(i)' <=> Live(i)
  BY DEF Live
<1> QED
  BY <1>1 DEF OrderInv, SentInOrder

LEMMA HeadKept ==
  ASSUME OrderInv, \A e : Safe(e) => Safe(e)', UNCHANGED <<admissionQ, admissionPc>>
  PROVE  AcceptInOrder'
  BY DEF OrderInv, AcceptInOrder

(* A step that leaves the socket, the admissions and the rows.             *)
LEMMA OrderKept ==
  ASSUME OrderInv, consumed \subseteq consumed',
         UNCHANGED <<generation, session, acceptingIncoming, sentTo, arrived,
                     admissionQ, admissionPc, row, times>>
  PROVE  OrderInv'
  BY SafeKept, RowsKept, SocketKept, QueueKept, HeadKept DEF OrderInv

(* A new generation without a listener: nothing queued is live any more.   *)
LEMMA ConnectionGone ==
  ASSUME IInv, OrderInv, generation' = generation + 1, ~acceptingIncoming',
         session' \in {0, session}, UNCHANGED <<sentTo, arrived>>,
         \/ admissionQ' \in {<<>>, admissionQ}
         \/ admissionQ # <<>> /\ admissionQ' = Tail(admissionQ)
  PROVE  SocketOK' /\ SentInOrder'
<1>1. /\ generation \in Nat /\ session \in Nat /\ session <= generation
      /\ admissionQ \in Seq([env : Envelopes, gen : Nat])
  BY DEF IInv, TypeOK, ClientTypeOK, ServerTypeOK, TaskTypeOK, OrderInv, SocketOK
<1>0. \A i \in 1 .. Len(admissionQ) :
        admissionQ[i].gen \in Nat /\ admissionQ[i].gen <= generation
  <2>1. \A i \in 1 .. Len(admissionQ) : admissionQ[i] \in [env : Envelopes, gen : Nat]
    BY <1>1, ElementOfSeq
  <2> QED
    BY <2>1 DEF OrderInv, SocketOK
<1>2. \A i \in 1 .. Len(admissionQ') :
        admissionQ'[i].gen \in Nat /\ admissionQ'[i].gen <= generation
  <2>1. CASE admissionQ' = <<>>
    BY <2>1
  <2>2. CASE admissionQ' = admissionQ
    BY <1>0, <2>2
  <2>3. CASE admissionQ # <<>> /\ admissionQ' = Tail(admissionQ)
    <3>1. /\ Len(admissionQ) \in Nat \ {0}
          /\ Len(admissionQ') = Len(admissionQ) - 1
          /\ \A i \in 1 .. Len(admissionQ) - 1 : admissionQ'[i] = admissionQ[i + 1]
      BY <1>1, <2>3, TailProps
    <3> QED
      BY <1>0, <3>1
  <2> QED
    BY <2>1, <2>2, <2>3
<1>3. SocketOK'
  BY <1>1, <1>2 DEF OrderInv, SocketOK
<1>4. \A i \in 1 .. Len(admissionQ') : ~Live(i)'
  BY <1>1, <1>2 DEF Live
<1> QED
  BY <1>3, <1>4 DEF SentInOrder

(* An admission ends: what it leaves behind is stored, or its connection   *)
(* has gone.                                                               *)
LEMMA AdmissionEndsInOrder ==
  ASSUME IInv, OrderInv, admissionQ # <<>>, EndAdmission,
         \A e : Safe(e) => Safe(e)',
         UNCHANGED <<generation, session, acceptingIncoming, sentTo, arrived>>,
         AdmissionLive => Safe(Head(admissionQ).env)
  PROVE  SocketOK' /\ SentInOrder' /\ AcceptInOrder'
<1>1. /\ Head(admissionQ) = admissionQ[1]
      /\ Len(admissionQ) \in Nat \ {0}
      /\ Len(admissionQ') = Len(admissionQ) - 1
      /\ \A i \in 1 .. Len(admissionQ) - 1 : admissionQ'[i] = admissionQ[i + 1]
  BY TailProps DEF EndAdmission, IInv, TypeOK, TaskTypeOK
<1>2. SocketOK'
  BY <1>1 DEF OrderInv, SocketOK
<1>3. \A i \in 1 .. Len(admissionQ') :
        i + 1 \in 1 .. Len(admissionQ) /\ (Live(i)' <=> Live(i + 1))
  BY <1>1 DEF Live
<1>4. \A i \in 1 .. Len(admissionQ') : Live(i)' => admissionQ'[i].env <= sentTo'
  BY <1>1, <1>3 DEF OrderInv, SentInOrder
<1>5. \A i, j \in 1 .. Len(admissionQ') :
        Live(i)' /\ Live(j)' /\ i < j => admissionQ'[i].env < admissionQ'[j].env
  BY <1>1, <1>3 DEF OrderInv, SentInOrder
<1>6. ASSUME acceptingIncoming', NEW f \in 1 .. sentTo'
      PROVE  Safe(f)' \/ \E i \in 1 .. Len(admissionQ') :
                           Live(i)' /\ admissionQ'[i].env = f
  <2>1. CASE Safe(f)
    BY <2>1
  <2>2. CASE ~Safe(f)
    <3>1. PICK i \in 1 .. Len(admissionQ) : Live(i) /\ admissionQ[i].env = f
      BY <1>6, <2>2 DEF OrderInv, SentInOrder
    <3>2. i # 1
      BY <1>1, <1>6, <2>2, <3>1 DEF AdmissionLive, Live
    <3>3. i - 1 \in 1 .. Len(admissionQ') /\ admissionQ'[i - 1] = admissionQ[i]
      BY <1>1, <3>1, <3>2
    <3> QED
      BY <3>1, <3>3 DEF Live
  <2> QED
    BY <2>1, <2>2
<1>7. AcceptInOrder'
  BY DEF EndAdmission, AcceptInOrder
<1> QED
  BY <1>2, <1>4, <1>5, <1>6, <1>7 DEF SentInOrder

(* A drain ends, with its admission when that awaits it.                   *)
LEMMA DrainEndsInOrder ==
  ASSUME IInv, OrderInv, drainQ # <<>>, EndDrain,
         UNCHANGED <<generation, session, acceptingIncoming, sentTo, arrived,
                     row, consumed>>
  PROVE  SocketOK' /\ SentInOrder' /\ AcceptInOrder'
<1>s. \A e : Safe(e) => Safe(e)'
  BY SafeKept
<1>1. CASE Head(drainQ).admission
  <2>1. 1 \in AdmissionDrains
    BY <1>1, TailProps DEF AdmissionDrains, IInv, TypeOK, TaskTypeOK
  <2>2. admissionPc = "drain" /\ admissionQ # <<>>
    BY <2>1 DEF IInv, TasksOK, DrainsOK, HeadsOK
  <2> QED
    BY <1>s, <1>1, <2>2, AdmissionEndsInOrder DEF EndDrain, OrderInv, AcceptInOrder
<1>2. CASE ~Head(drainQ).admission
  <2>1. UNCHANGED <<admissionQ, admissionPc>>
    BY <1>2 DEF EndDrain, admissionVars
  <2> QED
    BY <1>s, <2>1, SocketKept, QueueKept, HeadKept
<1> QED
  BY <1>1, <1>2

(* What is queued for admission are envelopes, that is numbers.            *)
LEMMA AdmissionNumbers ==
  ASSUME IInv
  PROVE  \A i \in 1 .. Len(admissionQ) :
           admissionQ[i].env \in Envelopes /\ admissionQ[i].env \in Nat
<1>1. admissionQ \in Seq([env : Envelopes, gen : Nat])
  BY DEF IInv, TypeOK, TaskTypeOK
<1>2. \A i \in 1 .. Len(admissionQ) : admissionQ[i] \in [env : Envelopes, gen : Nat]
  BY <1>1, ElementOfSeq
<1> QED
  BY <1>2 DEF Envelopes

(* The listener queues the next envelope: the ones in between, which the   *)
(* server no longer has, are stored.                                       *)
LEMMA MessageInOrder ==
  ASSUME IInv, OrderInv, NEW e \in Envelopes, onIncomingMessage(e)
  PROVE  OrderInv'
<1>1. /\ UNCHANGED <<generation, session, acceptingIncoming, arrived, row, times,
                      consumed, admissionPc>>
      /\ sentTo' = e /\ e > sentTo /\ e \in retained /\ session # 0
      /\ \A f \in retained : f > sentTo => e <= f
  BY DEF onIncomingMessage, NextToSend, clientVars, inboxVars, consumerVars
<1>2. /\ e \in Nat /\ e \in 1 .. arrived /\ sentTo \in Nat /\ arrived \in Nat
      /\ generation \in Nat /\ session \in Nat
      /\ admissionQ \in Seq([env : Envelopes, gen : Nat])
      /\ Len(admissionQ) \in Nat
  BY <1>1, LenProperties
  DEF Envelopes, IInv, TypeOK, ServerTypeOK, ClientTypeOK, TaskTypeOK
<1>s. \A x : Safe(x) => Safe(x)'
  BY <1>1, SafeKept
<1>3. \A f \in 1 .. e : f = e \/ f \in 1 .. sentTo \/ Safe(f)
  <2> SUFFICES ASSUME NEW f \in 1 .. e, f # e, f > sentTo PROVE Safe(f)
    BY <1>2
  <2>1. f \notin retained /\ f \in 1 .. arrived
    BY <1>1, <1>2
  <2> QED
    BY <2>1 DEF IInv, NoLoss, Safe
<1>4. CASE session = generation /\ acceptingIncoming
  <2> DEFINE a == [env |-> e, gen |-> session]
  <2>1. /\ Len(admissionQ') = Len(admissionQ) + 1
        /\ \A i \in 1 .. Len(admissionQ) : admissionQ'[i] = admissionQ[i]
        /\ admissionQ'[Len(admissionQ) + 1] = a
        /\ admissionQ # <<>> => Head(admissionQ') = Head(admissionQ)
    <3>1. a \in [env : Envelopes, gen : Nat]
      BY <1>2
    <3>2. admissionQ' = Append(admissionQ, a)
      BY <1>4 DEF onIncomingMessage
    <3> QED
      BY <1>2, <3>1, <3>2, AppendProps
  <2>2. \A i \in 1 .. Len(admissionQ') :
          \/ i \in 1 .. Len(admissionQ) /\ admissionQ'[i] = admissionQ[i]
          \/ i = Len(admissionQ) + 1 /\ admissionQ'[i] = a
    BY <1>2, <2>1
  <2>3. \A i \in 1 .. Len(admissionQ) :
          i \in 1 .. Len(admissionQ') /\ (Live(i) <=> Live(i)')
    BY <1>1, <1>2, <2>1 DEF Live
  <2>4. SocketOK'
    BY <1>1, <1>2, <1>4, <2>2 DEF OrderInv, SocketOK
  <2>5. \A i \in 1 .. Len(admissionQ) : admissionQ[i].env \in Nat
    BY AdmissionNumbers
  <2>6. \A i \in 1 .. Len(admissionQ') : Live(i)' => admissionQ'[i].env <= sentTo'
    BY <1>1, <1>2, <2>2, <2>3, <2>5 DEF OrderInv, SentInOrder
  <2>7. ASSUME NEW i \in 1 .. Len(admissionQ'), NEW j \in 1 .. Len(admissionQ'),
               Live(i)', Live(j)', i < j
        PROVE  admissionQ'[i].env < admissionQ'[j].env
    <3>1. i \in 1 .. Len(admissionQ) /\ Live(i) /\ admissionQ'[i] = admissionQ[i]
      BY <1>2, <2>2, <2>3, <2>7
    <3>2. CASE j \in 1 .. Len(admissionQ)
      <4>1. Live(j) /\ admissionQ'[j] = admissionQ[j]
        BY <2>1, <2>3, <2>7, <3>2
      <4>2. admissionQ[i].env < admissionQ[j].env
        BY <2>7, <3>1, <3>2, <4>1 DEF OrderInv, SentInOrder
      <4> QED
        BY <3>1, <4>1, <4>2
    <3>3. CASE j = Len(admissionQ) + 1
      BY <1>1, <1>2, <2>1, <2>5, <3>1, <3>3 DEF OrderInv, SentInOrder
    <3> QED
      BY <2>2, <3>2, <3>3
  <2>8. ASSUME NEW f \in 1 .. sentTo'
        PROVE  Safe(f)' \/ \E i \in 1 .. Len(admissionQ') :
                             Live(i)' /\ admissionQ'[i].env = f
    <3>1. CASE f = e
      <4>1. Len(admissionQ) + 1 \in 1 .. Len(admissionQ')
        BY <1>2, <2>1
      <4> QED
        BY <1>1, <1>4, <2>1, <3>1, <4>1 DEF Live
    <3>2. CASE Safe(f)
      BY <1>s, <3>2
    <3>3. CASE f \in 1 .. sentTo /\ ~Safe(f)
      <4>1. PICK i \in 1 .. Len(admissionQ) : Live(i) /\ admissionQ[i].env = f
        BY <1>4, <3>3 DEF OrderInv, SentInOrder
      <4> QED
        BY <2>1, <2>3, <4>1
    <3> QED
      BY <1>1, <1>3, <3>1, <3>2, <3>3
  <2>9. AcceptInOrder'
    BY <1>1, <1>s, <2>1 DEF OrderInv, AcceptInOrder, IInv, TasksOK, HeadsOK
  <2> QED
    BY <1>1, <2>4, <2>6, <2>7, <2>8, <2>9, RowsKept DEF OrderInv, SentInOrder
<1>5. CASE ~(session = generation /\ acceptingIncoming)
  <2>1. admissionQ' = admissionQ
    BY <1>5 DEF onIncomingMessage
  <2>2. ~acceptingIncoming /\ (session # generation \/ session = 0)
    BY <1>5 DEF OrderInv, SocketOK
  <2>3. SocketOK'
    BY <1>1, <1>2, <2>1 DEF OrderInv, SocketOK
  <2>4. \A i : Live(i)' <=> Live(i)
    BY <1>1, <2>1 DEF Live
  <2>5. \A i \in 1 .. Len(admissionQ) : admissionQ[i].env \in Nat
    BY AdmissionNumbers
  <2>6. SentInOrder'
    BY <1>1, <1>2, <2>1, <2>2, <2>4, <2>5 DEF OrderInv, SentInOrder
  <2> QED
    BY <1>1, <1>s, <2>1, <2>3, <2>6, RowsKept, HeadKept DEF OrderInv
<1> QED
  BY <1>4, <1>5

(* An admission of the live connection starts when all before it is stored.*)
LEMMA AdmissionInOrder == IInv /\ OrderInv /\ StartAdmission => OrderInv'
<1> SUFFICES ASSUME IInv, OrderInv, StartAdmission PROVE OrderInv'
  OBVIOUS
<1>1. /\ UNCHANGED <<generation, session, acceptingIncoming, sentTo, arrived, row,
                      times, consumed>>
      /\ admissionQ # <<>>
  BY DEF StartAdmission, serverVars, clientVars, inboxVars, consumerVars
<1>s. \A x : Safe(x) => Safe(x)'
  BY <1>1, SafeKept
<1>2. CASE ~AdmissionLive
  BY <1>1, <1>s, <1>2, AdmissionEndsInOrder, RowsKept DEF StartAdmission, OrderInv
<1>3. CASE AdmissionLive
  <2>1. admissionQ' = admissionQ /\ admissionPc' = "accept"
    BY <1>3 DEF StartAdmission
  <2>2. /\ admissionQ \in Seq([env : Envelopes, gen : Nat])
        /\ Len(admissionQ) \in Nat \ {0} /\ Head(admissionQ) = admissionQ[1]
        /\ sentTo \in Nat
    BY <1>1, TailProps DEF IInv, TypeOK, TaskTypeOK, ServerTypeOK
  <2>3. \A i \in 1 .. Len(admissionQ) : admissionQ[i].env \in Nat
    BY AdmissionNumbers
  <2>4. Live(1)
    BY <1>3, <2>2 DEF AdmissionLive, Live
  <2>5. ASSUME NEW f \in Envelopes, f < Head(admissionQ).env PROVE Safe(f)
    <3>1. f \in Nat /\ f \in 1 .. sentTo /\ 1 \in 1 .. Len(admissionQ)
      <4>1. 1 \in 1 .. Len(admissionQ)
        BY <2>2
      <4>2. admissionQ[1].env <= sentTo
        BY <2>4, <4>1 DEF OrderInv, SentInOrder
      <4> QED
        BY <2>2, <2>3, <2>5, <4>1, <4>2 DEF Envelopes
    <3>2. ASSUME NEW i \in 1 .. Len(admissionQ), Live(i) PROVE admissionQ[i].env # f
      <4>1. CASE i = 1
        BY <2>2, <2>3, <2>5, <3>1, <4>1
      <4>2. CASE i # 1
        <5>1. 1 < i
          BY <2>2, <4>2
        <5>2. admissionQ[1].env < admissionQ[i].env
          BY <2>4, <3>1, <3>2, <5>1 DEF OrderInv, SentInOrder
        <5> QED
          BY <2>2, <2>3, <2>5, <3>1, <5>2
      <4> QED
        BY <4>1, <4>2
    <3> QED
      BY <1>3, <3>1, <3>2 DEF OrderInv, SentInOrder, AdmissionLive
  <2>6. AcceptInOrder'
    BY <1>s, <2>1, <2>5 DEF AcceptInOrder
  <2> QED
    BY <1>1, <1>s, <2>1, <2>6, SocketKept, QueueKept, RowsKept DEF OrderInv
<1> QED
  BY <1>2, <1>3

(* A new row comes after those of all earlier envelopes.                   *)
LEMMA AcceptKeepsOrder == IInv /\ OrderInv /\ StoreAccept => OrderInv'
<1> SUFFICES ASSUME IInv, OrderInv, StoreAccept PROVE OrderInv'
  OBVIOUS
<1> DEFINE n == Head(admissionQ).env
<1>1. /\ UNCHANGED <<generation, session, acceptingIncoming, sentTo, arrived,
                      admissionQ, admissionPc, times, consumed>>
  BY DEF StoreAccept, serverVars, clientVars, admissionVars, consumerVars
<1>2. n \in Envelopes /\ admissionPc = "accept"
  BY AcceptHasAdmission DEF StoreAccept, NextCall
<1>3. row \in [Envelopes -> 0 .. nextRow - 1] /\ nextRow \in Nat \ {0}
      /\ times \in [Envelopes -> Nat]
  BY DEF IInv, TypeOK, InboxTypeOK, ConsumerTypeOK
<1>4. CASE row[n] # 0
  <2>1. row' = row
    BY <1>4 DEF StoreAccept
  <2> QED
    BY <1>1, <2>1, OrderKept
<1>5. CASE row[n] = 0
  <2>1. row' = [row EXCEPT ![n] = nextRow]
    BY <1>5 DEF StoreAccept
  <2>2. /\ row'[n] = nextRow
        /\ \A f \in Envelopes : f # n => row'[f] = row[f]
        /\ \A f \in Envelopes : row[f] \in Nat /\ row[f] < nextRow
        /\ nextRow # 0
    BY <1>2, <1>3, <2>1
  <2>s. \A x : Safe(x) => Safe(x)'
    <3> SUFFICES ASSUME NEW x, row[x] # 0 PROVE row'[x] # 0
      BY <1>1 DEF Safe
    <3> QED
      BY <1>2, <1>3, <2>1
  <2>3. \A f \in Envelopes : f < n /\ times[f] = 0 => row[f] # 0
    <3>1. \A f \in Envelopes : f < n => Safe(f)
      BY <1>2 DEF OrderInv, AcceptInOrder
    <3>2. \A f \in consumed : times[f] # 0
      BY <1>3 DEF IInv, AcksOK, ExposedSafe
    <3> QED
      BY <3>1, <3>2 DEF Safe
  <2>4. ASSUME NEW e \in Envelopes, NEW f \in Envelopes,
               f < e, row'[e] # 0, times[f] = 0
        PROVE  row'[f] # 0 /\ row'[f] < row'[e]
    <3>0. f # e
      BY <2>4 DEF Envelopes
    <3>1. CASE e = n
      BY <2>2, <2>3, <2>4, <3>0, <3>1
    <3>2. CASE e # n
      <4>1. row[f] # 0 /\ row[f] < row[e]
        BY <2>2, <2>4, <3>2 DEF OrderInv, StoredInOrder
      <4> QED
        BY <1>5, <2>2, <3>2, <4>1
    <3> QED
      BY <3>1, <3>2
  <2>5. StoredInOrder'
    BY <1>1, <2>4 DEF StoredInOrder
  <2>6. FirstExposureInOrder'
    BY <1>1 DEF OrderInv, FirstExposureInOrder
  <2> QED
    BY <1>1, <2>s, <2>5, <2>6, SocketKept, QueueKept, HeadKept DEF OrderInv
<1> QED
  BY <1>4, <1>5

(* A prune removes rows of exposed envelopes only.                         *)
LEMMA PruneKeepsOrder == IInv /\ OrderInv /\ StorePrune => OrderInv'
<1> SUFFICES ASSUME IInv, OrderInv, StorePrune PROVE OrderInv'
  OBVIOUS
<1>1. /\ UNCHANGED <<generation, session, acceptingIncoming, sentTo, arrived,
                      admissionQ, admissionPc, times, consumed>>
  BY DEF StorePrune, serverVars, clientVars, admissionVars, consumerVars
<1>2. /\ row' = [e \in Envelopes |-> IF e \in done \cap aged THEN 0 ELSE row[e]]
      /\ times \in [Envelopes -> Nat]
      /\ row \in [Envelopes -> 0 .. nextRow - 1]
      /\ done \subseteq consumed
      /\ \A e \in consumed : times[e] # 0
  <2>1. times \in [Envelopes -> Nat] /\ row \in [Envelopes -> 0 .. nextRow - 1]
    BY DEF IInv, TypeOK, InboxTypeOK, ConsumerTypeOK
  <2>2. done \subseteq consumed /\ \A e \in consumed : times[e] # 0
    BY <2>1 DEF IInv, AcksOK, CompletedConsumed, ExposedSafe
  <2> QED
    BY <2>1, <2>2 DEF StorePrune
<1>3. \A e \in Envelopes : Safe(e) => Safe(e)'
  BY <1>1, <1>2 DEF Safe
<1>4. StoredInOrder' /\ FirstExposureInOrder'
  BY <1>1, <1>2 DEF OrderInv, StoredInOrder, FirstExposureInOrder
<1>5. SentInOrder' /\ AcceptInOrder'
  <2>1. \A i : Live(i)' <=> Live(i)
    BY <1>1 DEF Live
  <2>2. 1 .. sentTo \subseteq Envelopes
    <3>1. /\ sentTo <= arrived /\ sentTo \in Nat /\ EnvelopeCount \in Nat
          /\ arrived \in 0 .. EnvelopeCount
      BY InboundAssumption
      DEF InboundAssumption, OrderInv, SocketOK, IInv, TypeOK, ServerTypeOK
    <3> QED
      BY <3>1 DEF Envelopes
  <2>3. admissionPc = "drain" => Head(admissionQ).env \in Envelopes
    <3>1. ASSUME admissionPc = "drain" PROVE Head(admissionQ).env \in Envelopes
      <4>1. admissionQ # <<>>
        BY <3>1 DEF IInv, TasksOK, HeadsOK
      <4>2. Head(admissionQ) \in [env : Envelopes, gen : Nat]
        BY <4>1, TailProps DEF IInv, TypeOK, TaskTypeOK
      <4> QED
        BY <4>2
    <3> QED
      BY <3>1
  <2>4. SentInOrder'
    BY <1>1, <1>3, <2>1, <2>2 DEF OrderInv, SentInOrder
  <2> QED
    BY <1>1, <1>3, <2>3, <2>4 DEF OrderInv, AcceptInOrder
<1> QED
  BY <1>1, <1>4, <1>5, SocketKept DEF OrderInv

(* Whatever precedes a listed row is listed with it.                       *)
LEMMA ListedBefore ==
  ASSUME InboxTypeOK, NEW limit \in Nat, NEW e \in Listed(limit),
         NEW f \in Pending, row[f] < row[e]
  PROVE  f \in Listed(limit)
<1> DEFINE Before(x) == {g \in Pending : row[g] < row[x]}
<1>1. \A x \in Envelopes : row[x] \in Nat
  BY DEF InboxTypeOK
<1>2. IsFiniteSet(Before(e))
  <2>1. IsFiniteSet(1 .. EnvelopeCount)
    BY FS_Interval, InboundAssumption DEF InboundAssumption
  <2>2. Before(e) \subseteq 1 .. EnvelopeCount
    BY DEF Pending, Envelopes
  <2> QED
    BY <2>1, <2>2, FS_Subset
<1>3. Before(f) \subseteq Before(e)
  BY <1>1 DEF Pending, Listed
<1>4. IsFiniteSet(Before(f)) /\ Cardinality(Before(f)) <= Cardinality(Before(e))
  BY <1>2, <1>3, FS_Subset
<1>5. Cardinality(Before(f)) \in Nat /\ Cardinality(Before(e)) \in Nat
  BY <1>2, <1>4, FS_CardinalityType
<1>6. Cardinality(Before(e)) < limit
  BY DEF Listed
<1> QED
  BY <1>4, <1>5, <1>6 DEF Listed

(* A drain exposes nothing before what precedes it: an earlier envelope    *)
(* that was never exposed has an earlier row, is pending and is unclaimed. *)
LEMMA ExposedInOrder ==
  ASSUME IInv, NoLeakedClaim, OrderInv, StoreReplied("list", "ok"),
         NEW E \in SUBSET Fresh, IsExposed(E), CountExposures(E), row' = row
  PROVE  StoredInOrder' /\ FirstExposureInOrder'
<1>1. /\ times \in [Envelopes -> Nat] /\ page = Listed(MaxActiveDeliveries)
      /\ InboxTypeOK /\ MaxActiveDeliveries \in Nat
  BY InboundAssumption
  DEF InboundAssumption, IInv, TypeOK, ConsumerTypeOK, PageOK
<1>2. times' = [e \in Envelopes |-> IF e \in E THEN times[e] + 1 ELSE times[e]]
  BY DEF CountExposures
<1>3. \A e \in Envelopes : /\ times'[e] = 0 => times[e] = 0
                           /\ times'[e] > 0 <=> times[e] > 0 \/ e \in E
                           /\ times[e] \in Nat
  BY <1>1, <1>2
<1>4. StoredInOrder'
  BY <1>3 DEF OrderInv, StoredInOrder
<1>5. \A f \in consumed : times[f] > 0
  BY DEF IInv, AcksOK, ExposedSafe
<1>6. \A f \in Claimed : times[f] > 0
  <2> SUFFICES ASSUME NEW d \in claims PROVE times[d.env] > 0
    BY DEF Claimed
  <2>1. CASE d \in held
    BY <2>1 DEF IInv, AcksOK, ExposedSafe
  <2>2. CASE d \in Completing
    <3>1. PICK i \in DOMAIN storeQ : storeQ[i].op = "complete" /\ d = storeQ[i].del
      BY <2>2 DEF Completing
    <3>2. i \in Calls("complete")
      BY <3>1 DEF Calls, IInv, TypeOK, TaskTypeOK
    <3> QED
      BY <1>5, <3>1, <3>2 DEF IInv, AcksOK, CompletedConsumed
  <2> QED
    BY <2>1, <2>2 DEF NoLeakedClaim
<1>7. ASSUME NEW e \in E, NEW f \in Envelopes, f < e, times[f] = 0 PROVE f \in E
  <2>1. e \in Pending /\ e \in page /\ e \in Envelopes
    BY <1>1 DEF Fresh, Listed, Pending
  <2>2. row[f] # 0 /\ row[f] < row[e]
    BY <1>7, <2>1 DEF OrderInv, StoredInOrder, Pending
  <2>3. f \in Pending
    BY <1>5, <1>7, <2>2 DEF Pending, IInv, AcksOK, CompletedConsumed
  <2>4. f \in Fresh
    BY <1>1, <1>6, <1>7, <2>1, <2>2, <2>3, ListedBefore DEF Fresh
  <2> QED
    BY <2>2, <2>4 DEF IsExposed
<1>8. FirstExposureInOrder'
  <2> SUFFICES ASSUME NEW e \in Envelopes, NEW f \in Envelopes,
                      f < e, times'[e] > 0
               PROVE  times'[f] > 0
    BY DEF FirstExposureInOrder
  <2>1. CASE times[e] > 0
    BY <1>3, <2>1 DEF OrderInv, FirstExposureInOrder
  <2>2. CASE e \in E
    BY <1>3, <1>7, <2>2
  <2> QED
    BY <1>3, <2>1, <2>2
<1> QED
  BY <1>4, <1>8

LEMMA OrderStep == IInv /\ NoLeakedClaim /\ OrderInv /\ [Next]_vars => OrderInv'
<1> SUFFICES ASSUME IInv, NoLeakedClaim, OrderInv, [Next]_vars PROVE OrderInv'
  OBVIOUS
<1>d. ASSUME NEW op \in {"prune", "list"}, NEW pc, StoreReplied(op, pc)
      PROVE  drainQ # <<>>
  <2>1. storeQ # <<>> /\ Head(storeQ).op = op
    BY <1>d DEF StoreReplied
  <2>2. 1 \in Calls(op)
    BY <2>1, TailProps DEF Calls, IInv, TypeOK, TaskTypeOK
  <2> QED
    BY <2>2 DEF IInv, TasksOK, CallsOK, HeadsOK
<1>1. CASE ServerStep
  <2>1. CASE Arrive
    <3>1. SocketOK'
      <4>1. sentTo \in Nat /\ arrived \in Nat
        BY InboundAssumption
        DEF InboundAssumption, IInv, TypeOK, ServerTypeOK
      <4> QED
        BY <2>1, <4>1 DEF Arrive, clientVars, admissionVars, OrderInv, SocketOK
    <3> QED
      BY <2>1, <3>1, SafeKept, RowsKept, QueueKept, HeadKept
      DEF Arrive, inboxVars, clientVars, admissionVars, consumerVars, OrderInv
  <2>2. CASE ServerReceivesAck \/ TimePasses
    BY <2>2, OrderKept
    DEF ServerReceivesAck, TimePasses, serverVars, inboxVars, clientVars,
        admissionVars, consumerVars
  <2>3. CASE SocketClosed
    <3>1. SocketOK'
      <4>1. generation \in Nat
        BY DEF IInv, TypeOK, ClientTypeOK
      <4> QED
        BY <2>3, <4>1 DEF SocketClosed, clientVars, admissionVars, OrderInv, SocketOK
    <3> QED
      BY <2>3, <3>1, SafeKept, RowsKept, QueueKept, HeadKept
      DEF SocketClosed, inboxVars, clientVars, admissionVars, consumerVars,
          OrderInv
  <2> QED
    BY <1>1, <2>1, <2>2, <2>3 DEF ServerStep
<1>2. CASE ConnectionStep
  <2>1. CASE Connect
    <3>1. /\ generation' = generation + 1 /\ session' = generation + 1
          /\ acceptingIncoming' /\ sentTo' = 0 /\ generation \in Nat
          /\ UNCHANGED <<arrived, admissionQ, admissionPc, row, times, consumed>>
      BY <2>1
      DEF Connect, inboxVars, admissionVars, consumerVars, IInv, TypeOK, ClientTypeOK
    <3>2. /\ arrived \in Nat
          /\ \A i \in 1 .. Len(admissionQ) :
               admissionQ[i].gen \in Nat /\ admissionQ[i].gen <= generation
      <4>1. admissionQ \in Seq([env : Envelopes, gen : Nat]) /\ arrived \in Nat
        BY InboundAssumption
        DEF InboundAssumption, IInv, TypeOK, TaskTypeOK, ServerTypeOK
      <4>2. \A i \in 1 .. Len(admissionQ) :
              admissionQ[i] \in [env : Envelopes, gen : Nat]
        BY <4>1, ElementOfSeq
      <4> QED
        BY <4>1, <4>2 DEF OrderInv, SocketOK
    <3>3. SocketOK'
      BY <3>1, <3>2 DEF SocketOK
    <3>4. \A i \in 1 .. Len(admissionQ') : ~Live(i)'
      BY <3>1, <3>2 DEF Live
    <3>5. SentInOrder'
      BY <3>1, <3>4 DEF SentInOrder
    <3> QED
      BY <3>1, <3>3, <3>5, SafeKept, RowsKept, HeadKept DEF OrderInv
  <2>2. CASE startIncomingDelivery \/ onQueueEmpty
    BY <2>2, OrderKept
    DEF startIncomingDelivery, onQueueEmpty, serverVars, inboxVars,
        admissionVars, consumerVars
  <2>3. CASE disconnect \/ onConnectionInterrupted
    <3>1. Invalidate
      BY <2>3 DEF disconnect, onConnectionInterrupted, handleDeadConnection
    <3>2. /\ session' \in {0, session}
          /\ UNCHANGED <<sentTo, arrived, row, times, consumed, admissionQ,
                          admissionPc>>
      BY <2>3
      DEF disconnect, onConnectionInterrupted, serverVars, inboxVars,
          admissionVars, consumerVars
    <3> QED
      BY <3>1, <3>2, ConnectionGone, SafeKept, RowsKept, HeadKept
      DEF Invalidate, OrderInv
  <2>4. CASE Crash
    <3>1. SocketOK' /\ SentInOrder'
      BY <2>4, ConnectionGone DEF Crash
    <3>2. AcceptInOrder'
      BY <2>4 DEF Crash, AcceptInOrder
    <3> QED
      BY <2>4, <3>1, <3>2, RowsKept DEF Crash, inboxVars, OrderInv
  <2>5. CASE \E e \in Envelopes : onIncomingMessage(e)
    BY <2>5, MessageInOrder
  <2> QED
    BY <1>2, <2>1, <2>2, <2>3, <2>4, <2>5 DEF ConnectionStep
<1>3. CASE StoreWorks \/ StoreFails
  <2>1. CASE StoreComplete \/ StoreList \/ StoreFails
    BY <2>1, OrderKept
    DEF StoreComplete, StoreList, StoreFails, serverVars, inboxVars, clientVars,
        admissionVars, consumerVars
  <2> QED
    BY <1>3, <2>1, AcceptKeepsOrder, PruneKeepsOrder DEF StoreWorks
<1>4. CASE StoreReturns
  <2>1. CASE AcceptRejected
    <3>1. /\ UNCHANGED <<session, sentTo, arrived, row, times, consumed>>
          /\ EndAdmission /\ admissionQ # <<>> /\ Head(admissionQ).gen \in Nat
      BY <2>1, AcceptHasAdmission
      DEF AcceptRejected, StoreReplied, serverVars, inboxVars, consumerVars
    <3>2. CASE Head(admissionQ).gen = generation
      <4>1. Invalidate
        BY <2>1, <3>2 DEF AcceptRejected, handleDeadConnection
      <4>2. SocketOK' /\ SentInOrder'
        BY <3>1, <4>1, ConnectionGone DEF Invalidate, EndAdmission
      <4>3. AcceptInOrder'
        BY <3>1 DEF EndAdmission, AcceptInOrder
      <4> QED
        BY <3>1, <4>2, <4>3, RowsKept DEF OrderInv
    <3>3. CASE Head(admissionQ).gen # generation
      <4>1. UNCHANGED <<generation, acceptingIncoming>> /\ ~AdmissionLive
        BY <2>1, <3>3
        DEF AcceptRejected, handleDeadConnection, clientVars, AdmissionLive
      <4> QED
        BY <3>1, <4>1, SafeKept, AdmissionEndsInOrder, RowsKept DEF OrderInv
    <3> QED
      BY <3>2, <3>3
  <2>2. CASE AcceptStale
    <3>1. /\ UNCHANGED <<generation, acceptingIncoming, session, sentTo, arrived,
                          row, times, consumed>>
          /\ EndAdmission /\ admissionQ # <<>> /\ ~AdmissionLive
      BY <2>2, AcceptHasAdmission
      DEF AcceptStale, StoreReplied, serverVars, inboxVars, clientVars,
          consumerVars
    <3> QED
      BY <3>1, SafeKept, AdmissionEndsInOrder, RowsKept DEF OrderInv
  <2>3. CASE AcceptAcknowledged
    <3>1. /\ UNCHANGED <<generation, acceptingIncoming, session, sentTo, arrived,
                          row, times, consumed>>
          /\ admissionQ # <<>> /\ Safe(Head(admissionQ).env)
          /\ \/ EndAdmission
             \/ admissionPc' = "drain" /\ UNCHANGED admissionQ
      BY <2>3, AcceptHasAdmission
      DEF AcceptAcknowledged, StoreReplied, inboxVars, clientVars, consumerVars,
          IInv, AcksOK, AcksSafe
    <3>s. \A x : Safe(x) => Safe(x)'
      BY <3>1, SafeKept
    <3>2. CASE EndAdmission
      BY <3>1, <3>s, <3>2, AdmissionEndsInOrder, RowsKept DEF OrderInv
    <3>3. CASE admissionPc' = "drain" /\ UNCHANGED admissionQ
      <4>1. AcceptInOrder'
        BY <3>1, <3>s, <3>3 DEF AcceptInOrder
      <4> QED
        BY <3>1, <3>s, <3>3, <4>1, SocketKept, QueueKept, RowsKept DEF OrderInv
    <3> QED
      BY <3>1, <3>2, <3>3
  <2>4. CASE PruneReplied \/ DrainCallFails \/ ListStale
    <3>1. /\ UNCHANGED <<generation, acceptingIncoming, session, sentTo, arrived,
                          row, times, consumed>>
          /\ EndDrain \/ UNCHANGED admissionVars
          /\ drainQ # <<>>
      BY <1>d, <2>4
      DEF PruneReplied, DrainCallFails, ListStale, CheckCapacity, serverVars,
          inboxVars, clientVars, consumerVars
    <3>2. CASE EndDrain
      BY <3>1, <3>2, DrainEndsInOrder, RowsKept DEF OrderInv
    <3>3. CASE UNCHANGED admissionVars
      BY <3>1, <3>3, OrderKept DEF admissionVars
    <3> QED
      BY <3>1, <3>2, <3>3
  <2>5. CASE ListReplied
    <3>1. /\ UNCHANGED <<generation, acceptingIncoming, session, sentTo, arrived,
                          row, consumed>>
          /\ EndDrain /\ drainQ # <<>> /\ StoreReplied("list", "ok")
      BY <1>d, <2>5 DEF ListReplied, serverVars, inboxVars
    <3>2. StoredInOrder' /\ FirstExposureInOrder'
      BY <2>5, <3>1, ExposedInOrder DEF ListReplied
    <3> QED
      BY <3>1, <3>2, DrainEndsInOrder DEF OrderInv
  <2>6. CASE CompleteReplied \/ CompleteFails
    BY <2>6, OrderKept
    DEF CompleteReplied, CompleteFails, serverVars, inboxVars, admissionVars,
        consumerVars
  <2> QED
    BY <1>4, <2>1, <2>2, <2>3, <2>4, <2>5, <2>6 DEF StoreReturns
<1>5. CASE StartAdmission
  BY <1>5, AdmissionInOrder
<1>6. CASE AcceptAckFails
  <2>1. /\ UNCHANGED <<session, sentTo, arrived, row, times, consumed>>
        /\ Invalidate /\ EndAdmission /\ admissionQ # <<>>
    BY <1>6, AcceptHasAdmission
    DEF AcceptAckFails, StoreReplied, serverVars, inboxVars, consumerVars
  <2>2. SocketOK' /\ SentInOrder'
    BY <2>1, ConnectionGone DEF Invalidate, EndAdmission
  <2>3. AcceptInOrder'
    BY <2>1 DEF EndAdmission, AcceptInOrder
  <2> QED
    BY <2>1, <2>2, <2>3, RowsKept DEF OrderInv
<1>7. CASE StartDrain
  <2>1. /\ UNCHANGED <<generation, acceptingIncoming, session, sentTo, arrived,
                        row, times, consumed>>
        /\ EndDrain \/ UNCHANGED admissionVars
        /\ drainQ # <<>>
    BY <1>7
    DEF StartDrain, CheckCapacity, serverVars, inboxVars, consumerVars
  <2>2. CASE EndDrain
    BY <2>1, <2>2, DrainEndsInOrder, RowsKept DEF OrderInv
  <2>3. CASE UNCHANGED admissionVars
    BY <2>1, <2>3, OrderKept DEF admissionVars
  <2> QED
    BY <2>1, <2>2, <2>3
<1>8. CASE HandlerThrows
  <2>1. /\ UNCHANGED <<generation, acceptingIncoming, session, sentTo, arrived,
                        row, consumed>>
        /\ EndDrain /\ drainQ # <<>> /\ StoreReplied("list", "ok")
    BY <1>d, <1>8 DEF HandlerThrows, serverVars, inboxVars
  <2>2. StoredInOrder' /\ FirstExposureInOrder'
    BY <1>8, <2>1, ExposedInOrder DEF HandlerThrows
  <2> QED
    BY <2>1, <2>2, DrainEndsInOrder DEF OrderInv
<1>9. CASE RetryTimerFires \/ \E d \in held : ConsumerAcks(d)
  BY <1>9, OrderKept
  DEF RetryTimerFires, ConsumerAcks, serverVars, inboxVars, clientVars,
      admissionVars, consumerVars
<1>10. CASE UNCHANGED vars
  BY <1>10, OrderKept
  DEF vars, serverVars, inboxVars, clientVars, admissionVars, consumerVars
<1> QED
  BY <1>1, <1>2, <1>3, <1>4, <1>5, <1>6, <1>7, <1>8, <1>9, <1>10 DEF Next

LEMMA OrderInvariant == Spec => []OrderInv
<1>1. Init => OrderInv
  BY DEF Init, OrderInv, SocketOK, SentInOrder, AcceptInOrder, StoredInOrder,
         FirstExposureInOrder
<1> QED
  BY <1>1, OrderStep, InductiveInvariant, NoSlotLeaks, PTL DEF Spec

(* No envelope is first shown before an earlier one, for any number of     *)
(* envelopes, whatever fails, however often the client reconnects or dies. *)
THEOREM ExposureInOrder == Spec => []FirstExposureInOrder
<1>1. OrderInv => FirstExposureInOrder
  BY DEF OrderInv
<1> QED
  BY <1>1, OrderInvariant, PTL

-----------------------------------------------------------------------------
(* What the application and the server see: the implementation of          *)
(* AtLeastOnceDelivery and exactly one exposure when nothing fails.  What  *)
(* the client has not stored is still with the server, what it exposes is  *)
(* stored, what it completes was exposed.                                  *)

Stored  == {e \in Envelopes : row[e] # 0} \cup consumed
Exposed == {e \in Envelopes : times[e] > 0}

promiseVars == <<arrived, retained, row, consumed, times>>

(* A step that leaves the five variables alone is a stutter.               *)
LEMMA PromiseStutter == UNCHANGED promiseVars => UNCHANGED Promise!vars
  BY DEF promiseVars, Promise!vars

LEMMA PromiseInit == Init => Promise!Init
  BY DEF Init, Promise!Init

LEMMA SafeStored ==
  IInv => \A e \in Envelopes : Safe(e) <=> e \in Stored
  BY DEF Safe, Stored

LEMMA ArrivePromise == IInv /\ Arrive => Promise!Arrive
  BY DEF Arrive, Promise!Arrive, inboxVars, consumerVars

LEMMA AckPromise ==
  IInv /\ ServerReceivesAck => [Promise!Next]_(Promise!vars)
<1> SUFFICES ASSUME IInv, ServerReceivesAck
             PROVE  [Promise!Next]_(Promise!vars)
  OBVIOUS
<1>1. PICK e \in ackWire : retained' = retained \ {e}
  BY DEF ServerReceivesAck
<1>2. UNCHANGED <<arrived, row, consumed, times>>
  BY DEF ServerReceivesAck, inboxVars, consumerVars
<1>3. e \in Envelopes /\ e \in Stored
  BY SafeStored DEF IInv, TypeOK, ServerTypeOK, AcksOK, AcksSafe
<1>4. CASE e \in retained
  <2>1. Promise!Discard(e)
    BY <1>1, <1>2, <1>3, <1>4 DEF Promise!Discard, Stored
  <2> QED
    BY <1>3, <2>1 DEF Promise!Next, Promise!Envelopes, Envelopes
<1>5. CASE e \notin retained
  BY <1>1, <1>2, <1>5, PromiseStutter DEF promiseVars
<1> QED
  BY <1>4, <1>5

(* The row of an envelope that is neither stored nor consumed is new, and  *)
(* the server still has the envelope.                                      *)
LEMMA AcceptPromise == IInv /\ StoreAccept => [Promise!Next]_(Promise!vars)
<1> SUFFICES ASSUME IInv, StoreAccept PROVE [Promise!Next]_(Promise!vars)
  OBVIOUS
<1>1. UNCHANGED <<arrived, retained, consumed, times>>
  BY DEF StoreAccept, serverVars, consumerVars
<1>2. PICK e \in Envelopes : e = Head(admissionQ).env /\ e \in 1 .. arrived
  BY AcceptHasAdmission DEF StoreAccept, NextCall
<1>3. CASE row[e] # 0
  BY <1>1, <1>2, <1>3, PromiseStutter DEF StoreAccept, promiseVars
<1>4. CASE row[e] = 0
  <2>1. row' = [row EXCEPT ![e] = nextRow] /\ nextRow # 0
    BY <1>2, <1>4 DEF StoreAccept, IInv, TypeOK, InboxTypeOK
  <2>2. row \in [Envelopes -> 0 .. nextRow - 1]
    BY DEF IInv, TypeOK, InboxTypeOK
  <2>3. Stored' = Stored \cup {e}
    BY <1>1, <1>2, <2>1, <2>2 DEF Stored
  <2>4. CASE e \in retained
    <3>1. Promise!Store(e)
      BY <1>1, <2>3, <2>4 DEF Promise!Store, Stored
    <3> QED
      BY <1>2, <3>1 DEF Promise!Next, Promise!Envelopes, Envelopes
  <2>5. CASE e \notin retained
    <3>1. e \in Stored
      BY <1>2, <1>4, <2>5 DEF IInv, NoLoss, Stored
    <3>2. Stored' = Stored
      BY <2>3, <3>1
    <3> QED
      BY <1>1, <3>2 DEF Promise!vars, Stored
  <2> QED
    BY <2>4, <2>5
<1> QED
  BY <1>3, <1>4

(* What a prune removes was consumed.                                      *)
LEMMA PrunePromise == IInv /\ StorePrune => UNCHANGED Promise!vars
<1> SUFFICES ASSUME IInv, StorePrune PROVE UNCHANGED Promise!vars
  OBVIOUS
<1>1. UNCHANGED <<arrived, retained, consumed, times>>
  BY DEF StorePrune, serverVars, consumerVars
<1>2. Stored' = Stored
  BY <1>1 DEF StorePrune, Stored, IInv, AcksOK, CompletedConsumed
<1> QED
  BY <1>1, <1>2 DEF Promise!vars, Stored

LEMMA ExposurePromise ==
  ASSUME IInv, StoreReplied("list", "ok"), NEW E \in SUBSET Fresh,
         CountExposures(E), UNCHANGED <<arrived, retained, row, consumed>>
  PROVE  Promise!Next
<1>1. E \subseteq Envelopes /\ E \subseteq Stored
  BY DEF Fresh, IInv, PageOK, Listed, Pending, Stored
<1>2. \A e \in Envelopes : times[e] \in Nat
  BY DEF IInv, TypeOK, ConsumerTypeOK
<1>3. \A e \in Envelopes : times'[e] > 0 <=> times[e] > 0 \/ e \in E
  BY <1>2 DEF CountExposures
<1>4. Exposed' = Exposed \cup E
  BY <1>1, <1>3 DEF Exposed
<1>5. Promise!Expose(E)
  BY <1>1, <1>4 DEF Promise!Expose, Stored, Exposed
<1> QED
  BY <1>1, <1>5 DEF Promise!Next, Promise!Envelopes, Envelopes

LEMMA ConsumePromise ==
  ASSUME IInv, NEW d \in held, ConsumerAcks(d)
  PROVE  Promise!Next
<1>1. /\ UNCHANGED <<arrived, retained, row, times>>
      /\ consumed' = consumed \cup {d.env}
  BY DEF ConsumerAcks, serverVars, inboxVars
<1>2. d.env \in Envelopes /\ d.env \in Exposed /\ d.env \in Stored
  BY SafeStored
  DEF IInv, TypeOK, ConsumerTypeOK, Delivery, AcksOK, ExposedSafe, Exposed
<1>3. Stored' = Stored
  BY <1>1, <1>2 DEF Stored
<1>4. Promise!Consume(d.env)
  BY <1>1, <1>2, <1>3 DEF Promise!Consume, Stored, Exposed
<1> QED
  BY <1>2, <1>4 DEF Promise!Next, Promise!Envelopes, Envelopes

LEMMA PromiseStep == IInv /\ [Next]_vars => [Promise!Next]_(Promise!vars)
<1> SUFFICES ASSUME IInv, [Next]_vars PROVE [Promise!Next]_(Promise!vars)
  OBVIOUS
<1>1. CASE ServerStep
  <2>1. CASE SocketClosed \/ TimePasses
    BY <2>1, PromiseStutter
    DEF SocketClosed, TimePasses, promiseVars, serverVars, inboxVars,
        consumerVars
  <2> QED
    BY <1>1, <2>1, ArrivePromise, AckPromise DEF ServerStep, Promise!Next
<1>2. CASE ConnectionStep
  BY <1>2, PromiseStutter
  DEF ConnectionStep, Connect, startIncomingDelivery, disconnect,
      onConnectionInterrupted, onQueueEmpty, Crash, onIncomingMessage,
      promiseVars, serverVars, inboxVars, consumerVars
<1>3. CASE StoreWorks \/ StoreFails
  <2>1. CASE StoreComplete \/ StoreList \/ StoreFails
    BY <2>1, PromiseStutter
    DEF StoreComplete, StoreList, StoreFails, promiseVars, serverVars,
        inboxVars, consumerVars
  <2> QED
    BY <1>3, <2>1, AcceptPromise, PrunePromise DEF StoreWorks
<1>4. CASE StoreReturns
  <2>1. CASE ListReplied
    BY <2>1, ExposurePromise DEF ListReplied, serverVars, inboxVars
  <2>2. CASE ~ListReplied
    BY <1>4, <2>2, PromiseStutter
    DEF StoreReturns, AcceptRejected, AcceptStale, AcceptAcknowledged,
        PruneReplied, DrainCallFails, ListStale, CompleteReplied,
        CompleteFails, promiseVars, serverVars, inboxVars, consumerVars
  <2> QED
    BY <2>1, <2>2
<1>5. CASE StartAdmission \/ AcceptAckFails \/ StartDrain \/ RetryTimerFires
  BY <1>5, PromiseStutter
  DEF StartAdmission, AcceptAckFails, StartDrain, RetryTimerFires,
      promiseVars, serverVars, inboxVars, consumerVars
<1>6. CASE HandlerThrows
  BY <1>6, ExposurePromise DEF HandlerThrows, serverVars, inboxVars
<1>7. CASE \E d \in held : ConsumerAcks(d)
  BY <1>7, ConsumePromise
<1>8. CASE UNCHANGED vars
  BY <1>8, PromiseStutter
  DEF vars, promiseVars, serverVars, inboxVars, consumerVars
<1> QED
  BY <1>1, <1>2, <1>3, <1>4, <1>5, <1>6, <1>7, <1>8 DEF Next

(* Every behaviour of the client, its store and its connection is one of   *)
(* the abstract at-least-once delivery.                                    *)
THEOREM Refinement == Spec => ImplementsPromise
  BY PromiseInit, PromiseStep, InductiveInvariant, PTL
  DEF Spec, ImplementsPromise, Promise!Spec

-----------------------------------------------------------------------------
(* A row on the page was pending when the page was read, and no call of    *)
(* the store comes between that and the loop that exposes it.              *)
LEMMA ExposedPending ==
  ASSUME IInv, StoreReplied("list", "ok"), NEW E \in SUBSET Fresh,
         CountExposures(E)
  PROVE  \A e \in Envelopes : times'[e] > times[e] => e \notin done
<1>1. E \subseteq Pending
  BY DEF Fresh, IInv, PageOK, Listed
<1>2. \A e \in Envelopes : times[e] \in Nat
  BY DEF IInv, TypeOK, ConsumerTypeOK
<1>3. \A e \in Envelopes : times'[e] > times[e] => e \in E
  BY <1>2 DEF CountExposures
<1> QED
  BY <1>1, <1>3 DEF Pending

LEMMA ExposureStep ==
  IInv /\ [Next]_vars =>
    [\A e \in Envelopes : times'[e] > times[e] => e \notin done]_vars
<1> SUFFICES ASSUME IInv, Next, NEW e \in Envelopes, times'[e] > times[e]
             PROVE  e \notin done
  OBVIOUS
<1>1. times[e] \in Nat
  BY DEF IInv, TypeOK, ConsumerTypeOK
<1>2. times' # times
  BY <1>1
<1>3. ListReplied \/ HandlerThrows
  BY <1>2
  DEF Next, ServerStep, Arrive, ServerReceivesAck, SocketClosed, TimePasses,
      ConnectionStep, Connect, startIncomingDelivery, disconnect,
      onConnectionInterrupted, onQueueEmpty, Crash, onIncomingMessage,
      StoreWorks, StoreAccept, StoreComplete, StorePrune, StoreList,
      StoreFails, StoreReturns, AcceptRejected, AcceptStale,
      AcceptAcknowledged, PruneReplied, DrainCallFails, ListStale,
      CompleteReplied, CompleteFails, StartAdmission, AcceptAckFails,
      StartDrain, RetryTimerFires, ConsumerAcks, consumerVars
<1> QED
  BY <1>3, ExposedPending DEF ListReplied, HandlerThrows

(* No completed envelope is shown to the consumer again, not even one that *)
(* the ack of an earlier connection completes during a drain.              *)
THEOREM CompletedStaysHidden == Spec => NeverExposeCompleted
  BY ExposureStep, InductiveInvariant, PTL DEF Spec, NeverExposeCompleted

-----------------------------------------------------------------------------
(* Exactly once without faults *)

(* The calls left when the head call ends, and may be followed by a list.  *)
LEMMA QueueAdvances ==
  ASSUME storeQ \in Seq(StoreCall), storeQ # <<>>,
         storeQ' \in {Tail(storeQ), Append(Tail(storeQ), ListCall)}
  PROVE  /\ storeQ' \in Seq(StoreCall)
         /\ \A i \in Calls("complete")' :
              /\ i + 1 \in Calls("complete") /\ i + 1 # 1 /\ i \in Nat
              /\ storeQ'[i] = storeQ[i + 1]
<1>1. CASE storeQ' = Tail(storeQ)
  BY <1>1, CallEnds DEF Calls
<1>2. CASE storeQ' = Append(Tail(storeQ), ListCall)
  <2>1. /\ storeQ' \in Seq(StoreCall)
        /\ Len(storeQ) \in Nat \ {0}
        /\ Len(storeQ') = Len(storeQ)
        /\ \A i \in 1 .. Len(storeQ) - 1 : storeQ'[i] = storeQ[i + 1]
        /\ storeQ'[Len(storeQ)] = ListCall
    BY <1>2, TailProps, ReplaceProps, CallTypes
  <2>2. ListCall.op # "complete"
    BY DEF ListCall
  <2> QED
    BY <2>1, <2>2 DEF Calls
<1> QED
  BY <1>1, <1>2

LEMMA CompletingCalls ==
  ASSUME storeQ \in Seq(StoreCall)
  PROVE  \A d : d \in Completing <=> \E i \in Calls("complete") : storeQ[i].del = d
  BY DEF Completing, Calls

LEMMA CompletingCallsNext ==
  ASSUME storeQ' \in Seq(StoreCall)
  PROVE  \A d \in Completing' : \E i \in Calls("complete")' : storeQ'[i].del = d
  BY DEF Completing, Calls

(* What arrives once still does when nothing of it changes.                *)
LEMMA ArrivesKept ==
  ASSUME IInv, ArrivesOnce, storePc' # "failed", Written => Written',
         \A e \in Envelopes : Unseen(e) => Unseen(e)',
         UNCHANGED <<generation, acceptingIncoming, session, sentTo, admissionQ>>
  PROVE  ArrivesOnce'
  BY AdmissionNumbers DEF ArrivesOnce, Live

(* The head admission ends: the others are still to be written.            *)
LEMMA ArrivesShifted ==
  ASSUME IInv, ArrivesOnce, storePc' # "failed", admissionQ # <<>>, EndAdmission,
         \A e \in Envelopes : Unseen(e) => Unseen(e)',
         UNCHANGED <<generation, acceptingIncoming, session, sentTo>>
  PROVE  ArrivesOnce'
<1>1. /\ Len(admissionQ) \in Nat \ {0}
      /\ Len(admissionQ') = Len(admissionQ) - 1
      /\ \A i \in 1 .. Len(admissionQ) - 1 : admissionQ'[i] = admissionQ[i + 1]
  BY TailProps DEF EndAdmission, IInv, TypeOK, TaskTypeOK
<1>2. ASSUME NEW i \in 1 .. Len(admissionQ')
      PROVE  /\ row'[admissionQ'[i].env] = 0 /\ times'[admissionQ'[i].env] = 0
             /\ admissionQ'[i].gen = generation
  <2>1. i + 1 \in 1 .. Len(admissionQ) /\ i + 1 # 1 /\ admissionQ'[i] = admissionQ[i + 1]
    BY <1>1
  <2>2. Unseen(admissionQ[i + 1].env) /\ admissionQ[i + 1].env \in Envelopes
    BY <2>1, AdmissionNumbers DEF ArrivesOnce
  <2> QED
    BY <2>1, <2>2 DEF Unseen, ArrivesOnce, Live
<1>3. \A e \in Envelopes : e > sentTo' => Unseen(e)'
  BY DEF ArrivesOnce
<1>4. acceptingIncoming
  BY DEF ArrivesOnce
<1> QED
  BY <1>2, <1>3, <1>4 DEF ArrivesOnce, Unseen, Live

(* A drain ends, with its admission when that awaits it.                   *)
LEMMA ArrivesAfterDrain ==
  ASSUME IInv, ArrivesOnce, storePc' # "failed", drainQ # <<>>, EndDrain,
         StoreReplied("accept", "ok") => StoreReplied("accept", "ok")',
         \A e \in Envelopes : Unseen(e) => Unseen(e)',
         UNCHANGED <<generation, acceptingIncoming, session, sentTo>>
  PROVE  ArrivesOnce'
<1>1. CASE Head(drainQ).admission
  <2>1. 1 \in AdmissionDrains
    BY <1>1, TailProps DEF AdmissionDrains, IInv, TypeOK, TaskTypeOK
  <2>2. admissionQ # <<>>
    BY <2>1 DEF IInv, TasksOK, DrainsOK, HeadsOK
  <2> QED
    BY <1>1, <2>2, ArrivesShifted DEF EndDrain
<1>2. CASE ~Head(drainQ).admission
  BY <1>2, ArrivesKept DEF EndDrain, admissionVars, Written
<1> QED
  BY <1>1, <1>2

(* The table changes by rows that are not exposed yet or not pending.      *)
LEMMA ClaimedKept ==
  ASSUME ClaimedOnce, UNCHANGED <<times, claims>>,
         held' \cup Completing' \subseteq held \cup Completing,
         \A e \in Envelopes : e \in Pending' /\ times[e] > 0 => e \in Pending
  PROVE  ClaimedOnce'
<1>1. Claimed' = Claimed
  BY DEF Claimed
<1> QED
  BY <1>1 DEF ClaimedOnce

LEMMA CompletedKept ==
  ASSUME IInv, CompletedOnce, UNCHANGED <<held, storeQ, row, done>>,
         storePc' = storePc \/ Head(storeQ).op # "complete"
  PROVE  CompletedOnce'
<1>1. /\ Pending' = Pending /\ Calls("complete")' = Calls("complete")
      /\ Head(storeQ).op # "complete" => 1 \notin Calls("complete")
  BY TailProps DEF Pending, Calls, IInv, TypeOK, TaskTypeOK
<1> QED
  BY <1>1 DEF CompletedOnce

(* A new call that completes nothing.                                      *)
LEMMA CompletedBehindCall ==
  ASSUME IInv, CompletedOnce, NEW c \in {AcceptCall, PruneCall, ListCall},
         storeQ' = Append(storeQ, c), UNCHANGED <<held, storePc, row, done>>
  PROVE  /\ CompletedOnce'
         /\ Completing' \subseteq Completing
         /\ StoreReplied("accept", "ok") => StoreReplied("accept", "ok")'
<1>1. c \in StoreCall /\ c.op # "complete"
  BY CallTypes DEF AcceptCall, PruneCall, ListCall
<1>2. storeQ \in Seq(StoreCall)
  BY DEF IInv, TypeOK, TaskTypeOK
<1>3. /\ Len(storeQ) \in Nat
      /\ storeQ' # <<>>
      /\ Len(storeQ') = Len(storeQ) + 1
      /\ \A i \in 1 .. Len(storeQ) : storeQ'[i] = storeQ[i]
      /\ storeQ'[Len(storeQ) + 1] = c
      /\ storeQ # <<>> => Head(storeQ') = Head(storeQ)
      /\ storeQ' \in Seq(StoreCall)
  BY <1>1, <1>2, AppendProps, LenProperties
<1>4. \A i \in Calls("complete")' : i \in Calls("complete") /\ storeQ'[i] = storeQ[i]
  BY <1>1, <1>3 DEF Calls
<1>5. Pending' = Pending
  BY DEF Pending
<1>6. CompletedOnce'
  BY <1>4, <1>5 DEF CompletedOnce
<1>7. Completing' \subseteq Completing
  BY <1>2, <1>3, <1>4, CompletingCalls, CompletingCallsNext
<1>8. StoreReplied("accept", "ok") => StoreReplied("accept", "ok")'
  BY <1>3 DEF StoreReplied
<1> QED
  BY <1>6, <1>7, <1>8

(* The head call ends: the completions behind it are still to be made.     *)
LEMMA CompletedAfterReply ==
  ASSUME IInv, CompletedOnce, storeQ # <<>>,
         storeQ' \in {Tail(storeQ), Append(Tail(storeQ), ListCall)},
         storePc' = "idle", UNCHANGED <<held, row, done>>
  PROVE  /\ CompletedOnce'
         /\ Completing' \subseteq Completing
         /\ Head(storeQ).op = "complete" => Head(storeQ).del \notin Completing'
<1>1. storeQ \in Seq(StoreCall)
  BY DEF IInv, TypeOK, TaskTypeOK
<1>2. /\ storeQ' \in Seq(StoreCall)
      /\ \A i \in Calls("complete")' :
           /\ i + 1 \in Calls("complete") /\ i + 1 # 1 /\ i \in Nat
           /\ storeQ'[i] = storeQ[i + 1]
  BY <1>1, QueueAdvances
<1>3. Pending' = Pending
  BY DEF Pending
<1>4. \A i, j \in Calls("complete")' : storeQ'[i].del = storeQ'[j].del => i = j
  <2> SUFFICES ASSUME NEW i \in Calls("complete")', NEW j \in Calls("complete")',
                      storeQ'[i].del = storeQ'[j].del
               PROVE  i = j
    OBVIOUS
  <2>1. i + 1 = j + 1
    BY <1>2 DEF CompletedOnce
  <2> QED
    BY <1>2, <2>1
<1>5. CompletedOnce'
  BY <1>2, <1>3, <1>4 DEF CompletedOnce
<1>6. Completing' \subseteq Completing
  BY <1>1, <1>2, CompletingCalls, CompletingCallsNext
<1>7. ASSUME Head(storeQ).op = "complete" PROVE Head(storeQ).del \notin Completing'
  <2>1. 1 \in Calls("complete") /\ Head(storeQ) = storeQ[1]
    BY <1>1, <1>7, TailProps DEF Calls
  <2> QED
    BY <1>2, <2>1, CompletingCallsNext DEF CompletedOnce
<1> QED
  BY <1>5, <1>6, <1>7

(* The parts of OnceInv, while nothing has failed.                         *)
Once == /\ ArrivesOnce /\ ClaimedOnce /\ CompletedOnce
        /\ \A e \in Envelopes : times[e] <= 1

LEMMA UnseenKept == UNCHANGED <<row, times>> => \A e : Unseen(e) => Unseen(e)'
  BY DEF Unseen

(* A step that leaves the table, the calls, the claims and the admissions. *)
LEMMA OnceKept ==
  ASSUME IInv, Once,
         UNCHANGED <<generation, acceptingIncoming, session, sentTo, row, done, times,
                     claims, held, storeQ, storePc, admissionQ, admissionPc>>
  PROVE  Once'
<1>1. Completing' = Completing /\ Pending' = Pending /\ (Written' <=> Written)
  BY DEF Completing, Pending, Written, StoreReplied
<1> QED
  BY <1>1, UnseenKept, ArrivesKept, ClaimedKept, CompletedKept DEF Once, ArrivesOnce

LEMMA OnceAfterMessage ==
  ASSUME IInv, OrderInv, Once, NEW e \in Envelopes, onIncomingMessage(e)
  PROVE  Once'
<1>1. /\ UNCHANGED <<generation, acceptingIncoming, session, row, done, times,
                      claims, held, storeQ, storePc, admissionPc>>
      /\ sentTo' = e /\ e > sentTo /\ session # 0
  BY DEF onIncomingMessage, NextToSend, inboxVars, clientVars, storeVars,
         consumerVars
<1>2. acceptingIncoming /\ session = generation
  BY <1>1 DEF Once, ArrivesOnce, OrderInv, SocketOK
<1>3. admissionQ' = Append(admissionQ, [env |-> e, gen |-> session])
  BY <1>2 DEF onIncomingMessage
<1>4. /\ Len(admissionQ) \in Nat
      /\ Len(admissionQ') = Len(admissionQ) + 1
      /\ \A i \in 1 .. Len(admissionQ) : admissionQ'[i] = admissionQ[i]
      /\ admissionQ'[Len(admissionQ) + 1] = [env |-> e, gen |-> session]
  <2>1. [env |-> e, gen |-> session] \in [env : Envelopes, gen : Nat]
    BY DEF IInv, TypeOK, ServerTypeOK
  <2> QED
    BY <1>3, <2>1, AppendProps, LenProperties DEF IInv, TypeOK, TaskTypeOK
<1>5. Unseen(e) /\ \A x : Unseen(x) => Unseen(x)'
  BY <1>1, UnseenKept DEF Once, ArrivesOnce
<1>6. Completing' = Completing /\ Pending' = Pending /\ (Written' <=> Written)
  BY <1>1 DEF Completing, Pending, Written, StoreReplied
<1>7. \A x \in Envelopes : x > sentTo' => Unseen(x)'
  <2> SUFFICES ASSUME NEW x \in Envelopes, x > e PROVE Unseen(x)
    BY <1>1, <1>5
  <2>1. x > sentTo
    BY <1>1 DEF Envelopes, IInv, TypeOK, ServerTypeOK
  <2> QED
    BY <2>1 DEF Once, ArrivesOnce
<1>8. ASSUME NEW i \in 1 .. Len(admissionQ'), i # 1 \/ ~Written'
      PROVE  row'[admissionQ'[i].env] = 0 /\ times'[admissionQ'[i].env] = 0
  <2>1. CASE i \in 1 .. Len(admissionQ)
    <3>1. Unseen(admissionQ[i].env)
      BY <1>6, <1>8, <2>1 DEF Once, ArrivesOnce
    <3> QED
      BY <1>1, <1>4, <2>1, <3>1 DEF Unseen
  <2>2. CASE i = Len(admissionQ) + 1
    BY <1>1, <1>4, <1>5, <2>2 DEF Unseen
  <2> QED
    BY <1>4, <2>1, <2>2
<1>l. \A i \in 1 .. Len(admissionQ') : admissionQ'[i].gen = generation
  <2>1. \A i \in 1 .. Len(admissionQ) : admissionQ[i].gen = generation
    BY DEF Once, ArrivesOnce, Live
  <2> QED
    BY <1>2, <1>4, <2>1
<1>9. ArrivesOnce'
  BY <1>1, <1>2, <1>7, <1>8, <1>l DEF Once, ArrivesOnce, Unseen, Live
<1> QED
  BY <1>1, <1>6, <1>9, ClaimedKept, CompletedKept DEF Once

(* An envelope is written once: it was unseen.                             *)
LEMMA OnceAfterAccept ==
  ASSUME IInv, OrderInv, Once, StoreAccept
  PROVE  Once'
<1> DEFINE n == Head(admissionQ).env
<1>1. /\ UNCHANGED <<generation, acceptingIncoming, session, sentTo, done, times,
                      claims, held, storeQ, admissionQ, admissionPc>>
      /\ storePc = "idle" /\ storePc' = "ok" /\ storeQ # <<>>
      /\ Head(storeQ).op = "accept"
  BY DEF StoreAccept, NextCall, serverVars, clientVars, admissionVars, consumerVars
<1>2. /\ n \in Envelopes /\ admissionPc = "accept"
      /\ Len(admissionQ) \in Nat \ {0} /\ Head(admissionQ) = admissionQ[1]
  BY <1>1, AcceptHasAdmission, TailProps DEF IInv, TypeOK, TaskTypeOK
<1>3. Unseen(n)
  BY <1>1, <1>2 DEF Written, StoreReplied, Once, ArrivesOnce
<1>4. row' = [row EXCEPT ![n] = nextRow] /\ row \in [Envelopes -> 0 .. nextRow - 1]
  BY <1>3 DEF StoreAccept, Unseen, IInv, TypeOK, InboxTypeOK
<1>5. \A e \in Envelopes : e # n => row'[e] = row[e]
  BY <1>2, <1>4
<1>6. Written' /\ 1 \in 1 .. Len(admissionQ)
  BY <1>1, <1>2 DEF Written, StoreReplied
<1>7. \A i \in 1 .. Len(admissionQ) : i # 1 => admissionQ[i].env # n
  <2> SUFFICES ASSUME NEW i \in 1 .. Len(admissionQ), i # 1
               PROVE  admissionQ[1].env < admissionQ[i].env
    BY <1>2, <1>6, AdmissionNumbers
  <2>1. Live(1) /\ Live(i) /\ 1 < i
    BY <1>6 DEF Once, ArrivesOnce
  <2> QED
    BY <1>6, <2>1 DEF OrderInv, SentInOrder
<1>8. n <= sentTo /\ n \in Nat
  BY <1>2, <1>6, AdmissionNumbers DEF Once, ArrivesOnce, OrderInv, SentInOrder
<1>9. ArrivesOnce'
  <2>1. \A e \in Envelopes : e > sentTo => Unseen(e)'
    <3> SUFFICES ASSUME NEW e \in Envelopes, e > sentTo PROVE Unseen(e)'
      OBVIOUS
    <3>1. e # n /\ Unseen(e)
      BY <1>8 DEF Envelopes, Once, ArrivesOnce, IInv, TypeOK, ServerTypeOK
    <3> QED
      BY <1>1, <1>5, <3>1 DEF Unseen
  <2>2. ASSUME NEW i \in 1 .. Len(admissionQ), i # 1
        PROVE  Unseen(admissionQ[i].env)'
    <3>1. Unseen(admissionQ[i].env) /\ admissionQ[i].env \in Envelopes
      BY <2>2, AdmissionNumbers DEF Once, ArrivesOnce
    <3> QED
      BY <1>1, <1>5, <1>7, <2>2, <3>1 DEF Unseen
  <2> QED
    BY <1>1, <1>6, <2>1, <2>2 DEF Once, ArrivesOnce, Live
<1>10. n \notin done /\ times[n] = 0
  BY <1>3 DEF Unseen, IInv, AcksOK, CompletedConsumed, ExposedSafe
<1>11. Pending' = Pending \cup {n}
  <2>1. row'[n] # 0
    BY <1>2, <1>4 DEF IInv, TypeOK, InboxTypeOK
  <2> QED
    BY <1>1, <1>2, <1>5, <1>10, <2>1 DEF Pending
<1>12. /\ Completing' = Completing /\ Calls("complete")' = Calls("complete")
       /\ 1 \notin Calls("complete")
  BY <1>1, TailProps DEF Completing, Calls, IInv, TypeOK, TaskTypeOK
<1>13. ClaimedOnce'
  BY <1>1, <1>10, <1>11, <1>12, ClaimedKept DEF Once
<1>14. CompletedOnce'
  BY <1>1, <1>11, <1>12 DEF Once, CompletedOnce
<1> QED
  BY <1>1, <1>9, <1>13, <1>14 DEF Once

(* A completion finds its row: it is the only one of a pending envelope.   *)
LEMMA OnceAfterComplete == IInv /\ Once /\ StoreComplete => Once'
<1> SUFFICES ASSUME IInv, Once, StoreComplete PROVE Once'
  OBVIOUS
<1> DEFINE d == Head(storeQ).del
<1>1. /\ UNCHANGED <<generation, acceptingIncoming, session, sentTo, row, times,
                      claims, held, storeQ, admissionQ, admissionPc>>
      /\ storePc = "idle" /\ storeQ # <<>> /\ Head(storeQ).op = "complete"
  BY DEF StoreComplete, NextCall, serverVars, clientVars, admissionVars,
         consumerVars
<1>2. /\ storeQ \in Seq(StoreCall)
      /\ 1 \in Calls("complete") /\ Head(storeQ) = storeQ[1]
  BY <1>1, TailProps DEF Calls, IInv, TypeOK, TaskTypeOK
<1>3. d.env \in Pending /\ d \notin held
  BY <1>1, <1>2 DEF Once, CompletedOnce
<1>4. storePc' = "ok" /\ done' = done \cup {d.env}
  BY <1>3 DEF StoreComplete, Pending
<1>5. Pending' = Pending \ {d.env}
  BY <1>1, <1>4 DEF Pending
<1>6. /\ Completing' = Completing /\ Calls("complete")' = Calls("complete")
      /\ d \in claims
  BY <1>1, <1>2, CompletingCalls DEF Completing, Calls, Once, ClaimedOnce
<1>7. ArrivesOnce'
  <2>1. Written => Written'
    BY <1>1 DEF Written, StoreReplied
  <2> QED
    BY <1>1, <1>4, <2>1, UnseenKept, ArrivesKept DEF Once
<1>8. ClaimedOnce'
  BY <1>1, <1>5, <1>6, ClaimedKept DEF Once
<1>9. \A c \in held : c.env \in Pending'
  BY <1>3, <1>5, <1>6 DEF Once, ClaimedOnce, CompletedOnce
<1>10. ASSUME NEW i \in Calls("complete")
       PROVE  storeQ[i].del.env \in Pending' <=> i # 1
  <2>1. storeQ[i].del \in claims
    BY <1>2, CompletingCalls DEF Once, ClaimedOnce
  <2>2. storeQ[i].del.env \in Pending
    BY <1>1 DEF Once, CompletedOnce
  <2>3. i # 1 => storeQ[i].del # d
    BY <1>2 DEF Once, CompletedOnce
  <2> QED
    BY <1>2, <1>5, <1>6, <2>1, <2>2, <2>3 DEF Once, ClaimedOnce
<1>11. CompletedOnce'
  BY <1>1, <1>4, <1>6, <1>9, <1>10 DEF Once, CompletedOnce
<1> QED
  BY <1>1, <1>7, <1>8, <1>11 DEF Once

(* A prune takes nothing pending.                                          *)
LEMMA OnceAfterPrune == IInv /\ Once /\ StorePrune => Once'
<1> SUFFICES ASSUME IInv, Once, StorePrune PROVE Once'
  OBVIOUS
<1>1. /\ UNCHANGED <<generation, acceptingIncoming, session, sentTo, times, claims,
                      held, storeQ, admissionQ, admissionPc>>
      /\ storePc' = "ok" /\ storePc = "idle" /\ storeQ # <<>>
      /\ Head(storeQ).op = "prune" /\ done' = done \ aged
      /\ row' = [e \in Envelopes |-> IF e \in done \cap aged THEN 0 ELSE row[e]]
  BY DEF StorePrune, NextCall, serverVars, clientVars, admissionVars, consumerVars
<1>2. Pending' = Pending
  BY <1>1 DEF Pending
<1>3. /\ Completing' = Completing /\ Calls("complete")' = Calls("complete")
      /\ 1 \notin Calls("complete")
  BY <1>1, TailProps DEF Completing, Calls, IInv, TypeOK, TaskTypeOK
<1>4. \A e \in Envelopes : Unseen(e) => Unseen(e)'
  BY <1>1 DEF Unseen
<1>5. Written => Written'
  BY <1>1 DEF Written, StoreReplied
<1>6. ArrivesOnce'
  BY <1>1, <1>4, <1>5, ArrivesKept DEF Once
<1>7. ClaimedOnce'
  BY <1>1, <1>2, <1>3, ClaimedKept DEF Once
<1>8. CompletedOnce'
  BY <1>1, <1>2, <1>3 DEF Once, CompletedOnce
<1> QED
  BY <1>1, <1>6, <1>7, <1>8 DEF Once

LEMMA OnceAfterList == IInv /\ Once /\ StoreList => Once'
<1> SUFFICES ASSUME IInv, Once, StoreList PROVE Once'
  OBVIOUS
<1>1. /\ UNCHANGED <<generation, acceptingIncoming, session, sentTo, row, done,
                      times, claims, held, storeQ, admissionQ, admissionPc>>
      /\ storePc' = "ok" /\ storePc = "idle" /\ Head(storeQ).op = "list"
  BY DEF StoreList, NextCall, serverVars, inboxVars, clientVars, admissionVars,
         consumerVars
<1>2. Written => Written'
  BY <1>1 DEF Written, StoreReplied
<1>3. Completing' = Completing /\ Pending' = Pending
  BY <1>1 DEF Completing, Pending
<1> QED
  BY <1>1, <1>2, <1>3, UnseenKept, ArrivesKept, ClaimedKept, CompletedKept DEF Once

(* A page shows what was never shown: the rest is claimed or completed.    *)
LEMMA OnceAfterExposure == IInv /\ Once /\ drainQ # <<>> /\ ListReplied => Once'
<1> SUFFICES ASSUME IInv, Once, drainQ # <<>>, ListReplied PROVE Once'
  OBVIOUS
<1>1. /\ UNCHANGED <<generation, acceptingIncoming, session, sentTo, row, done>>
      /\ storeQ # <<>> /\ Head(storeQ).op = "list" /\ storePc' = "idle"
      /\ storeQ' = Tail(storeQ) /\ EndDrain /\ page = Listed(MaxActiveDeliveries)
      /\ storeQ \in Seq(StoreCall) /\ times \in [Envelopes -> Nat]
  BY DEF ListReplied, EndCall, StoreReplied, serverVars, inboxVars, IInv, PageOK,
         TypeOK, TaskTypeOK, ConsumerTypeOK
<1>2. PICK E \in SUBSET Fresh : /\ claims' = claims \cup NewDeliveries(E)
                               /\ held' = held \cup NewDeliveries(E)
                               /\ CountExposures(E)
  BY DEF ListReplied
<1>3. \A e \in E : e \in Envelopes /\ e \in Pending /\ e \notin Claimed /\ times[e] = 0
                 /\ row[e] # 0
  <2> SUFFICES ASSUME NEW e \in E
               PROVE  /\ e \in Envelopes /\ e \in Pending /\ e \notin Claimed
                      /\ times[e] = 0 /\ row[e] # 0
    OBVIOUS
  <2>1. e \in Pending /\ e \notin Claimed
    BY <1>1 DEF Fresh, Listed
  <2>2. e \in Envelopes /\ row[e] # 0
    BY <2>1 DEF Pending
  <2> QED
    BY <1>1, <2>1, <2>2 DEF Once, ClaimedOnce
<1>4. times' = [e \in Envelopes |-> IF e \in E THEN times[e] + 1 ELSE times[e]]
  BY <1>2 DEF CountExposures
<1>5. \A e \in Envelopes : times'[e] <= 1 /\ (times'[e] > 0 => times[e] > 0 \/ e \in E)
  BY <1>1, <1>3, <1>4 DEF Once
<1>6. ArrivesOnce'
  <2>1. \A e \in Envelopes : Unseen(e) => Unseen(e)'
    BY <1>1, <1>3, <1>4 DEF Unseen
  <2>2. ~StoreReplied("accept", "ok")
    BY <1>1 DEF StoreReplied
  <2> QED
    BY <1>1, <2>1, <2>2, ArrivesAfterDrain DEF Once
<1>7. /\ Pending' = Pending
      /\ \A i \in Calls("complete")' :
           /\ i + 1 \in Calls("complete") /\ i + 1 # 1 /\ i \in Nat
           /\ storeQ'[i] = storeQ[i + 1]
      /\ storeQ' \in Seq(StoreCall)
  BY <1>1, QueueAdvances DEF Pending
<1>8. Completing' \subseteq Completing
  BY ZenonT(40), <1>1, <1>7, CompletingCalls, CompletingCallsNext
<1>9. \A c \in NewDeliveries(E) : /\ c.env \in E
                                  /\ \A b \in NewDeliveries(E) : b.env = c.env => b = c
                                  /\ \A b \in claims : b.env # c.env
  BY <1>3 DEF NewDeliveries, Claimed
<1>10. ClaimedOnce'
  <2>1. Claimed \cup E \subseteq Claimed'
    <3>1. \A e \in E : \E c \in NewDeliveries(E) : c.env = e
      <4> SUFFICES ASSUME NEW e \in E PROVE \E c \in NewDeliveries(E) : c.env = e
        OBVIOUS
      <4> DEFINE new == [env |-> e, gen |-> generation, n |-> times[e] + 1]
      <4>1. new \in NewDeliveries(E) /\ new.env = e
        BY DEF NewDeliveries
      <4> QED
        BY <4>1
    <3> QED
      BY <1>2, <3>1 DEF Claimed
  <2>2. \A e \in Envelopes : times'[e] > 0 => e \in Claimed' \/ e \notin Pending'
    BY <1>5, <1>7, <2>1 DEF Once, ClaimedOnce
  <2>3. held' \cup Completing' \subseteq claims'
    BY <1>2, <1>8 DEF Once, ClaimedOnce
  <2>4. \A b, c \in claims' : b.env = c.env => b = c
    BY <1>2, <1>9 DEF Once, ClaimedOnce
  <2> QED
    BY <2>2, <2>3, <2>4 DEF ClaimedOnce
<1>11. CompletedOnce'
  <2>1. \A c \in held' : c.env \in Pending'
    BY <1>2, <1>3, <1>7, <1>9 DEF Once, CompletedOnce
  <2>2. ASSUME NEW i \in Calls("complete")'
        PROVE  /\ storeQ'[i].del \notin held'
               /\ storeQ'[i].del.env \in Pending'
    <3>1. storeQ'[i].del \in claims
      BY <1>1, <1>7, <2>2, CompletingCalls DEF Once, ClaimedOnce
    <3>2. storeQ'[i].del \notin held /\ storeQ'[i].del.env \in Pending
      BY <1>7, <2>2 DEF Once, CompletedOnce
    <3> QED
      BY <1>2, <1>7, <1>9, <3>1, <3>2
  <2>3. \A i, j \in Calls("complete")' : storeQ'[i].del = storeQ'[j].del => i = j
    <3> SUFFICES ASSUME NEW i \in Calls("complete")', NEW j \in Calls("complete")',
                        storeQ'[i].del = storeQ'[j].del
                 PROVE  i = j
      OBVIOUS
    <3>1. i + 1 = j + 1
      BY <1>7 DEF Once, CompletedOnce
    <3> QED
      BY <1>7, <3>1
  <2> QED
    BY <1>1, <2>1, <2>2, <2>3 DEF CompletedOnce
<1> QED
  BY <1>5, <1>6, <1>10, <1>11 DEF Once

(* The claim goes with the completion of its envelope.                     *)
LEMMA OnceAfterCompletion == IInv /\ Once /\ CompleteReplied => Once'
<1> SUFFICES ASSUME IInv, Once, CompleteReplied PROVE Once'
  OBVIOUS
<1> DEFINE d == Head(storeQ).del
<1>1. /\ UNCHANGED <<generation, acceptingIncoming, session, sentTo, row, done,
                      times, held, admissionQ, admissionPc>>
      /\ storePc = "ok" /\ storePc' = "idle" /\ storeQ # <<>>
      /\ Head(storeQ).op = "complete" /\ storeQ' = Tail(storeQ)
      /\ claims' = claims \ {d}
  BY DEF CompleteReplied, EndCall, StoreReplied, serverVars, inboxVars,
         admissionVars, consumerVars
<1>2. /\ 1 \in Calls("complete") /\ Head(storeQ) = storeQ[1]
  BY <1>1, TailProps DEF Calls, IInv, TypeOK, TaskTypeOK
<1>3. d.env \notin Pending /\ d \notin held
  BY <1>1, <1>2 DEF Once, CompletedOnce
<1>4. CompletedOnce' /\ Completing' \subseteq Completing /\ d \notin Completing'
  BY <1>1, CompletedAfterReply DEF Once
<1>5. Pending' = Pending
  BY <1>1 DEF Pending
<1>6. ClaimedOnce'
  <2>1. \A e \in Claimed : e \in Claimed' \/ e = d.env
    BY <1>1 DEF Claimed
  <2> QED
    BY <1>1, <1>3, <1>4, <1>5, <2>1 DEF Once, ClaimedOnce
<1>7. ArrivesOnce'
  <2>1. Written => Written'
    BY <1>1 DEF Written, StoreReplied
  <2> QED
    BY <1>1, <2>1, UnseenKept, ArrivesKept DEF Once
<1> QED
  BY <1>1, <1>4, <1>6, <1>7 DEF Once

LEMMA OnceAfterAck ==
  ASSUME IInv, Once, NEW d \in held, ConsumerAcks(d)
  PROVE  Once'
<1>1. /\ UNCHANGED <<generation, acceptingIncoming, session, sentTo, row, done,
                      times, claims, storePc, admissionQ, admissionPc>>
      /\ held' = held \ {d} /\ storeQ' = Append(storeQ, CompleteCall(d))
      /\ storeQ \in Seq(StoreCall)
      /\ storePc # "idle" => storeQ # <<>>
      /\ CompleteCall(d) \in StoreCall
      /\ CompleteCall(d).op = "complete" /\ CompleteCall(d).del = d
  BY CallTypes
  DEF ConsumerAcks, serverVars, inboxVars, clientVars, admissionVars, IInv,
      TypeOK, TaskTypeOK, ConsumerTypeOK, TasksOK, HeadsOK, CompleteCall
<1>2. /\ Len(storeQ) \in Nat /\ storeQ' \in Seq(StoreCall)
      /\ Len(storeQ') = Len(storeQ) + 1
      /\ \A i \in 1 .. Len(storeQ) : storeQ'[i] = storeQ[i]
      /\ storeQ'[Len(storeQ) + 1] = CompleteCall(d)
      /\ storeQ # <<>> => Head(storeQ') = Head(storeQ)
      /\ storeQ' # <<>>
  BY <1>1, AppendProps, LenProperties
<1>3. \A i \in Calls("complete")' :
        \/ i \in Calls("complete") /\ storeQ'[i] = storeQ[i] /\ i \in 1 .. Len(storeQ)
        \/ i = Len(storeQ) + 1 /\ storeQ'[i].del = d
  BY <1>1, <1>2 DEF Calls
<1>4. storeQ # <<>> => Len(storeQ) # 0
  BY <1>1
<1>5. Pending' = Pending /\ d.env \in Pending
  BY <1>1 DEF Pending, Once, CompletedOnce
<1>6. \A b \in Completing' : b \in Completing \/ b = d
  BY <1>1, <1>2, <1>3, CompletingCalls, CompletingCallsNext
<1>7. ClaimedOnce'
  BY <1>1, <1>5, <1>6, ClaimedKept DEF Once
<1>8. ArrivesOnce'
  <2>1. Written => Written'
    BY <1>1, <1>2 DEF Written, StoreReplied
  <2> QED
    BY <1>1, <2>1, UnseenKept, ArrivesKept DEF Once, ArrivesOnce
<1>9. CompletedOnce'
  <2>1. ASSUME NEW i \in Calls("complete")'
        PROVE  /\ storeQ'[i].del \notin held'
               /\ storeQ'[i].del.env \in Pending' <=> i # 1 \/ storePc' = "idle"
    <3>1. CASE i \in Calls("complete") /\ storeQ'[i] = storeQ[i]
      BY <1>1, <1>5, <3>1 DEF Once, CompletedOnce
    <3>2. CASE i = Len(storeQ) + 1 /\ storeQ'[i].del = d
      BY <1>1, <1>2, <1>4, <1>5, <3>2
    <3> QED
      BY <1>3, <2>1, <3>1, <3>2
  <2>2. \A i \in Calls("complete") : storeQ[i].del # d
    BY DEF Once, CompletedOnce
  <2>3. \A i, j \in Calls("complete")' : storeQ'[i].del = storeQ'[j].del => i = j
    BY <1>3, <2>2 DEF Once, CompletedOnce
  <2>4. \A c \in held' : c.env \in Pending'
    BY <1>1, <1>5 DEF Once, CompletedOnce
  <2> QED
    BY <2>1, <2>3, <2>4 DEF CompletedOnce
<1> QED
  BY <1>1, <1>7, <1>8, <1>9 DEF Once

(* A reply that completes nothing: the admission or the drain it was for   *)
(* may end with it.                                                        *)
LEMMA OnceAfterReply ==
  ASSUME IInv, Once, storeQ # <<>>, Head(storeQ).op # "complete",
         storeQ' \in {Tail(storeQ), Append(Tail(storeQ), ListCall)},
         storePc' = "idle", ArrivesOnce',
         UNCHANGED <<row, done, times, claims, held>>
  PROVE  Once'
<1>1. CompletedOnce' /\ Completing' \subseteq Completing
  BY CompletedAfterReply DEF Once
<1>2. Pending' = Pending
  BY DEF Pending
<1> QED
  BY <1>1, <1>2, ClaimedKept DEF Once

LEMMA OnceAfterReturn ==
  ASSUME IInv, OrderInv, Once, StoreReturns
  PROVE  Once'
<1>d. ASSUME NEW op \in {"prune", "list"}, NEW pc, StoreReplied(op, pc)
      PROVE  drainQ # <<>>
  <2>1. storeQ # <<>> /\ Head(storeQ).op = op
    BY <1>d DEF StoreReplied
  <2>2. 1 \in Calls(op)
    BY <2>1, TailProps DEF Calls, IInv, TypeOK, TaskTypeOK
  <2> QED
    BY <2>2 DEF IInv, TasksOK, CallsOK, HeadsOK
<1>1. storePc # "failed"
  BY DEF Once, ArrivesOnce
<1>2. CASE AcceptStale \/ AcceptAcknowledged
  <2>1. /\ UNCHANGED <<generation, acceptingIncoming, session, sentTo, row, done,
                        times, claims, held>>
        /\ storeQ # <<>> /\ Head(storeQ).op = "accept"
        /\ storeQ' = Tail(storeQ) /\ storePc' = "idle" /\ admissionQ # <<>>
        /\ \/ EndAdmission
           \/ admissionPc' = "drain" /\ UNCHANGED admissionQ
    BY <1>2, AcceptHasAdmission
    DEF AcceptStale, AcceptAcknowledged, EndCall, StoreReplied, serverVars,
        inboxVars, clientVars, consumerVars
  <2>2. ArrivesOnce'
    <3>1. CASE EndAdmission
      BY <2>1, <3>1, UnseenKept, ArrivesShifted DEF Once
    <3>2. CASE admissionPc' = "drain" /\ UNCHANGED admissionQ
      BY <2>1, <3>2, UnseenKept, ArrivesKept DEF Once, Written
    <3> QED
      BY <2>1, <3>1, <3>2
  <2> QED
    BY <2>1, <2>2, OnceAfterReply
<1>3. CASE PruneReplied \/ ListStale
  <2>1. /\ UNCHANGED <<generation, acceptingIncoming, session, sentTo, row, done,
                        times, claims, held>>
        /\ storeQ # <<>> /\ Head(storeQ).op # "complete" /\ drainQ # <<>>
        /\ storeQ' \in {Tail(storeQ), Append(Tail(storeQ), ListCall)}
        /\ storePc' = "idle"
        /\ EndDrain \/ UNCHANGED admissionVars
        /\ ~StoreReplied("accept", "ok")
    BY <1>3, <1>d
    DEF PruneReplied, ListStale, CheckCapacity, EndCall, StoreReplied,
        serverVars, inboxVars, clientVars, consumerVars
  <2>2. ArrivesOnce'
    <3>1. CASE EndDrain
      BY <2>1, <3>1, UnseenKept, ArrivesAfterDrain DEF Once
    <3>2. CASE UNCHANGED admissionVars
      BY <2>1, <3>2, UnseenKept, ArrivesKept DEF Once, Written, admissionVars
    <3> QED
      BY <2>1, <3>1, <3>2
  <2> QED
    BY <2>1, <2>2, OnceAfterReply
<1>4. CASE ListReplied
  BY <1>4, <1>d, OnceAfterExposure DEF ListReplied
<1>5. CASE AcceptRejected \/ DrainCallFails \/ CompleteFails
  BY <1>1, <1>5 DEF AcceptRejected, DrainCallFails, CompleteFails, StoreReplied
<1> QED
  BY <1>2, <1>3, <1>4, <1>5, OnceAfterCompletion DEF StoreReturns

(* A task starts: a new call, or nothing but its end.                      *)
LEMMA OnceAfterStart ==
  ASSUME IInv, Once, StartAdmission \/ StartDrain
  PROVE  Once'
<1>1. /\ UNCHANGED <<generation, acceptingIncoming, session, sentTo, row, done,
                      times, claims, held, storePc>>
      /\ storePc # "failed"
  BY DEF StartAdmission, StartDrain, serverVars, inboxVars, clientVars,
         consumerVars, Once, ArrivesOnce
<1>2. Pending' = Pending
  BY <1>1 DEF Pending
<1>3. \A e : Unseen(e) => Unseen(e)'
  BY <1>1, UnseenKept
<1>4. /\ CompletedOnce' /\ Completing' \subseteq Completing
      /\ StoreReplied("accept", "ok") => StoreReplied("accept", "ok")'
  <2>1. \/ storeQ' = storeQ
        \/ \E c \in {AcceptCall, PruneCall, ListCall} : storeQ' = Append(storeQ, c)
    BY DEF StartAdmission, StartDrain, CheckCapacity
  <2>2. CASE storeQ' = storeQ
    BY <1>1, <2>2, CompletedKept DEF Once, Completing, StoreReplied
  <2>3. CASE \E c \in {AcceptCall, PruneCall, ListCall} : storeQ' = Append(storeQ, c)
    BY <1>1, <2>3, CompletedBehindCall DEF Once
  <2> QED
    BY <2>1, <2>2, <2>3
<1>5. ArrivesOnce'
  <2>1. CASE StartAdmission
    <3>1. admissionQ # <<>> /\ admissionPc = "idle"
      BY <2>1 DEF StartAdmission
    <3>2. ~Written
      BY <3>1, NoAcceptReply DEF Written, StoreReplied
    <3>3. EndAdmission \/ admissionQ' = admissionQ
      BY <2>1 DEF StartAdmission
    <3> QED
      BY <1>1, <1>3, <3>1, <3>2, <3>3, ArrivesShifted, ArrivesKept DEF Once
  <2>2. CASE StartDrain
    <3>1. drainQ # <<>> /\ (EndDrain \/ UNCHANGED admissionVars)
      BY <2>2 DEF StartDrain, CheckCapacity
    <3>2. CASE EndDrain
      BY <1>1, <1>3, <1>4, <3>1, <3>2, ArrivesAfterDrain DEF Once
    <3>3. CASE UNCHANGED admissionVars
      BY <1>1, <1>3, <1>4, <3>3, ArrivesKept DEF Once, Written, admissionVars
    <3> QED
      BY <3>1, <3>2, <3>3
  <2> QED
    BY <2>1, <2>2
<1> QED
  BY <1>1, <1>2, <1>4, <1>5, ClaimedKept DEF Once

LEMMA OnceStep == IInv /\ OrderInv /\ OnceInv /\ [Next]_vars => OnceInv'
<1> SUFFICES ASSUME IInv, OrderInv, OnceInv, [Next]_vars, faults' = 0 PROVE Once'
  BY DEF OnceInv, Once
<1>1. faults \in Nat
  BY DEF IInv, TypeOK
<1>2. ~Fault
  BY <1>1 DEF Fault
<1>3. faults = 0
  BY <1>2
  DEF Next, ServerStep, Arrive, ServerReceivesAck, SocketClosed, TimePasses,
      ConnectionStep, Connect, startIncomingDelivery, disconnect,
      onConnectionInterrupted, onQueueEmpty, Crash, onIncomingMessage,
      StoreWorks, StoreAccept, StoreComplete, StorePrune, StoreList,
      StoreFails, StoreReturns, AcceptRejected, AcceptStale,
      AcceptAcknowledged, PruneReplied, DrainCallFails, ListStale, ListReplied,
      HandlerThrows, CompleteReplied, CompleteFails, StartAdmission,
      AcceptAckFails, StartDrain, RetryTimerFires, ConsumerAcks, vars
<1>4. Once
  BY <1>3 DEF OnceInv, Once
<1>5. CASE ServerStep
  <2>1. ~SocketClosed
    BY <1>4 DEF SocketClosed, Once, ArrivesOnce, OrderInv, SocketOK
  <2> QED
    BY <1>4, <1>5, <2>1, OnceKept
    DEF ServerStep, Arrive, ServerReceivesAck, TimePasses, serverVars,
        inboxVars, clientVars, admissionVars, storeVars, consumerVars
<1>6. CASE ConnectionStep
  <2>1. CASE Connect
    <3>1. /\ UNCHANGED <<row, done, times, claims, held, storeQ, storePc,
                          admissionQ, admissionPc>>
          /\ acceptingIncoming' /\ sentTo' = 0 /\ sentTo = 0 /\ admissionQ = <<>>
      BY <1>4, <2>1
      DEF Connect, inboxVars, storeVars, admissionVars, consumerVars, Once,
          ArrivesOnce
    <3>2. /\ Pending' = Pending /\ Completing' = Completing
          /\ \A e : Unseen(e) => Unseen(e)'
      BY <3>1, UnseenKept DEF Pending, Completing
    <3>3. ArrivesOnce'
      BY <1>4, <3>1, <3>2 DEF Once, ArrivesOnce
    <3> QED
      BY <1>4, <3>1, <3>2, <3>3, ClaimedKept, CompletedKept DEF Once
  <2>2. CASE startIncomingDelivery \/ onQueueEmpty
    BY <1>4, <2>2, OnceKept
    DEF startIncomingDelivery, onQueueEmpty, serverVars, inboxVars,
        admissionVars, storeVars, consumerVars
  <2>3. CASE \E e \in Envelopes : onIncomingMessage(e)
    BY <1>4, <2>3, OnceAfterMessage
  <2> QED
    BY <1>2, <1>6, <2>1, <2>2, <2>3
    DEF ConnectionStep, disconnect, onConnectionInterrupted, Crash
<1>7. CASE StoreWorks
  BY <1>4, <1>7, OnceAfterAccept, OnceAfterComplete, OnceAfterPrune, OnceAfterList
  DEF StoreWorks
<1>8. CASE StoreReturns
  BY <1>4, <1>8, OnceAfterReturn
<1>9. CASE StartAdmission \/ StartDrain
  BY <1>4, <1>9, OnceAfterStart
<1>10. CASE RetryTimerFires
  BY <1>4, <1>10, OnceKept
  DEF RetryTimerFires, serverVars, inboxVars, admissionVars, storeVars,
      consumerVars
<1>11. CASE \E d \in held : ConsumerAcks(d)
  BY <1>4, <1>11, OnceAfterAck
<1>12. CASE StoreFails \/ AcceptAckFails \/ HandlerThrows
  BY <1>2, <1>12 DEF StoreFails, AcceptAckFails, HandlerThrows
<1>13. CASE UNCHANGED vars
  BY <1>4, <1>13, OnceKept
  DEF vars, serverVars, inboxVars, clientVars, admissionVars, storeVars,
      consumerVars
<1> QED
  BY <1>5, <1>6, <1>7, <1>8, <1>9, <1>10, <1>11, <1>12, <1>13 DEF Next

(* Until something fails, every envelope is shown to the consumer once at  *)
(* most, for any number of envelopes, slots and prunes, although admissions*)
(* and drains, completions and prunes share the store in any order.        *)
THEOREM ExposedOnce == Spec => []ExactlyOnceWithoutFaults
<1>1. Init => OnceInv
  <2> SUFFICES ASSUME Init PROVE OnceInv
    OBVIOUS
  <2>1. /\ storeQ = <<>> /\ storePc = "idle" /\ session = 0 /\ sentTo = 0
        /\ admissionQ = <<>> /\ held = {} /\ claims = {}
        /\ row = [e \in Envelopes |-> 0] /\ times = [e \in Envelopes |-> 0]
    BY DEF Init
  <2>2. Completing = {} /\ Calls("complete") = {}
    BY <2>1 DEF Completing, Calls
  <2> QED
    BY <2>1, <2>2 DEF OnceInv, ArrivesOnce, ClaimedOnce, CompletedOnce, Unseen
<1>2. OnceInv => ExactlyOnceWithoutFaults
  BY DEF OnceInv, ExactlyOnceWithoutFaults
<1> QED
  BY <1>1, <1>2, OnceStep, InductiveInvariant, OrderInvariant, PTL DEF Spec
=============================================================================
