----------------------- MODULE InboundDelivery_proofs -----------------------
(***************************************************************************)
(* Proofs about InboundDelivery for every number of envelopes, slots,      *)
(* failures and days.                                                      *)
(***************************************************************************)
EXTENDS InboundDelivery, SequenceTheorems, TLAPS

(* What Append and Tail do to a queue.                                     *)
LEMMA AppendProps ==
  ASSUME NEW S, NEW q \in Seq(S), NEW x \in S
  PROVE  /\ Append(q, x) \in Seq(S)
         /\ Append(q, x) # <<>>
         /\ Len(Append(q, x)) = Len(q) + 1
         /\ \A i \in 1 .. Len(q) : Append(q, x)[i] = q[i]
         /\ Append(q, x)[Len(q) + 1] = x
         /\ q # <<>> => Head(Append(q, x)) = Head(q)
<1>1. /\ Append(q, x) \in Seq(S)
      /\ Append(q, x) # <<>>
      /\ Len(Append(q, x)) = Len(q) + 1
      /\ \A i \in 1 .. Len(q) : Append(q, x)[i] = q[i]
      /\ Append(q, x)[Len(q) + 1] = x
  BY AppendProperties
<1>2. ASSUME q # <<>> PROVE Head(Append(q, x)) = Head(q)
  BY <1>1, <1>2
<1> QED
  BY <1>1, <1>2

LEMMA TailProps ==
  ASSUME NEW S, NEW q \in Seq(S), q # <<>>
  PROVE  /\ Head(q) \in S
         /\ Head(q) = q[1]
         /\ Tail(q) \in Seq(S)
         /\ Len(q) \in Nat \ {0}
         /\ Len(Tail(q)) = Len(q) - 1
         /\ \A i \in 1 .. Len(q) - 1 : Tail(q)[i] = q[i + 1]
  OBVIOUS

(* The head leaves and a new last element comes.                           *)
LEMMA ReplaceProps ==
  ASSUME NEW S, NEW q \in Seq(S), q # <<>>, NEW x \in S
  PROVE  /\ Append(Tail(q), x) \in Seq(S)
         /\ Append(Tail(q), x) # <<>>
         /\ Len(Append(Tail(q), x)) = Len(q)
         /\ \A i \in 1 .. Len(q) - 1 : Append(Tail(q), x)[i] = q[i + 1]
         /\ Append(Tail(q), x)[Len(q)] = x
<1> DEFINE t == Tail(q)
<1>1. /\ t \in Seq(S)
      /\ Len(q) \in Nat \ {0}
      /\ Len(t) = Len(q) - 1
      /\ \A i \in 1 .. Len(q) - 1 : t[i] = q[i + 1]
  BY TailProps
<1>2. /\ Append(t, x) \in Seq(S)
      /\ Append(t, x) # <<>>
      /\ Len(Append(t, x)) = Len(t) + 1
      /\ \A i \in 1 .. Len(t) : Append(t, x)[i] = t[i]
      /\ Append(t, x)[Len(t) + 1] = x
  BY <1>1, AppendProps
<1> HIDE DEF t
<1>3. Len(t) + 1 = Len(q)
  BY <1>1
<1>4. \A i \in 1 .. Len(q) - 1 : Append(t, x)[i] = q[i + 1]
  BY <1>1, <1>2
<1>5. /\ Len(Append(t, x)) = Len(q)
      /\ Append(t, x)[Len(q)] = x
  BY <1>2, <1>3
<1> QED
  BY <1>2, <1>4, <1>5 DEF t

(* The types of the calls that the client makes.                           *)
LEMMA CallTypes ==
  /\ AcceptCall \in StoreCall /\ PruneCall \in StoreCall /\ ListCall \in StoreCall
  /\ \A d \in Delivery : CompleteCall(d) \in StoreCall
  BY DEF AcceptCall, PruneCall, ListCall, CompleteCall, StoreCall

LEMMA InitIInv == Init => IInv
<1> SUFFICES ASSUME Init PROVE IInv
  OBVIOUS
<1>1. ServerTypeOK
  <2>1. arrived \in 0 .. EnvelopeCount
    BY InboundAssumption DEF InboundAssumption, Init
  <2>2. /\ retained \subseteq 1 .. arrived
        /\ session \in Nat
        /\ sentTo \in Nat
        /\ emptySent \in BOOLEAN
        /\ ackWire \subseteq Envelopes
    BY DEF Init
  <2> QED
    BY <2>1, <2>2 DEF ServerTypeOK
<1>2. InboxTypeOK
  BY DEF Init, InboxTypeOK
<1>3. ClientTypeOK
  BY DEF Init, ClientTypeOK
<1>4. TaskTypeOK
  BY DEF Init, TaskTypeOK
<1>5. ConsumerTypeOK
  BY DEF Init, ConsumerTypeOK
<1>6. TasksOK
  BY DEF Init, TasksOK, HeadsOK, CallsOK, DrainsOK, Calls, AdmissionDrains
<1>7. AcksOK
  BY DEF Init, AcksOK, AdmittedArrived, AcksSafe, CompletedConsumed,
         ExposedSafe, StoreReplied, Calls
<1>8. NoLoss /\ PageOK
  BY DEF Init, NoLoss, PageOK, StoreReplied
<1> QED
  BY <1>1, <1>2, <1>3, <1>4, <1>5, <1>6, <1>7, <1>8 DEF Init, IInv, TypeOK

(* Each part of the invariant survives a step that leaves its variables.   *)
LEMMA Frame ==
  /\ ServerTypeOK /\ UNCHANGED serverVars => ServerTypeOK'
  /\ InboxTypeOK /\ UNCHANGED inboxVars => InboxTypeOK'
  /\ ClientTypeOK /\ UNCHANGED clientVars => ClientTypeOK'
  /\ TaskTypeOK /\ UNCHANGED <<admissionVars, drainVars, storeVars>>
       => TaskTypeOK'
  /\ ConsumerTypeOK /\ UNCHANGED consumerVars => ConsumerTypeOK'
  /\ TasksOK /\ UNCHANGED <<admissionVars, drainVars, storeVars>> => TasksOK'
  /\ AdmittedArrived /\ UNCHANGED <<arrived, admissionQ>> => AdmittedArrived'
  /\ AcksSafe /\ UNCHANGED <<ackWire, row, consumed, admissionQ, storeVars>>
       => AcksSafe'
  /\ CompletedConsumed /\ UNCHANGED <<done, consumed, storeQ>>
       => CompletedConsumed'
  /\ ExposedSafe /\ UNCHANGED <<held, times, row, consumed>> => ExposedSafe'
  /\ NoLoss /\ UNCHANGED <<arrived, retained, row, consumed>> => NoLoss'
  /\ PageOK /\ UNCHANGED <<row, done, storeVars>> => PageOK'
<1>1. ServerTypeOK /\ UNCHANGED serverVars => ServerTypeOK'
  BY DEF ServerTypeOK, serverVars
<1>2. InboxTypeOK /\ UNCHANGED inboxVars => InboxTypeOK'
  BY DEF InboxTypeOK, inboxVars
<1>3. ClientTypeOK /\ UNCHANGED clientVars => ClientTypeOK'
  BY DEF ClientTypeOK, clientVars
<1>4. TaskTypeOK /\ UNCHANGED <<admissionVars, drainVars, storeVars>>
       => TaskTypeOK'
  BY DEF TaskTypeOK, admissionVars, drainVars, storeVars
<1>5. ConsumerTypeOK /\ UNCHANGED consumerVars => ConsumerTypeOK'
  BY DEF ConsumerTypeOK, consumerVars
<1>6. TasksOK /\ UNCHANGED <<admissionVars, drainVars, storeVars>> => TasksOK'
  BY DEF TasksOK, HeadsOK, CallsOK, DrainsOK, Calls, AdmissionDrains,
         admissionVars, drainVars, storeVars
<1>7. AdmittedArrived /\ UNCHANGED <<arrived, admissionQ>> => AdmittedArrived'
  BY DEF AdmittedArrived
<1>8. AcksSafe /\ UNCHANGED <<ackWire, row, consumed, admissionQ, storeVars>>
       => AcksSafe'
  BY DEF AcksSafe, Safe, StoreReplied, storeVars
<1>9. CompletedConsumed /\ UNCHANGED <<done, consumed, storeQ>>
       => CompletedConsumed'
  BY DEF CompletedConsumed, Calls
<1>10. ExposedSafe /\ UNCHANGED <<held, times, row, consumed>> => ExposedSafe'
  BY DEF ExposedSafe, Safe
<1>11. NoLoss /\ UNCHANGED <<arrived, retained, row, consumed>> => NoLoss'
  BY DEF NoLoss
<1>12. PageOK /\ UNCHANGED <<row, done, storeVars>> => PageOK'
  BY DEF PageOK, StoreReplied, Listed, Pending, storeVars
<1> QED
  BY <1>1, <1>2, <1>3, <1>4, <1>5, <1>6, <1>7, <1>8, <1>9, <1>10, <1>11, <1>12

(* The page matters only until its caller has resumed, and is not touched  *)
(* before that.                                                            *)
LEMMA PageAfterReply == (\A o : ~StoreReplied(o, "ok")') => PageOK'
  BY DEF PageOK

LEMMA PageKept ==
  ASSUME IInv, storeQ # <<>> => Head(storeQ') = Head(storeQ),
         UNCHANGED <<row, done, storePc, page>>
  PROVE  PageOK'
<1>1. StoreReplied("list", "ok")' => StoreReplied("list", "ok")
  BY DEF IInv, TasksOK, HeadsOK, StoreReplied
<1>2. Listed(MaxActiveDeliveries)' = Listed(MaxActiveDeliveries)
  BY DEF Listed, Pending
<1> QED
  BY <1>1, <1>2 DEF IInv, PageOK

-----------------------------------------------------------------------------
(* The server, the network and time *)

LEMMA ArriveStep == IInv /\ Arrive => IInv'
<1> SUFFICES ASSUME IInv, Arrive PROVE IInv'
  OBVIOUS
<1>1. arrived \in Nat
  BY InboundAssumption DEF InboundAssumption, IInv, TypeOK, ServerTypeOK
<1>2. ServerTypeOK'
  BY <1>1, InboundAssumption
  DEF InboundAssumption, Arrive, IInv, TypeOK, ServerTypeOK
<1>3. AdmittedArrived'
  <2>1. admissionQ' = admissionQ
    BY DEF Arrive, admissionVars
  <2>2. \A i \in 1 .. Len(admissionQ) : admissionQ[i].env \in Nat
    <3>1. \A i \in 1 .. Len(admissionQ) :
            admissionQ[i] \in [env : Envelopes, gen : Nat]
      BY ElementOfSeq DEF IInv, TypeOK, TaskTypeOK
    <3> QED
      BY <3>1 DEF Envelopes
  <2> QED
    BY <1>1, <2>1, <2>2 DEF Arrive, IInv, AcksOK, AdmittedArrived
<1>4. NoLoss'
  BY <1>1 DEF Arrive, IInv, NoLoss, inboxVars, consumerVars
<1> QED
  BY <1>2, <1>3, <1>4, Frame
  DEF Arrive, IInv, TypeOK, AcksOK, inboxVars, admissionVars, storeVars,
      consumerVars

LEMMA ServerReceivesAckStep == IInv /\ ServerReceivesAck => IInv'
<1> SUFFICES ASSUME IInv, ServerReceivesAck PROVE IInv'
  OBVIOUS
<1>1. ServerTypeOK'
  BY DEF ServerReceivesAck, IInv, TypeOK, ServerTypeOK
<1>2. AcksSafe'
  BY DEF ServerReceivesAck, IInv, AcksOK, AcksSafe, Safe, StoreReplied,
         inboxVars, admissionVars, storeVars, consumerVars
<1>3. NoLoss'
  BY DEF ServerReceivesAck, IInv, AcksOK, AcksSafe, Safe, NoLoss, inboxVars,
         consumerVars
<1> QED
  BY <1>1, <1>2, <1>3, Frame
  DEF ServerReceivesAck, IInv, TypeOK, AcksOK, inboxVars, admissionVars,
      storeVars, consumerVars

LEMMA SocketClosedStep == IInv /\ SocketClosed => IInv'
<1> SUFFICES ASSUME IInv, SocketClosed PROVE IInv'
  OBVIOUS
<1>1. ServerTypeOK'
  BY DEF SocketClosed, IInv, TypeOK, ServerTypeOK
<1>2. AcksSafe'
  BY DEF SocketClosed, IInv, AcksOK, AcksSafe, Safe, StoreReplied, inboxVars,
         admissionVars, storeVars, consumerVars
<1> QED
  BY <1>1, <1>2, Frame
  DEF SocketClosed, IInv, TypeOK, AcksOK, inboxVars, admissionVars, storeVars,
      consumerVars

LEMMA TimePassesStep == IInv /\ TimePasses => IInv'
<1> SUFFICES ASSUME IInv, TimePasses PROVE IInv'
  OBVIOUS
<1>1. InboxTypeOK'
  BY DEF TimePasses, IInv, TypeOK, InboxTypeOK
<1>2. ClientTypeOK'
  BY DEF TimePasses, IInv, TypeOK, ClientTypeOK
<1> QED
  BY <1>1, <1>2, Frame
  DEF TimePasses, IInv, TypeOK, AcksOK, serverVars, admissionVars, storeVars,
      consumerVars

-----------------------------------------------------------------------------
(* The connection *)

LEMMA NextGeneration == ClientTypeOK => generation + 1 \in Nat
  BY DEF ClientTypeOK

LEMMA InvalidateTypes == ClientTypeOK /\ Invalidate => ClientTypeOK'
  BY NextGeneration, Zenon DEF Invalidate, ClientTypeOK

LEMMA DeadConnectionTypes ==
  ASSUME ClientTypeOK, NEW g, handleDeadConnection(g)
  PROVE  ClientTypeOK'
  BY InvalidateTypes, Frame, Zenon DEF handleDeadConnection

LEMMA ConnectStep == IInv /\ Connect => IInv'
<1> SUFFICES ASSUME IInv, Connect PROVE IInv'
  OBVIOUS
<1>1. generation + 1 \in Nat
  BY NextGeneration DEF IInv, TypeOK
<1>2. ServerTypeOK'
  BY <1>1, Zenon DEF Connect, IInv, TypeOK, ServerTypeOK
<1>3. ClientTypeOK'
  BY <1>1, Zenon DEF Connect, IInv, TypeOK, ClientTypeOK
<1> QED
  BY <1>2, <1>3, Frame
  DEF Connect, IInv, TypeOK, AcksOK, inboxVars, admissionVars, storeVars,
      consumerVars

LEMMA disconnectStep == IInv /\ disconnect => IInv'
<1> SUFFICES ASSUME IInv, disconnect PROVE IInv'
  OBVIOUS
<1>1. ClientTypeOK'
  BY InvalidateTypes DEF disconnect, IInv, TypeOK
<1>2. (faults \in Nat)'
  BY DEF disconnect, Fault, IInv, TypeOK
<1> QED
  BY <1>1, <1>2, Frame
  DEF disconnect, IInv, TypeOK, AcksOK, serverVars, inboxVars, admissionVars,
      storeVars, consumerVars

LEMMA onConnectionInterruptedStep == IInv /\ onConnectionInterrupted => IInv'
<1> SUFFICES ASSUME IInv, onConnectionInterrupted PROVE IInv'
  OBVIOUS
<1>1. ServerTypeOK'
  BY DEF onConnectionInterrupted, IInv, TypeOK, ServerTypeOK
<1>2. ClientTypeOK'
  BY DeadConnectionTypes DEF onConnectionInterrupted, IInv, TypeOK
<1>3. (faults \in Nat)'
  BY DEF onConnectionInterrupted, Fault, IInv, TypeOK
<1>4. AcksSafe'
  BY DEF onConnectionInterrupted, IInv, AcksOK, AcksSafe, Safe, StoreReplied,
         inboxVars, admissionVars, storeVars, consumerVars
<1> QED
  BY <1>1, <1>2, <1>3, <1>4, Frame
  DEF onConnectionInterrupted, IInv, TypeOK, AcksOK, inboxVars, admissionVars,
      storeVars, consumerVars

LEMMA CrashStep == IInv /\ Crash => IInv'
<1> SUFFICES ASSUME IInv, Crash PROVE IInv'
  OBVIOUS
<1>1. ServerTypeOK'
  BY DEF Crash, IInv, TypeOK, ServerTypeOK
<1>2. ClientTypeOK'
  BY NextGeneration, Zenon DEF Crash, IInv, TypeOK, ClientTypeOK
<1>3. TaskTypeOK'
  BY DEF Crash, TaskTypeOK
<1>4. ConsumerTypeOK'
  BY DEF Crash, IInv, TypeOK, ConsumerTypeOK
<1>5. TasksOK'
  BY DEF Crash, TasksOK, HeadsOK, CallsOK, DrainsOK, Calls, AdmissionDrains
<1>6. AdmittedArrived' /\ AcksSafe'
  BY DEF Crash, AdmittedArrived, AcksSafe, StoreReplied
<1>7. CompletedConsumed'
  BY DEF Crash, IInv, AcksOK, CompletedConsumed, Calls, inboxVars
<1>8. ExposedSafe'
  BY DEF Crash, IInv, AcksOK, ExposedSafe, Safe, inboxVars
<1>9. (faults \in Nat)'
  BY DEF Crash, Fault, IInv, TypeOK
<1>10. PageOK'
  BY DEF Crash, PageOK, StoreReplied
<1> QED
  BY <1>1, <1>2, <1>3, <1>4, <1>5, <1>6, <1>7, <1>8, <1>9, <1>10, Frame
  DEF Crash, IInv, TypeOK, AcksOK, inboxVars

-----------------------------------------------------------------------------
(* Queues: what a step that begins or ends a call or a task does to them *)

LEMMA CallBegins ==
  ASSUME storeQ \in Seq(StoreCall), NEW c \in StoreCall,
         storeQ' = Append(storeQ, c)
  PROVE  /\ storeQ' \in Seq(StoreCall)
         /\ storeQ' # <<>>
         /\ storeQ # <<>> => Head(storeQ') = Head(storeQ)
         /\ \A op : \A i \in Calls(op)' :
              \/ i \in Calls(op) /\ storeQ'[i] = storeQ[i]
              \/ i = Len(storeQ) + 1 /\ c.op = op /\ storeQ'[i] = c
<1>1. /\ storeQ' \in Seq(StoreCall)
      /\ storeQ' # <<>>
      /\ Len(storeQ') = Len(storeQ) + 1
      /\ \A i \in 1 .. Len(storeQ) : storeQ'[i] = storeQ[i]
      /\ storeQ'[Len(storeQ) + 1] = c
      /\ storeQ # <<>> => Head(storeQ') = Head(storeQ)
  BY AppendProps
<1>2. ASSUME NEW op, NEW i \in Calls(op)'
      PROVE  \/ i \in Calls(op) /\ storeQ'[i] = storeQ[i]
             \/ i = Len(storeQ) + 1 /\ c.op = op /\ storeQ'[i] = c
  <2>1. i \in 1 .. Len(storeQ) + 1 /\ storeQ'[i].op = op
    BY <1>1, <1>2 DEF Calls
  <2>2. i \in 1 .. Len(storeQ) \/ i = Len(storeQ) + 1
    BY <2>1, LenProperties
  <2> QED
    BY <1>1, <2>1, <2>2 DEF Calls
<1> QED
  BY <1>1, <1>2

LEMMA CallEnds ==
  ASSUME storeQ \in Seq(StoreCall), storeQ # <<>>, storeQ' = Tail(storeQ)
  PROVE  /\ storeQ' \in Seq(StoreCall)
         /\ 1 \in Calls(Head(storeQ).op)
         /\ \A op : \A i \in Calls(op)' :
              /\ i + 1 \in Calls(op) /\ i + 1 # 1
              /\ storeQ'[i] = storeQ[i + 1]
         /\ \A op : \A i \in Calls(op)', j \in Calls(op)' :
              i + 1 = j + 1 => i = j
<1>1. /\ Head(storeQ) = storeQ[1]
      /\ storeQ' \in Seq(StoreCall)
      /\ Len(storeQ) \in Nat \ {0}
      /\ Len(storeQ') = Len(storeQ) - 1
      /\ \A i \in 1 .. Len(storeQ) - 1 : storeQ'[i] = storeQ[i + 1]
  BY TailProps
<1> QED
  BY <1>1 DEF Calls

(* The reply of an accept, a prune or a list was the only one awaited.     *)
LEMMA CallEndsOK ==
  ASSUME TaskTypeOK, CallsOK, storeQ # <<>>, storeQ' = Tail(storeQ)
  PROVE  /\ storeQ' \in Seq(StoreCall)
         /\ \A op : Calls(op) = {} => Calls(op)' = {}
         /\ \A op \in {"accept", "prune", "list"} :
              /\ Head(storeQ).op = op => Calls(op)' = {}
              /\ \A i, j \in Calls(op)' : i = j
         /\ \A i \in Calls("complete")' :
              i + 1 \in Calls("complete") /\ storeQ'[i] = storeQ[i + 1]
<1>1. storeQ \in Seq(StoreCall)
  BY DEF TaskTypeOK
<1>2. /\ storeQ' \in Seq(StoreCall)
      /\ 1 \in Calls(Head(storeQ).op)
      /\ \A op : \A i \in Calls(op)' :
           /\ i + 1 \in Calls(op) /\ i + 1 # 1
           /\ storeQ'[i] = storeQ[i + 1]
      /\ \A op : \A i \in Calls(op)', j \in Calls(op)' :
           i + 1 = j + 1 => i = j
  BY <1>1, CallEnds
<1>3. \A op : Calls(op) = {} => Calls(op)' = {}
  BY <1>2
<1>4. \A op \in {"accept", "prune", "list"} : \A i, j \in Calls(op) : i = j
  BY DEF CallsOK
<1>5. \A op \in {"accept", "prune", "list"} :
        /\ Head(storeQ).op = op => Calls(op)' = {}
        /\ \A i, j \in Calls(op)' : i = j
  BY <1>2, <1>4
<1> QED
  BY <1>2, <1>3, <1>5

LEMMA AdmissionEnds ==
  ASSUME TaskTypeOK, AdmittedArrived, admissionQ # <<>>, EndAdmission,
         arrived' = arrived
  PROVE  /\ admissionQ' \in Seq([env : Envelopes, gen : Nat])
         /\ admissionPc' = "idle"
         /\ AdmittedArrived'
<1>1. /\ admissionQ' \in Seq([env : Envelopes, gen : Nat])
      /\ Len(admissionQ) \in Nat \ {0}
      /\ Len(admissionQ') = Len(admissionQ) - 1
      /\ \A i \in 1 .. Len(admissionQ) - 1 : admissionQ'[i] = admissionQ[i + 1]
  BY TailProps DEF EndAdmission, TaskTypeOK
<1>2. AdmittedArrived'
  BY <1>1 DEF AdmittedArrived
<1> QED
  BY <1>1, <1>2 DEF EndAdmission

LEMMA DrainEnds ==
  ASSUME TaskTypeOK, HeadsOK, DrainsOK, AdmittedArrived, drainQ # <<>>,
         EndDrain, arrived' = arrived
  PROVE  /\ drainQ' \in Seq([gen : Nat, admission : BOOLEAN])
         /\ drainPc' = "idle"
         /\ admissionQ' \in Seq([env : Envelopes, gen : Nat])
         /\ admissionPc' \in {"idle", "accept", "drain"}
         /\ admissionPc' # "idle" => admissionQ' # <<>>
         /\ admissionPc # "drain" => UNCHANGED admissionVars
         /\ admissionPc' = "accept" => admissionPc = "accept"
         /\ DrainsOK'
         /\ AdmittedArrived'
<1>1. /\ drainQ' \in Seq([gen : Nat, admission : BOOLEAN])
      /\ Head(drainQ) = drainQ[1]
      /\ Len(drainQ) \in Nat \ {0}
      /\ Len(drainQ') = Len(drainQ) - 1
      /\ \A i \in 1 .. Len(drainQ) - 1 : drainQ'[i] = drainQ[i + 1]
  BY TailProps DEF EndDrain, TaskTypeOK
<1>2. \A i \in AdmissionDrains' : i + 1 \in AdmissionDrains /\ i \in Nat \ {0}
  BY <1>1 DEF AdmissionDrains
<1>3. CASE Head(drainQ).admission
  <2>1. 1 \in AdmissionDrains
    BY <1>1, <1>3 DEF AdmissionDrains
  <2>2. AdmissionDrains' = {}
    BY <1>2, <2>1 DEF DrainsOK
  <2>3. admissionPc = "drain"
    BY <2>1 DEF DrainsOK
  <2>4. admissionQ # <<>>
    BY <2>3 DEF HeadsOK
  <2>5. EndAdmission
    BY <1>3 DEF EndDrain
  <2> QED
    BY <1>1, <2>2, <2>3, <2>4, <2>5, AdmissionEnds DEF EndDrain, DrainsOK
<1>4. CASE ~Head(drainQ).admission
  <2>1. UNCHANGED admissionVars
    BY <1>4 DEF EndDrain
  <2>2. DrainsOK'
    BY <1>2, <2>1 DEF DrainsOK, admissionVars
  <2>3. AdmittedArrived'
    BY <2>1 DEF AdmittedArrived, admissionVars
  <2> QED
    BY <1>1, <2>1, <2>2, <2>3
    DEF EndDrain, TaskTypeOK, HeadsOK, admissionVars
<1> QED
  BY <1>3, <1>4

(* A drain that no admission waits for may be queued at any time.          *)
LEMMA DrainBegins ==
  ASSUME TaskTypeOK, HeadsOK, DrainsOK, NEW g \in Nat,
         drainQ' = Append(drainQ, [gen |-> g, admission |-> FALSE]),
         UNCHANGED admissionVars
  PROVE  /\ drainQ' \in Seq([gen : Nat, admission : BOOLEAN])
         /\ drainQ' # <<>>
         /\ DrainsOK'
<1> DEFINE d == [gen |-> g, admission |-> FALSE]
<1>1. d \in [gen : Nat, admission : BOOLEAN]
  OBVIOUS
<1>2. /\ drainQ' \in Seq([gen : Nat, admission : BOOLEAN])
      /\ drainQ' # <<>>
      /\ Len(drainQ') = Len(drainQ) + 1
      /\ \A i \in 1 .. Len(drainQ) : drainQ'[i] = drainQ[i]
      /\ drainQ'[Len(drainQ) + 1] = d
  <2>1. drainQ \in Seq([gen : Nat, admission : BOOLEAN])
    BY DEF TaskTypeOK
  <2> QED
    BY SMTT(40), <1>1, <2>1, AppendProps
<1>3. Len(drainQ) \in Nat
  BY LenProperties DEF TaskTypeOK
<1>4. AdmissionDrains' \subseteq AdmissionDrains
  <2> SUFFICES ASSUME NEW i \in AdmissionDrains' PROVE i \in AdmissionDrains
    OBVIOUS
  <2>1. i \in 1 .. Len(drainQ) + 1 /\ drainQ'[i].admission
    BY <1>2 DEF AdmissionDrains
  <2>2. i # Len(drainQ) + 1
    BY <1>2, <2>1
  <2> QED
    BY <1>2, <1>3, <2>1, <2>2 DEF AdmissionDrains
<1> QED
  BY <1>2, <1>4 DEF DrainsOK, admissionVars

LEMMA startIncomingDeliveryStep == IInv /\ startIncomingDelivery => IInv'
<1> SUFFICES ASSUME IInv, startIncomingDelivery PROVE IInv'
  OBVIOUS
<1>1. ClientTypeOK'
  BY Zenon DEF startIncomingDelivery, IInv, TypeOK, ClientTypeOK
<1>2. TaskTypeOK' /\ TasksOK'
  <2>1. CASE UNCHANGED drainQ
    BY <2>1, Frame
    DEF startIncomingDelivery, IInv, TypeOK, drainVars
  <2>2. CASE drainQ' = Append(drainQ, [gen |-> generation, admission |-> FALSE])
    <3>1. /\ drainQ' \in Seq([gen : Nat, admission : BOOLEAN])
          /\ drainQ' # <<>>
          /\ DrainsOK'
      BY <2>2, DrainBegins
      DEF startIncomingDelivery, IInv, TypeOK, ClientTypeOK, TasksOK
    <3>2. UNCHANGED <<admissionVars, drainPc, storeVars>>
      BY DEF startIncomingDelivery
    <3> QED
      BY <3>1, <3>2
      DEF IInv, TypeOK, TaskTypeOK, TasksOK, HeadsOK, CallsOK, Calls,
          admissionVars, storeVars
  <2> QED
    BY <2>1, <2>2 DEF startIncomingDelivery
<1> QED
  BY <1>1, <1>2, Frame
  DEF startIncomingDelivery, IInv, TypeOK, AcksOK, serverVars, inboxVars,
      admissionVars, storeVars, consumerVars

LEMMA onQueueEmptyStep == IInv /\ onQueueEmpty => IInv'
<1> SUFFICES ASSUME IInv, onQueueEmpty PROVE IInv'
  OBVIOUS
<1>1. ServerTypeOK'
  BY Zenon DEF onQueueEmpty, IInv, TypeOK, ServerTypeOK
<1>2. ClientTypeOK'
  BY Zenon DEF onQueueEmpty, IInv, TypeOK, ClientTypeOK
<1>3. TaskTypeOK' /\ TasksOK'
  <2>1. CASE UNCHANGED drainQ
    BY <2>1, Frame DEF onQueueEmpty, IInv, TypeOK, drainVars
  <2>2. CASE drainQ' = Append(drainQ, [gen |-> session, admission |-> FALSE])
    <3>1. /\ drainQ' \in Seq([gen : Nat, admission : BOOLEAN])
          /\ drainQ' # <<>>
          /\ DrainsOK'
      BY <2>2, DrainBegins
      DEF onQueueEmpty, IInv, TypeOK, ServerTypeOK, TasksOK
    <3>2. UNCHANGED <<admissionVars, drainPc, storeVars>>
      BY DEF onQueueEmpty
    <3> QED
      BY <3>1, <3>2
      DEF IInv, TypeOK, TaskTypeOK, TasksOK, HeadsOK, CallsOK, Calls,
          admissionVars, storeVars
  <2> QED
    BY <2>1, <2>2 DEF onQueueEmpty
<1> QED
  BY <1>1, <1>2, <1>3, Frame
  DEF onQueueEmpty, IInv, TypeOK, AcksOK, inboxVars, admissionVars, storeVars,
      consumerVars

LEMMA onIncomingMessageStep ==
  ASSUME IInv, NEW e \in Envelopes, onIncomingMessage(e)
  PROVE  IInv'
<1>1. e \in Nat /\ e \in 1 .. arrived
  BY DEF onIncomingMessage, NextToSend, Envelopes, IInv, TypeOK, ServerTypeOK
<1>2. ServerTypeOK'
  BY <1>1 DEF onIncomingMessage, IInv, TypeOK, ServerTypeOK
<1>3. CASE UNCHANGED admissionQ
  BY <1>2, <1>3, Frame
  DEF onIncomingMessage, IInv, TypeOK, AcksOK, inboxVars, admissionVars,
      storeVars, consumerVars
<1>4. CASE admissionQ' = Append(admissionQ, [env |-> e, gen |-> session])
  <2> DEFINE a == [env |-> e, gen |-> session]
  <2>1. a \in [env : Envelopes, gen : Nat]
    BY DEF IInv, TypeOK, ServerTypeOK
  <2>2. /\ admissionQ' \in Seq([env : Envelopes, gen : Nat])
        /\ admissionQ' # <<>>
        /\ Len(admissionQ') = Len(admissionQ) + 1
        /\ \A i \in 1 .. Len(admissionQ) : admissionQ'[i] = admissionQ[i]
        /\ admissionQ'[Len(admissionQ) + 1] = a
        /\ admissionQ # <<>> => Head(admissionQ') = Head(admissionQ)
    BY <1>4, <2>1, AppendProps DEF IInv, TypeOK, TaskTypeOK
  <2>3. UNCHANGED <<admissionPc, drainVars, storeVars>>
    BY DEF onIncomingMessage
  <2>4. TaskTypeOK' /\ TasksOK'
    <3>1. TaskTypeOK'
      BY <2>2, <2>3 DEF IInv, TypeOK, TaskTypeOK, drainVars, storeVars
    <3>2. HeadsOK'
      BY <2>2, <2>3 DEF IInv, TasksOK, HeadsOK, drainVars, storeVars
    <3>3. CallsOK' /\ DrainsOK'
      BY <2>3
      DEF IInv, TasksOK, CallsOK, DrainsOK, Calls, AdmissionDrains, drainVars,
          storeVars
    <3> QED
      BY <3>1, <3>2, <3>3 DEF TasksOK
  <2>5. AdmittedArrived'
    <3>1. Len(admissionQ) \in Nat
      BY LenProperties DEF IInv, TypeOK, TaskTypeOK
    <3>2. arrived' = arrived
      BY DEF onIncomingMessage
    <3> SUFFICES ASSUME NEW i \in 1 .. Len(admissionQ')
                 PROVE  admissionQ'[i].env <= arrived
      BY <3>2 DEF AdmittedArrived
    <3>3. CASE i \in 1 .. Len(admissionQ)
      BY <2>2, <3>3 DEF IInv, AcksOK, AdmittedArrived
    <3>4. CASE i = Len(admissionQ) + 1
      BY <1>1, <2>2, <3>4
    <3> QED
      BY <2>2, <3>1, <3>3, <3>4
  <2>6. AcksSafe'
    <3>1. UNCHANGED <<ackWire, row, consumed, storeVars>>
      BY DEF onIncomingMessage, inboxVars, consumerVars
    <3>2. StoreReplied("accept", "ok") => admissionQ # <<>>
      <4>1. ASSUME StoreReplied("accept", "ok") PROVE admissionQ # <<>>
        <5>1. 1 \in Calls("accept")
          BY <4>1, TailProps
          DEF StoreReplied, Calls, IInv, TypeOK, TaskTypeOK
        <5> QED
          BY <5>1 DEF IInv, TasksOK, CallsOK, HeadsOK
      <4> QED
        BY <4>1
    <3> QED
      BY <2>2, <3>1, <3>2
      DEF IInv, AcksOK, AcksSafe, Safe, StoreReplied, storeVars
  <2> QED
    BY <1>2, <2>4, <2>5, <2>6, Frame
    DEF onIncomingMessage, IInv, TypeOK, AcksOK, inboxVars, storeVars,
        consumerVars
<1> QED
  BY <1>3, <1>4 DEF onIncomingMessage

-----------------------------------------------------------------------------
(* The store *)

(* An accept in progress is the head admission's.                          *)
LEMMA AcceptHasAdmission ==
  ASSUME IInv, storeQ # <<>>, Head(storeQ).op = "accept"
  PROVE  /\ admissionPc = "accept"
         /\ admissionQ # <<>>
         /\ Head(admissionQ) \in [env : Envelopes, gen : Nat]
         /\ Head(admissionQ).env \in 1 .. arrived
<1>1. 1 \in Calls("accept")
  BY TailProps DEF Calls, IInv, TypeOK, TaskTypeOK
<1>2. admissionPc = "accept" /\ admissionQ # <<>>
  BY <1>1 DEF IInv, TasksOK, CallsOK, HeadsOK
<1>3. /\ Head(admissionQ) \in [env : Envelopes, gen : Nat]
      /\ Head(admissionQ) = admissionQ[1]
      /\ Len(admissionQ) \in Nat \ {0}
  BY <1>2, TailProps DEF IInv, TypeOK, TaskTypeOK
<1>4. Head(admissionQ).env <= arrived
  BY <1>3 DEF IInv, AcksOK, AdmittedArrived
<1> QED
  BY <1>2, <1>3, <1>4 DEF Envelopes

(* A step of the store changes storePc and leaves the queues.              *)
LEMMA StoreWorksTasks ==
  ASSUME IInv, storeQ # <<>>, storePc' \in {"ok", "failed"},
         page' \subseteq Envelopes,
         UNCHANGED <<storeQ, admissionVars, drainVars>>
  PROVE  TaskTypeOK' /\ TasksOK'
<1>1. TaskTypeOK'
  BY DEF IInv, TypeOK, TaskTypeOK, admissionVars, drainVars
<1>2. HeadsOK'
  BY DEF IInv, TasksOK, HeadsOK, admissionVars, drainVars
<1>3. CallsOK' /\ DrainsOK'
  BY DEF IInv, TasksOK, CallsOK, DrainsOK, Calls, AdmissionDrains,
         admissionVars, drainVars
<1> QED
  BY <1>1, <1>2, <1>3 DEF TasksOK

LEMMA StoreAcceptStep == IInv /\ StoreAccept => IInv'
<1> SUFFICES ASSUME IInv, StoreAccept PROVE IInv'
  OBVIOUS
<1> DEFINE e == Head(admissionQ).env
<1>1. storeQ # <<>> /\ Head(storeQ).op = "accept"
  BY DEF StoreAccept, NextCall
<1>2. e \in Envelopes
  BY <1>1, AcceptHasAdmission
<1>3. nextRow \in Nat \ {0} /\ row \in [Envelopes -> 0 .. nextRow - 1]
  BY DEF IInv, TypeOK, InboxTypeOK
<1>4. UNCHANGED <<storeQ, page, admissionVars, drainVars, serverVars, done, aged,
                  days, clientVars, consumerVars, faults>>
  BY DEF StoreAccept
<1>5. /\ nextRow' \in Nat \ {0}
      /\ row' \in [Envelopes -> 0 .. nextRow' - 1]
      /\ \A f \in Envelopes : row[f] # 0 => row'[f] # 0
      /\ row'[e] # 0
  <2>1. CASE row[e] = 0
    BY <1>2, <1>3, <2>1 DEF StoreAccept
  <2>2. CASE row[e] # 0
    BY <1>2, <1>3, <2>2 DEF StoreAccept
  <2> QED
    BY <2>1, <2>2
<1>6. InboxTypeOK'
  BY <1>4, <1>5 DEF IInv, TypeOK, InboxTypeOK
<1>7. TaskTypeOK' /\ TasksOK'
  BY <1>1, <1>4, StoreWorksTasks
  DEF StoreAccept, IInv, TypeOK, TaskTypeOK
<1>8. AcksSafe' /\ ExposedSafe' /\ NoLoss'
  <2>1. \A f \in Envelopes : Safe(f) => Safe(f)'
    BY <1>4, <1>5 DEF Safe, consumerVars
  <2>2. 1 .. arrived \subseteq Envelopes
    BY InboundAssumption
    DEF InboundAssumption, Envelopes, IInv, TypeOK, ServerTypeOK
  <2>3. AcksSafe'
    BY <1>4, <1>5, <2>1
    DEF IInv, TypeOK, ServerTypeOK, AcksOK, AcksSafe, Safe, StoreReplied,
        serverVars, admissionVars
  <2>4. ExposedSafe'
    BY <1>4, <2>1 DEF IInv, AcksOK, ExposedSafe, consumerVars
  <2>5. NoLoss'
    BY <1>4, <1>5, <2>2 DEF IInv, NoLoss, serverVars, consumerVars
  <2> QED
    BY <2>3, <2>4, <2>5
<1>9. PageOK'
  BY <1>1, <1>4 DEF PageOK, StoreReplied
<1> QED
  BY <1>4, <1>6, <1>7, <1>8, <1>9, Frame
  DEF IInv, TypeOK, AcksOK, serverVars, admissionVars, consumerVars

LEMMA StoreCompleteStep == IInv /\ StoreComplete => IInv'
<1> SUFFICES ASSUME IInv, StoreComplete PROVE IInv'
  OBVIOUS
<1> DEFINE d == Head(storeQ).del
<1>1. storeQ # <<>> /\ Head(storeQ).op = "complete"
  BY DEF StoreComplete, NextCall
<1>2. 1 \in Calls("complete") /\ Head(storeQ) = storeQ[1]
  BY <1>1, TailProps DEF Calls, IInv, TypeOK, TaskTypeOK
<1>3. d \in Delivery /\ d.env \in consumed
  BY <1>2 DEF IInv, AcksOK, CompletedConsumed
<1>4. UNCHANGED <<storeQ, page, admissionVars, drainVars, serverVars, row, nextRow,
                  aged, days, clientVars, consumerVars, faults>>
  BY DEF StoreComplete
<1>5. done' = done \/ done' = done \cup {d.env}
  BY DEF StoreComplete
<1>6. InboxTypeOK'
  BY <1>3, <1>4, <1>5 DEF IInv, TypeOK, InboxTypeOK, Delivery
<1>7. TaskTypeOK' /\ TasksOK'
  BY <1>1, <1>4, StoreWorksTasks
  DEF StoreComplete, IInv, TypeOK, TaskTypeOK
<1>8. CompletedConsumed'
  BY <1>3, <1>4, <1>5
  DEF IInv, AcksOK, CompletedConsumed, Calls, consumerVars
<1>9. AcksSafe'
  BY <1>1, <1>4
  DEF IInv, AcksOK, AcksSafe, Safe, StoreReplied, serverVars, admissionVars,
      consumerVars
<1>10. PageOK'
  BY <1>1, <1>4 DEF PageOK, StoreReplied
<1> QED
  BY <1>4, <1>6, <1>7, <1>8, <1>9, <1>10, Frame
  DEF IInv, TypeOK, AcksOK, serverVars, admissionVars, consumerVars

(* A prune removes rows that the consumer has processed.                   *)
LEMMA StorePruneStep == IInv /\ StorePrune => IInv'
<1> SUFFICES ASSUME IInv, StorePrune PROVE IInv'
  OBVIOUS
<1>1. storeQ # <<>> /\ Head(storeQ).op = "prune"
  BY DEF StorePrune, NextCall
<1>2. UNCHANGED <<storeQ, page, admissionVars, drainVars, serverVars, nextRow, days,
                  clientVars, consumerVars, faults>>
  BY DEF StorePrune
<1>3. /\ \A f \in Envelopes : row'[f] \in 0 .. nextRow - 1
      /\ \A f \in Envelopes : row'[f] # row[f] => f \in consumed
  BY DEF StorePrune, IInv, TypeOK, InboxTypeOK, AcksOK, CompletedConsumed
<1>4. InboxTypeOK'
  <2>1. row' \in [Envelopes -> 0 .. nextRow - 1]
    BY <1>3 DEF StorePrune
  <2> QED
    BY <1>2, <2>1 DEF StorePrune, IInv, TypeOK, InboxTypeOK
<1>5. TaskTypeOK' /\ TasksOK'
  BY <1>1, <1>2, StoreWorksTasks
  DEF StorePrune, IInv, TypeOK, TaskTypeOK
<1>6. \A f \in Envelopes : Safe(f) => Safe(f)'
  BY <1>2, <1>3 DEF Safe, consumerVars
<1>7. AcksSafe'
  BY <1>1, <1>2, <1>6
  DEF IInv, TypeOK, ServerTypeOK, AcksOK, AcksSafe, StoreReplied, serverVars
<1>8. ExposedSafe'
  BY <1>2, <1>6 DEF IInv, AcksOK, ExposedSafe, consumerVars
<1>9. CompletedConsumed'
  BY <1>2
  DEF StorePrune, IInv, AcksOK, CompletedConsumed, Calls, consumerVars
<1>10. NoLoss'
  <2>1. 1 .. arrived \subseteq Envelopes
    BY InboundAssumption
    DEF InboundAssumption, Envelopes, IInv, TypeOK, ServerTypeOK
  <2> QED
    BY <1>2, <1>6, <2>1 DEF IInv, NoLoss, Safe, serverVars
<1>11. PageOK'
  BY <1>1, <1>2 DEF PageOK, StoreReplied
<1> QED
  BY <1>2, <1>4, <1>5, <1>7, <1>8, <1>9, <1>10, <1>11, Frame
  DEF IInv, TypeOK, AcksOK, serverVars, admissionVars

LEMMA StoreListStep == IInv /\ StoreList => IInv'
<1> SUFFICES ASSUME IInv, StoreList PROVE IInv'
  OBVIOUS
<1>1. storeQ # <<>> /\ Head(storeQ).op = "list"
  BY DEF StoreList, NextCall
<1>2. TaskTypeOK' /\ TasksOK'
  <2>1. page' \subseteq Envelopes
    BY DEF StoreList, Listed, Pending
  <2> QED
    BY <1>1, <2>1, StoreWorksTasks DEF StoreList
<1>3. AcksSafe'
  BY <1>1
  DEF StoreList, IInv, AcksOK, AcksSafe, Safe, StoreReplied, serverVars,
      inboxVars, consumerVars
<1>4. PageOK'
  BY DEF StoreList, PageOK, Listed, Pending, inboxVars
<1> QED
  BY <1>2, <1>3, <1>4, Frame
  DEF StoreList, IInv, TypeOK, AcksOK, serverVars, inboxVars, admissionVars,
      consumerVars

LEMMA StoreFailsStep == IInv /\ StoreFails => IInv'
<1> SUFFICES ASSUME IInv, StoreFails PROVE IInv'
  OBVIOUS
<1>1. TaskTypeOK' /\ TasksOK'
  BY StoreWorksTasks DEF StoreFails, IInv, TypeOK, TaskTypeOK
<1>2. AcksSafe'
  BY DEF StoreFails, IInv, AcksOK, AcksSafe, Safe, StoreReplied, serverVars,
         inboxVars, consumerVars
<1>3. (faults \in Nat)'
  BY DEF StoreFails, Fault, IInv, TypeOK
<1>4. PageOK'
  BY DEF StoreFails, PageOK, StoreReplied
<1> QED
  BY <1>1, <1>2, <1>3, <1>4, Frame
  DEF StoreFails, IInv, TypeOK, AcksOK, serverVars, inboxVars, admissionVars,
      consumerVars

-----------------------------------------------------------------------------
(* Admission *)

LEMMA NoAcceptReply ==
  ASSUME IInv, admissionPc # "accept"
  PROVE  /\ Calls("accept") = {}
         /\ storeQ # <<>> => Head(storeQ).op # "accept"
  BY AcceptHasAdmission DEF IInv, TasksOK, CallsOK

(* A reply leaves the store free for the next call in order.               *)
LEMMA ReplyEnds ==
  ASSUME IInv, storeQ # <<>>, EndCall,
         done' = done, consumed \subseteq consumed'
  PROVE  /\ storeQ' \in Seq(StoreCall)
         /\ storePc' = "idle" /\ page' = {}
         /\ \A op : Calls(op) = {} => Calls(op)' = {}
         /\ \A op \in {"accept", "prune", "list"} :
              /\ Head(storeQ).op = op => Calls(op)' = {}
              /\ \A i, j \in Calls(op)' : i = j
         /\ CompletedConsumed'
         /\ \A o : ~StoreReplied(o, "ok")'
<1>1. /\ storeQ' \in Seq(StoreCall)
      /\ \A op : Calls(op) = {} => Calls(op)' = {}
      /\ \A op \in {"accept", "prune", "list"} :
           /\ Head(storeQ).op = op => Calls(op)' = {}
           /\ \A i, j \in Calls(op)' : i = j
      /\ \A i \in Calls("complete")' :
           i + 1 \in Calls("complete") /\ storeQ'[i] = storeQ[i + 1]
  BY CallEndsOK DEF EndCall, IInv, TypeOK, TasksOK
<1>2. CompletedConsumed'
  BY <1>1 DEF IInv, AcksOK, CompletedConsumed
<1>3. storePc' = "idle" /\ page' = {} /\ \A o : ~StoreReplied(o, "ok")'
  BY DEF EndCall, StoreReplied
<1> QED
  BY <1>1, <1>2, <1>3

(* An admission that ends with the reply of its accept.                    *)
LEMMA AcceptEnds ==
  ASSUME IInv, NEW pc, StoreReplied("accept", pc), EndCall, EndAdmission,
         UNCHANGED <<arrived, done, consumed, drainVars>>
  PROVE  /\ TaskTypeOK' /\ TasksOK' /\ AdmittedArrived' /\ CompletedConsumed'
         /\ \A o : ~StoreReplied(o, "ok")'
<1>1. storeQ # <<>> /\ Head(storeQ).op = "accept"
  BY DEF StoreReplied
<1>2. admissionPc = "accept" /\ admissionQ # <<>>
  BY <1>1, AcceptHasAdmission
<1>3. /\ storeQ' \in Seq(StoreCall)
      /\ storePc' = "idle" /\ page' = {}
      /\ \A op : Calls(op) = {} => Calls(op)' = {}
      /\ \A op \in {"accept", "prune", "list"} :
           /\ Head(storeQ).op = op => Calls(op)' = {}
           /\ \A i, j \in Calls(op)' : i = j
      /\ CompletedConsumed'
      /\ \A o : ~StoreReplied(o, "ok")'
  BY <1>1, ReplyEnds
<1>4. /\ admissionQ' \in Seq([env : Envelopes, gen : Nat])
      /\ admissionPc' = "idle"
      /\ AdmittedArrived'
  BY <1>2, AdmissionEnds DEF IInv, TypeOK, AcksOK
<1>5. AdmissionDrains = {}
  BY <1>2 DEF IInv, TasksOK, DrainsOK
<1>6. TaskTypeOK'
  BY <1>3, <1>4 DEF IInv, TypeOK, TaskTypeOK, drainVars
<1>7. HeadsOK'
  BY <1>3, <1>4 DEF IInv, TasksOK, HeadsOK, drainVars
<1>8. CallsOK'
  <2>1. Calls("accept")' = {}
    BY <1>1, <1>3
  <2>2. \A i \in Calls("prune")' : drainPc' = "prune"
    BY <1>3 DEF IInv, TasksOK, CallsOK, drainVars
  <2>3. \A i \in Calls("list")' : drainPc' = "list"
    BY <1>3 DEF IInv, TasksOK, CallsOK, drainVars
  <2> QED
    BY <1>3, <2>1, <2>2, <2>3 DEF CallsOK
<1>9. DrainsOK'
  BY <1>5 DEF DrainsOK, AdmissionDrains, drainVars
<1> QED
  BY <1>3, <1>4, <1>6, <1>7, <1>8, <1>9 DEF TasksOK

LEMMA StartAdmissionStep == IInv /\ StartAdmission => IInv'
<1> SUFFICES ASSUME IInv, StartAdmission PROVE IInv'
  OBVIOUS
<1>1. /\ Calls("accept") = {}
      /\ storeQ # <<>> => Head(storeQ).op # "accept"
  BY NoAcceptReply DEF StartAdmission
<1>2. AdmissionDrains = {}
  BY DEF StartAdmission, IInv, TasksOK, DrainsOK
<1>3. UNCHANGED <<serverVars, inboxVars, clientVars, drainVars, storePc, page,
                  consumerVars, faults>>
  BY DEF StartAdmission
<1>4. CASE AdmissionLive
  <2>1. /\ admissionPc' = "accept" /\ admissionQ' = admissionQ
        /\ admissionQ # <<>>
        /\ storeQ' = Append(storeQ, AcceptCall)
    BY <1>4 DEF StartAdmission
  <2>2. /\ storeQ' \in Seq(StoreCall)
        /\ storeQ' # <<>>
        /\ storeQ # <<>> => Head(storeQ') = Head(storeQ)
        /\ \A op : \A i \in Calls(op)' :
             \/ i \in Calls(op) /\ storeQ'[i] = storeQ[i]
             \/ /\ i = Len(storeQ) + 1 /\ AcceptCall.op = op
                /\ storeQ'[i] = AcceptCall
    BY <2>1, CallBegins, CallTypes DEF IInv, TypeOK, TaskTypeOK
  <2>3. /\ \A i \in Calls("accept")' : i = Len(storeQ) + 1
        /\ Calls("prune")' \subseteq Calls("prune")
        /\ Calls("list")' \subseteq Calls("list")
        /\ \A i \in Calls("complete")' :
             i \in Calls("complete") /\ storeQ'[i] = storeQ[i]
    BY <1>1, <2>2 DEF AcceptCall
  <2>4. TaskTypeOK'
    BY <1>3, <2>1, <2>2 DEF IInv, TypeOK, TaskTypeOK, drainVars
  <2>5. HeadsOK'
    BY <1>3, <2>1, <2>2 DEF IInv, TasksOK, HeadsOK, drainVars
  <2>6. CallsOK'
    BY <1>3, <2>1, <2>3 DEF IInv, TasksOK, CallsOK, drainVars
  <2>7. DrainsOK'
    BY <1>2, <1>3 DEF DrainsOK, AdmissionDrains, drainVars
  <2>8. AdmittedArrived'
    BY <1>3, <2>1 DEF IInv, AcksOK, AdmittedArrived, serverVars
  <2>9. AcksSafe'
    BY <1>1, <1>3, <2>1, <2>2
    DEF IInv, TasksOK, HeadsOK, AcksOK, AcksSafe, Safe, StoreReplied,
        serverVars, inboxVars, consumerVars
  <2>10. CompletedConsumed'
    BY <1>3, <2>3
    DEF IInv, AcksOK, CompletedConsumed, inboxVars, consumerVars
  <2>11. PageOK'
    BY <1>3, <2>2, PageKept DEF inboxVars
  <2> QED
    BY <1>3, <2>4, <2>5, <2>6, <2>7, <2>8, <2>9, <2>10, <2>11,
       Frame
    DEF IInv, TypeOK, TasksOK, AcksOK, serverVars, inboxVars, consumerVars
<1>5. CASE ~AdmissionLive
  <2>1. EndAdmission /\ storeQ' = storeQ /\ admissionQ # <<>>
    BY <1>5 DEF StartAdmission
  <2>2. /\ admissionQ' \in Seq([env : Envelopes, gen : Nat])
        /\ admissionPc' = "idle"
        /\ AdmittedArrived'
    BY <1>3, <2>1, AdmissionEnds DEF IInv, TypeOK, AcksOK, serverVars
  <2>3. TaskTypeOK'
    BY <1>3, <2>1, <2>2 DEF IInv, TypeOK, TaskTypeOK, drainVars
  <2>4. TasksOK'
    BY <1>1, <1>2, <1>3, <2>1, <2>2
    DEF IInv, TasksOK, HeadsOK, CallsOK, DrainsOK, Calls, AdmissionDrains,
        drainVars
  <2>5. AcksSafe'
    BY <1>1, <1>3, <2>1
    DEF IInv, AcksOK, AcksSafe, Safe, StoreReplied, serverVars, inboxVars,
        consumerVars
  <2>6. PageOK'
    BY <1>3, <2>1, PageKept DEF inboxVars
  <2> QED
    BY <1>3, <2>1, <2>2, <2>3, <2>4, <2>5, <2>6, Frame
    DEF IInv, TypeOK, AcksOK, serverVars, inboxVars, consumerVars
<1> QED
  BY <1>4, <1>5

LEMMA AcceptRejectedStep == IInv /\ AcceptRejected => IInv'
<1> SUFFICES ASSUME IInv, AcceptRejected PROVE IInv'
  OBVIOUS
<1>1. UNCHANGED <<serverVars, inboxVars, drainVars, consumerVars, faults>>
  BY DEF AcceptRejected
<1>2. ClientTypeOK'
  BY DeadConnectionTypes DEF AcceptRejected, IInv, TypeOK
<1>3. /\ TaskTypeOK' /\ TasksOK' /\ AdmittedArrived' /\ CompletedConsumed'
      /\ \A o : ~StoreReplied(o, "ok")'
  BY <1>1, AcceptEnds DEF AcceptRejected, serverVars, inboxVars, consumerVars
<1>4. AcksSafe'
  BY <1>1, <1>3
  DEF IInv, AcksOK, AcksSafe, Safe, serverVars, inboxVars, consumerVars
<1> QED
  BY <1>1, <1>2, <1>3, <1>4, Frame, PageAfterReply
  DEF IInv, TypeOK, AcksOK, serverVars, inboxVars, consumerVars

LEMMA AcceptStaleStep == IInv /\ AcceptStale => IInv'
<1> SUFFICES ASSUME IInv, AcceptStale PROVE IInv'
  OBVIOUS
<1>1. UNCHANGED <<serverVars, inboxVars, clientVars, drainVars, consumerVars,
                  faults>>
  BY DEF AcceptStale
<1>2. /\ TaskTypeOK' /\ TasksOK' /\ AdmittedArrived' /\ CompletedConsumed'
      /\ \A o : ~StoreReplied(o, "ok")'
  BY <1>1, AcceptEnds DEF AcceptStale, serverVars, inboxVars, consumerVars
<1>3. AcksSafe'
  BY <1>1, <1>2
  DEF IInv, AcksOK, AcksSafe, Safe, serverVars, inboxVars, consumerVars
<1> QED
  BY <1>1, <1>2, <1>3, Frame, PageAfterReply
  DEF IInv, TypeOK, AcksOK, serverVars, inboxVars, consumerVars

LEMMA AcceptAckFailsStep == IInv /\ AcceptAckFails => IInv'
<1> SUFFICES ASSUME IInv, AcceptAckFails PROVE IInv'
  OBVIOUS
<1>1. UNCHANGED <<serverVars, inboxVars, drainVars, consumerVars>>
  BY DEF AcceptAckFails
<1>2. ClientTypeOK' /\ (faults \in Nat)'
  BY InvalidateTypes DEF AcceptAckFails, Fault, IInv, TypeOK
<1>3. /\ TaskTypeOK' /\ TasksOK' /\ AdmittedArrived' /\ CompletedConsumed'
      /\ \A o : ~StoreReplied(o, "ok")'
  BY <1>1, AcceptEnds DEF AcceptAckFails, serverVars, inboxVars, consumerVars
<1>4. AcksSafe'
  BY <1>1, <1>3
  DEF IInv, AcksOK, AcksSafe, Safe, serverVars, inboxVars, consumerVars
<1> QED
  BY <1>1, <1>2, <1>3, <1>4, Frame, PageAfterReply
  DEF IInv, TypeOK, AcksOK, serverVars, inboxVars, consumerVars

LEMMA AcceptAcknowledgedStep == IInv /\ AcceptAcknowledged => IInv'
<1> SUFFICES ASSUME IInv, AcceptAcknowledged PROVE IInv'
  OBVIOUS
<1> DEFINE a == Head(admissionQ)
<1>1. UNCHANGED <<arrived, retained, session, sentTo, emptySent, inboxVars,
                  clientVars, drainPc, consumerVars, faults>>
  BY DEF AcceptAcknowledged
<1>2. /\ storeQ # <<>> /\ Head(storeQ).op = "accept"
      /\ StoreReplied("accept", "ok") /\ EndCall
  BY DEF AcceptAcknowledged, StoreReplied
<1>3. /\ admissionPc = "accept" /\ admissionQ # <<>>
      /\ a \in [env : Envelopes, gen : Nat]
  BY <1>2, AcceptHasAdmission
<1>4. ackWire' = ackWire \cup {a.env} /\ Safe(a.env)
  BY <1>2 DEF AcceptAcknowledged, IInv, AcksOK, AcksSafe
<1>5. ServerTypeOK'
  BY <1>1, <1>3, <1>4 DEF IInv, TypeOK, ServerTypeOK
<1>6. /\ TaskTypeOK' /\ TasksOK' /\ AdmittedArrived' /\ CompletedConsumed'
      /\ \A o : ~StoreReplied(o, "ok")'
  <2>1. CASE EndAdmission /\ UNCHANGED drainQ
    BY <1>1, <1>2, <2>1, AcceptEnds DEF drainVars, inboxVars, consumerVars
  <2>2. CASE /\ drainQ' = Append(drainQ, [gen |-> a.gen, admission |-> TRUE])
             /\ admissionPc' = "drain"
             /\ UNCHANGED admissionQ
    <3>1. [gen |-> a.gen, admission |-> TRUE] \in [gen : Nat, admission : BOOLEAN]
      BY <1>3
    <3>2. /\ drainQ' \in Seq([gen : Nat, admission : BOOLEAN])
          /\ drainQ' # <<>>
          /\ Len(drainQ') = Len(drainQ) + 1
          /\ \A i \in 1 .. Len(drainQ) : drainQ'[i] = drainQ[i]
      BY SMTT(40), <2>2, <3>1, AppendProps DEF IInv, TypeOK, TaskTypeOK
    <3>3. /\ storeQ' \in Seq(StoreCall)
          /\ storePc' = "idle" /\ page' = {}
          /\ \A op : Calls(op) = {} => Calls(op)' = {}
          /\ \A op \in {"accept", "prune", "list"} :
               /\ Head(storeQ).op = op => Calls(op)' = {}
               /\ \A i, j \in Calls(op)' : i = j
          /\ CompletedConsumed'
          /\ \A o : ~StoreReplied(o, "ok")'
      BY <1>1, <1>2, ReplyEnds DEF inboxVars, consumerVars
    <3>4. TaskTypeOK'
      BY <1>1, <2>2, <3>2, <3>3 DEF IInv, TypeOK, TaskTypeOK
    <3>5. HeadsOK'
      BY <1>1, <1>3, <2>2, <3>2, <3>3 DEF IInv, TasksOK, HeadsOK
    <3>6. CallsOK'
      <4>1. Calls("accept")' = {}
        BY <1>2, <3>3
      <4>2. \A i \in Calls("prune")' : drainPc' = "prune"
        BY <1>1, <3>3 DEF IInv, TasksOK, CallsOK
      <4>3. \A i \in Calls("list")' : drainPc' = "list"
        BY <1>1, <3>3 DEF IInv, TasksOK, CallsOK
      <4> QED
        BY <3>3, <4>1, <4>2, <4>3 DEF CallsOK
    <3>7. DrainsOK'
      <4>1. AdmissionDrains = {}
        BY <1>3 DEF IInv, TasksOK, DrainsOK
      <4>2. Len(drainQ) \in Nat
        BY LenProperties DEF IInv, TypeOK, TaskTypeOK
      <4>3. \A i \in AdmissionDrains' : i = Len(drainQ) + 1
        BY SMTT(40), <3>2, <4>1, <4>2 DEF AdmissionDrains
      <4> QED
        BY <2>2, <4>3 DEF DrainsOK
    <3>8. AdmittedArrived'
      BY <1>1, <2>2 DEF IInv, AcksOK, AdmittedArrived
    <3> QED
      BY <3>3, <3>4, <3>5, <3>6, <3>7, <3>8 DEF TasksOK
  <2> QED
    BY <2>1, <2>2 DEF AcceptAcknowledged
<1>7. AcksSafe'
  BY <1>1, <1>4, <1>6
  DEF IInv, AcksOK, AcksSafe, Safe, inboxVars, consumerVars
<1> QED
  BY <1>1, <1>5, <1>6, <1>7, Frame, PageAfterReply
  DEF IInv, TypeOK, AcksOK, inboxVars, consumerVars

-----------------------------------------------------------------------------
(* Drains *)

(* A drain that ends with the reply of its prune or list.                  *)
LEMMA DrainReplyEnds ==
  ASSUME IInv, NEW op \in {"prune", "list"}, storeQ # <<>>,
         Head(storeQ).op = op, EndCall, EndDrain,
         UNCHANGED <<arrived, done, consumed>>
  PROVE  /\ TaskTypeOK' /\ TasksOK' /\ AdmittedArrived' /\ CompletedConsumed'
         /\ \A o : ~StoreReplied(o, "ok")'
<1>1. 1 \in Calls(op)
  BY TailProps DEF Calls, IInv, TypeOK, TaskTypeOK
<1>2. drainPc = op /\ drainQ # <<>>
  BY <1>1 DEF IInv, TasksOK, CallsOK, HeadsOK
<1>3. /\ storeQ' \in Seq(StoreCall)
      /\ storePc' = "idle" /\ page' = {}
      /\ \A o : Calls(o) = {} => Calls(o)' = {}
      /\ \A o \in {"accept", "prune", "list"} :
           /\ Head(storeQ).op = o => Calls(o)' = {}
           /\ \A i, j \in Calls(o)' : i = j
      /\ CompletedConsumed'
      /\ \A o : ~StoreReplied(o, "ok")'
  BY ReplyEnds
<1>4. /\ drainQ' \in Seq([gen : Nat, admission : BOOLEAN])
      /\ drainPc' = "idle"
      /\ admissionQ' \in Seq([env : Envelopes, gen : Nat])
      /\ admissionPc' \in {"idle", "accept", "drain"}
      /\ admissionPc' # "idle" => admissionQ' # <<>>
      /\ admissionPc # "drain" => UNCHANGED admissionVars
      /\ DrainsOK'
      /\ AdmittedArrived'
  BY <1>2, DrainEnds DEF IInv, TypeOK, TasksOK, AcksOK
<1>5. TaskTypeOK'
  BY <1>3, <1>4 DEF TaskTypeOK
<1>6. HeadsOK'
  BY <1>3, <1>4 DEF HeadsOK
<1>7. CallsOK'
  <2>1. Calls("prune")' = {} /\ Calls("list")' = {}
    BY <1>2, <1>3 DEF IInv, TasksOK, CallsOK
  <2>2. \A i \in Calls("accept")' : admissionPc' = "accept"
    BY <1>3, <1>4 DEF IInv, TasksOK, CallsOK, admissionVars
  <2> QED
    BY <1>3, <2>1, <2>2 DEF CallsOK
<1> QED
  BY <1>3, <1>4, <1>5, <1>6, <1>7 DEF TasksOK

(* A drain that ends before it calls the store.                            *)
LEMMA DrainAbandoned ==
  ASSUME IInv, drainPc = "idle", drainQ # <<>>, EndDrain,
         UNCHANGED <<serverVars, inboxVars, storeVars, consumerVars>>
  PROVE  TaskTypeOK' /\ TasksOK' /\ AdmittedArrived' /\ AcksSafe' /\ PageOK'
<1>1. /\ drainQ' \in Seq([gen : Nat, admission : BOOLEAN])
      /\ drainPc' = "idle"
      /\ admissionQ' \in Seq([env : Envelopes, gen : Nat])
      /\ admissionPc' \in {"idle", "accept", "drain"}
      /\ admissionPc' # "idle" => admissionQ' # <<>>
      /\ admissionPc # "drain" => UNCHANGED admissionVars
      /\ DrainsOK'
      /\ AdmittedArrived'
  BY DrainEnds DEF IInv, TypeOK, TasksOK, AcksOK, serverVars
<1>2. TaskTypeOK'
  BY <1>1 DEF IInv, TypeOK, TaskTypeOK, storeVars
<1>3. HeadsOK'
  BY <1>1 DEF IInv, TasksOK, HeadsOK, storeVars
<1>4. CallsOK'
  <2>1. Calls("prune") = {} /\ Calls("list") = {}
    BY DEF IInv, TasksOK, CallsOK
  <2>2. \A op : Calls(op)' = Calls(op)
    BY DEF Calls, storeVars
  <2> QED
    BY <1>1, <2>1, <2>2 DEF IInv, TasksOK, CallsOK, admissionVars
<1>5. AcksSafe'
  <2>1. CASE admissionPc = "drain"
    BY <2>1, NoAcceptReply
    DEF IInv, AcksOK, AcksSafe, Safe, StoreReplied, serverVars, inboxVars,
        storeVars, consumerVars
  <2>2. CASE admissionPc # "drain"
    BY <1>1, <2>2, Frame
    DEF IInv, AcksOK, serverVars, inboxVars, consumerVars, admissionVars
  <2> QED
    BY <2>1, <2>2
<1>6. PageOK'
  BY Frame DEF IInv, inboxVars
<1> QED
  BY <1>1, <1>2, <1>3, <1>4, <1>5, <1>6 DEF TasksOK

(* A drain makes its first call of the store.                              *)
LEMMA DrainCalls ==
  ASSUME IInv, drainPc = "idle", drainQ # <<>>,
         NEW c \in {PruneCall, ListCall}, drainPc' = c.op,
         storeQ' = Append(storeQ, c),
         UNCHANGED <<serverVars, inboxVars, drainQ, admissionVars, storePc, page,
                     consumerVars>>
  PROVE  /\ TaskTypeOK' /\ TasksOK' /\ AdmittedArrived' /\ AcksSafe'
         /\ CompletedConsumed' /\ PageOK'
<1>1. c \in StoreCall /\ c.op \in {"prune", "list"}
  BY CallTypes DEF PruneCall, ListCall
<1>2. /\ storeQ' \in Seq(StoreCall)
      /\ storeQ' # <<>>
      /\ storeQ # <<>> => Head(storeQ') = Head(storeQ)
      /\ \A op : \A i \in Calls(op)' :
           \/ i \in Calls(op) /\ storeQ'[i] = storeQ[i]
           \/ i = Len(storeQ) + 1 /\ c.op = op /\ storeQ'[i] = c
  BY <1>1, CallBegins DEF IInv, TypeOK, TaskTypeOK
<1>3. Calls("prune") = {} /\ Calls("list") = {}
  BY DEF IInv, TasksOK, CallsOK
<1>4. TaskTypeOK'
  BY <1>1, <1>2 DEF IInv, TypeOK, TaskTypeOK, admissionVars
<1>5. HeadsOK'
  BY <1>2 DEF IInv, TasksOK, HeadsOK, admissionVars
<1>6. CallsOK'
  <2>1. Calls("accept")' \subseteq Calls("accept")
    BY <1>1, <1>2
  <2>2. \A i \in Calls("prune")' : i = Len(storeQ) + 1 /\ drainPc' = "prune"
    BY <1>2, <1>3
  <2>3. \A i \in Calls("list")' : i = Len(storeQ) + 1 /\ drainPc' = "list"
    BY <1>2, <1>3
  <2> QED
    BY <2>1, <2>2, <2>3 DEF IInv, TasksOK, CallsOK, admissionVars
<1>7. DrainsOK'
  BY DEF IInv, TasksOK, DrainsOK, AdmissionDrains, admissionVars
<1>8. AdmittedArrived'
  BY DEF IInv, AcksOK, AdmittedArrived, admissionVars, serverVars
<1>9. AcksSafe'
  BY <1>2
  DEF IInv, TasksOK, HeadsOK, AcksOK, AcksSafe, Safe, StoreReplied,
      serverVars, inboxVars, consumerVars, admissionVars
<1>10. CompletedConsumed'
  <2>1. \A i \in Calls("complete")' :
          i \in Calls("complete") /\ storeQ'[i] = storeQ[i]
    BY <1>1, <1>2
  <2> QED
    BY <2>1 DEF IInv, AcksOK, CompletedConsumed, inboxVars, consumerVars
<1>11. PageOK'
  BY <1>2, PageKept DEF inboxVars
<1> QED
  BY <1>4, <1>5, <1>6, <1>7, <1>8, <1>9, <1>10, <1>11 DEF TasksOK

LEMMA StartDrainStep == IInv /\ StartDrain => IInv'
<1> SUFFICES ASSUME IInv, StartDrain PROVE IInv'
  OBVIOUS
<1>1. /\ drainPc = "idle" /\ drainQ # <<>>
      /\ UNCHANGED <<serverVars, inboxVars, generation, acceptingIncoming,
                     serverQueueEmpty, incomingDeliveryStarted, claims,
                     pruneDue, storePc, page, consumerVars, faults>>
      /\ retryTimer' = retryTimer \/ retryTimer' = FALSE
  BY DEF StartDrain, CheckCapacity
<1>2. ClientTypeOK'
  BY <1>1 DEF IInv, TypeOK, ClientTypeOK
<1>3. CASE EndDrain /\ storeQ' = storeQ
  <2>1. TaskTypeOK' /\ TasksOK' /\ AdmittedArrived' /\ AcksSafe' /\ PageOK'
    BY <1>1, <1>3, DrainAbandoned DEF storeVars
  <2> QED
    BY <1>1, <1>2, <1>3, <2>1, Frame
    DEF IInv, TypeOK, AcksOK, serverVars, inboxVars, consumerVars
<1>4. ASSUME NEW c \in {PruneCall, ListCall}, drainPc' = c.op,
             storeQ' = Append(storeQ, c),
             UNCHANGED <<drainQ, admissionVars>>
      PROVE  IInv'
  <2>1. /\ TaskTypeOK' /\ TasksOK' /\ AdmittedArrived' /\ AcksSafe'
        /\ CompletedConsumed' /\ PageOK'
    BY <1>1, <1>4, DrainCalls
  <2> QED
    BY <1>1, <1>2, <2>1, Frame
    DEF IInv, TypeOK, AcksOK, serverVars, inboxVars, consumerVars
<1>5. CASE DrainLive /\ pruneDue
  BY <1>4, <1>5 DEF StartDrain, PruneCall
<1>6. CASE CheckCapacity(storeQ)
  BY <1>3, <1>4, <1>6 DEF CheckCapacity, ListCall
<1> QED
  BY <1>3, <1>5, <1>6 DEF StartDrain

(* The prune's reply makes way for the list of the same drain.             *)
LEMMA PruneThenList ==
  ASSUME IInv, StoreReplied("prune", "ok"), storePc' = "idle", page' = {},
         drainPc' = "list", storeQ' = Append(Tail(storeQ), ListCall),
         UNCHANGED <<arrived, done, consumed, drainQ, admissionVars>>
  PROVE  /\ TaskTypeOK' /\ TasksOK' /\ AdmittedArrived' /\ CompletedConsumed'
         /\ \A o : ~StoreReplied(o, "ok")'
<1>1. storeQ # <<>> /\ Head(storeQ).op = "prune"
  BY DEF StoreReplied
<1>2. Head(storeQ) = storeQ[1] /\ Len(storeQ) \in Nat \ {0}
  BY <1>1, TailProps DEF IInv, TypeOK, TaskTypeOK
<1>3. /\ storeQ' \in Seq(StoreCall)
      /\ storeQ' # <<>>
      /\ Len(storeQ') = Len(storeQ)
      /\ \A i \in 1 .. Len(storeQ) - 1 : storeQ'[i] = storeQ[i + 1]
      /\ storeQ'[Len(storeQ)] = ListCall
  BY <1>1, CallTypes, ReplaceProps DEF IInv, TypeOK, TaskTypeOK
<1>4. ASSUME NEW op, NEW i \in Calls(op)'
      PROVE  \/ /\ i \in 1 .. Len(storeQ) - 1 /\ i + 1 \in Calls(op)
                /\ i + 1 # 1 /\ storeQ'[i] = storeQ[i + 1]
             \/ i = Len(storeQ) /\ op = "list"
  <2>1. i \in 1 .. Len(storeQ) /\ storeQ'[i].op = op
    BY <1>3, <1>4 DEF Calls
  <2>2. CASE i = Len(storeQ)
    BY <1>3, <2>1, <2>2 DEF ListCall
  <2>3. CASE i \in 1 .. Len(storeQ) - 1
    <3>1. i + 1 \in 1 .. Len(storeQ) /\ i + 1 # 1
      BY <1>2, <2>3
    <3>2. storeQ'[i] = storeQ[i + 1]
      BY <1>3, <2>3
    <3> QED
      BY <2>1, <2>3, <3>1, <3>2 DEF Calls
  <2> QED
    BY <1>2, <2>1, <2>2, <2>3
<1>5. 1 \in Calls("prune")
  BY <1>1, <1>2 DEF Calls
<1>6. /\ drainPc = "prune" /\ drainQ # <<>>
      /\ Calls("list") = {}
      /\ \A i \in Calls("prune") : i = 1
  BY <1>5 DEF IInv, TasksOK, CallsOK, HeadsOK
<1>7. TaskTypeOK'
  BY <1>3 DEF IInv, TypeOK, TaskTypeOK, admissionVars
<1>8. HeadsOK'
  BY <1>3, <1>6 DEF IInv, TasksOK, HeadsOK, admissionVars
<1>9. CallsOK'
  <2>1. Calls("prune")' = {}
    BY <1>4, <1>6
  <2>2. \A i \in Calls("list")' : i = Len(storeQ)
    BY <1>4, <1>6
  <2>3. \A i \in Calls("accept")' : i \in Nat /\ i + 1 \in Calls("accept")
    BY <1>4
  <2>4. \A i \in Calls("accept")' : admissionPc' = "accept"
    BY <2>3 DEF IInv, TasksOK, CallsOK, admissionVars
  <2>5. \A i, j \in Calls("accept")' : i = j
    BY <2>3 DEF IInv, TasksOK, CallsOK
  <2> QED
    BY <2>1, <2>2, <2>4, <2>5 DEF CallsOK
<1>10. DrainsOK'
  BY DEF IInv, TasksOK, DrainsOK, AdmissionDrains, admissionVars
<1>11. AdmittedArrived'
  BY DEF IInv, AcksOK, AdmittedArrived, admissionVars
<1>12. CompletedConsumed'
  BY <1>4 DEF IInv, AcksOK, CompletedConsumed
<1>13. \A o : ~StoreReplied(o, "ok")'
  BY DEF StoreReplied
<1> QED
  BY <1>7, <1>8, <1>9, <1>10, <1>11, <1>12, <1>13 DEF TasksOK

LEMMA PruneRepliedStep == IInv /\ PruneReplied => IInv'
<1> SUFFICES ASSUME IInv, PruneReplied PROVE IInv'
  OBVIOUS
<1>1. /\ StoreReplied("prune", "ok") /\ storePc' = "idle" /\ page' = {}
      /\ storeQ # <<>> /\ Head(storeQ).op = "prune"
      /\ UNCHANGED <<serverVars, inboxVars, generation, acceptingIncoming,
                     serverQueueEmpty, incomingDeliveryStarted, claims,
                     consumerVars, faults>>
      /\ retryTimer' = retryTimer \/ retryTimer' = FALSE
      /\ pruneDue' = pruneDue \/ pruneDue' = FALSE
  BY DEF PruneReplied, CheckCapacity, StoreReplied
<1>2. ClientTypeOK'
  BY <1>1 DEF IInv, TypeOK, ClientTypeOK
<1>3. /\ TaskTypeOK' /\ TasksOK' /\ AdmittedArrived' /\ CompletedConsumed'
      /\ \A o : ~StoreReplied(o, "ok")'
  <2>1. CASE EndDrain /\ storeQ' = Tail(storeQ)
    BY <1>1, <2>1, DrainReplyEnds
    DEF EndCall, serverVars, inboxVars, consumerVars
  <2>2. CASE /\ drainPc' = "list"
             /\ storeQ' = Append(Tail(storeQ), ListCall)
             /\ UNCHANGED <<drainQ, admissionVars>>
    BY <1>1, <2>2, PruneThenList DEF serverVars, inboxVars, consumerVars
  <2> QED
    BY <2>1, <2>2 DEF PruneReplied, CheckCapacity
<1>4. AcksSafe'
  BY <1>1, <1>3
  DEF IInv, AcksOK, AcksSafe, Safe, serverVars, inboxVars, consumerVars
<1> QED
  BY <1>1, <1>2, <1>3, <1>4, Frame, PageAfterReply
  DEF IInv, TypeOK, AcksOK, serverVars, inboxVars, consumerVars

LEMMA DrainCallFailsStep == IInv /\ DrainCallFails => IInv'
<1> SUFFICES ASSUME IInv, DrainCallFails PROVE IInv'
  OBVIOUS
<1>1. /\ UNCHANGED <<serverVars, inboxVars, generation, acceptingIncoming,
                     serverQueueEmpty, incomingDeliveryStarted, claims,
                     pruneDue, consumerVars, faults>>
      /\ EndCall /\ EndDrain
      /\ storeQ # <<>> /\ Head(storeQ).op \in {"prune", "list"}
  BY DEF DrainCallFails, StoreReplied
<1>2. retryTimer' \in BOOLEAN
  BY DEF DrainCallFails, scheduleIncomingDrainRetry
<1>3. ClientTypeOK'
  BY <1>1, <1>2 DEF IInv, TypeOK, ClientTypeOK
<1>4. /\ TaskTypeOK' /\ TasksOK' /\ AdmittedArrived' /\ CompletedConsumed'
      /\ \A o : ~StoreReplied(o, "ok")'
  BY <1>1, DrainReplyEnds DEF serverVars, inboxVars, consumerVars
<1>5. AcksSafe'
  BY <1>1, <1>4
  DEF IInv, AcksOK, AcksSafe, Safe, serverVars, inboxVars, consumerVars
<1> QED
  BY <1>1, <1>3, <1>4, <1>5, Frame, PageAfterReply
  DEF IInv, TypeOK, AcksOK, serverVars, inboxVars, consumerVars

LEMMA ListStaleStep == IInv /\ ListStale => IInv'
<1> SUFFICES ASSUME IInv, ListStale PROVE IInv'
  OBVIOUS
<1>1. /\ UNCHANGED <<serverVars, inboxVars, clientVars, consumerVars, faults>>
      /\ EndCall /\ EndDrain
      /\ storeQ # <<>> /\ Head(storeQ).op = "list"
  BY DEF ListStale, StoreReplied
<1>2. /\ TaskTypeOK' /\ TasksOK' /\ AdmittedArrived' /\ CompletedConsumed'
      /\ \A o : ~StoreReplied(o, "ok")'
  BY <1>1, DrainReplyEnds DEF serverVars, inboxVars, consumerVars
<1>3. AcksSafe'
  BY <1>1, <1>2
  DEF IInv, AcksOK, AcksSafe, Safe, serverVars, inboxVars, consumerVars
<1> QED
  BY <1>1, <1>2, <1>3, Frame, PageAfterReply
  DEF IInv, TypeOK, AcksOK, serverVars, inboxVars, consumerVars

(* The rows that a drain exposes: the consumer gets deliveries of stored   *)
(* envelopes only.                                                         *)
LEMMA Exposure ==
  ASSUME IInv, StoreReplied("list", "ok"), NEW E \in SUBSET Fresh, CountExposures(E),
         held' \subseteq held \cup NewDeliveries(E),
         claims' \subseteq claims \cup NewDeliveries(E),
         UNCHANGED <<row, consumed>>
  PROVE  ConsumerTypeOK' /\ ExposedSafe' /\ claims' \subseteq Delivery
<1>1. E \subseteq Envelopes /\ \A e \in E : row[e] # 0
  BY DEF Fresh, IInv, PageOK, Listed, Pending
<1>2. times \in [Envelopes -> Nat] /\ generation \in Nat
  BY DEF IInv, TypeOK, ConsumerTypeOK, ClientTypeOK
<1>3. /\ times' \in [Envelopes -> Nat]
      /\ \A e \in Envelopes : times'[e] = IF e \in E THEN times[e] + 1
                                                     ELSE times[e]
  BY <1>2 DEF CountExposures
<1>4. NewDeliveries(E) \subseteq Delivery
  BY <1>1, <1>2 DEF NewDeliveries, Delivery
<1>5. \A d \in NewDeliveries(E) : d.env \in E
  BY DEF NewDeliveries
<1>6. ConsumerTypeOK'
  BY <1>3, <1>4 DEF IInv, TypeOK, ConsumerTypeOK
<1>7. claims' \subseteq Delivery
  BY <1>4 DEF IInv, TypeOK, ClientTypeOK
<1>8. \A d \in held' : times'[d.env] > 0
  <2>1. \A e \in Envelopes : times[e] > 0 => times'[e] > 0
    BY <1>2, <1>3
  <2>2. \A e \in E : times'[e] > 0
    BY <1>1, <1>2, <1>3
  <2>3. \A d \in held : d.env \in Envelopes /\ times[d.env] > 0
    BY DEF IInv, TypeOK, ConsumerTypeOK, AcksOK, ExposedSafe, Delivery
  <2> QED
    BY <1>5, <2>1, <2>2, <2>3
<1>9. \A e \in Envelopes : times'[e] > 0 => Safe(e)'
  BY <1>1, <1>2, <1>3 DEF IInv, AcksOK, ExposedSafe, Safe
<1>10. \A e \in consumed' : times'[e] > 0
  BY <1>2, <1>3 DEF IInv, TypeOK, ConsumerTypeOK, AcksOK, ExposedSafe
<1> QED
  BY <1>6, <1>7, <1>8, <1>9, <1>10 DEF ExposedSafe

LEMMA ListRepliedStep == IInv /\ ListReplied => IInv'
<1> SUFFICES ASSUME IInv, ListReplied PROVE IInv'
  OBVIOUS
<1>1. /\ UNCHANGED <<serverVars, inboxVars, generation, acceptingIncoming,
                     serverQueueEmpty, incomingDeliveryStarted, pruneDue,
                     consumed, faults>>
      /\ retryTimer' = FALSE
      /\ EndCall /\ EndDrain
      /\ storeQ # <<>> /\ Head(storeQ).op = "list"
  BY DEF ListReplied, StoreReplied
<1>2. ConsumerTypeOK' /\ ExposedSafe' /\ claims' \subseteq Delivery
  BY <1>1, Exposure DEF ListReplied, inboxVars
<1>3. ClientTypeOK'
  BY <1>1, <1>2 DEF IInv, TypeOK, ClientTypeOK
<1>4. /\ TaskTypeOK' /\ TasksOK' /\ AdmittedArrived' /\ CompletedConsumed'
      /\ \A o : ~StoreReplied(o, "ok")'
  BY <1>1, DrainReplyEnds DEF serverVars, inboxVars
<1>5. AcksSafe'
  BY <1>1, <1>4 DEF IInv, AcksOK, AcksSafe, Safe, serverVars, inboxVars
<1> QED
  BY <1>1, <1>2, <1>3, <1>4, <1>5, Frame, PageAfterReply
  DEF IInv, TypeOK, AcksOK, serverVars, inboxVars

LEMMA HandlerThrowsStep == IInv /\ HandlerThrows => IInv'
<1> SUFFICES ASSUME IInv, HandlerThrows PROVE IInv'
  OBVIOUS
<1>1. /\ UNCHANGED <<serverVars, inboxVars, generation, acceptingIncoming,
                     serverQueueEmpty, incomingDeliveryStarted, pruneDue,
                     consumed>>
      /\ retryTimer' \in BOOLEAN
      /\ EndCall /\ EndDrain
      /\ storeQ # <<>> /\ Head(storeQ).op = "list"
  BY DEF HandlerThrows, StoreReplied, scheduleIncomingDrainRetry
<1>2. ConsumerTypeOK' /\ ExposedSafe' /\ claims' \subseteq Delivery
  <2>1. PICK E \in SUBSET Fresh : \E last \in E :
          /\ claims' = ClaimsAfterThrow(E, last)
          /\ held' = held \cup NewDeliveries(E \ {last})
          /\ CountExposures(E)
    BY DEF HandlerThrows
  <2>2. \A last \in E : NewDeliveries(E \ {last}) \subseteq NewDeliveries(E)
    BY DEF NewDeliveries
  <2>3. StoreReplied("list", "ok")
    BY DEF HandlerThrows
  <2> QED
    BY <1>1, <2>1, <2>2, <2>3, Exposure DEF ClaimsAfterThrow, inboxVars
<1>3. ClientTypeOK' /\ (faults \in Nat)'
  BY <1>1, <1>2 DEF HandlerThrows, Fault, IInv, TypeOK, ClientTypeOK
<1>4. /\ TaskTypeOK' /\ TasksOK' /\ AdmittedArrived' /\ CompletedConsumed'
      /\ \A o : ~StoreReplied(o, "ok")'
  BY <1>1, DrainReplyEnds DEF serverVars, inboxVars
<1>5. AcksSafe'
  BY <1>1, <1>4 DEF IInv, AcksOK, AcksSafe, Safe, serverVars, inboxVars
<1> QED
  BY <1>1, <1>2, <1>3, <1>4, <1>5, Frame, PageAfterReply
  DEF IInv, TypeOK, AcksOK, serverVars, inboxVars

(* A step that may queue a drain which no admission waits for.             *)
LEMMA MayRequestDrain ==
  ASSUME IInv, NEW g \in Nat, requestIncomingDrain(g), UNCHANGED admissionVars
  PROVE  /\ drainQ' \in Seq([gen : Nat, admission : BOOLEAN])
         /\ drainQ # <<>> => drainQ' # <<>>
         /\ DrainsOK'
<1>1. CASE drainQ' = drainQ
  BY <1>1
  DEF IInv, TypeOK, TaskTypeOK, TasksOK, DrainsOK, AdmissionDrains,
      admissionVars
<1>2. CASE drainQ' = Append(drainQ, [gen |-> g, admission |-> FALSE])
  BY <1>2, DrainBegins DEF IInv, TypeOK, TasksOK
<1> QED
  BY <1>1, <1>2 DEF requestIncomingDrain

LEMMA RetryTimerFiresStep == IInv /\ RetryTimerFires => IInv'
<1> SUFFICES ASSUME IInv, RetryTimerFires PROVE IInv'
  OBVIOUS
<1>1. UNCHANGED <<serverVars, inboxVars, generation, acceptingIncoming,
                  serverQueueEmpty, incomingDeliveryStarted, claims, pruneDue,
                  admissionVars, drainPc, storeVars, consumerVars, faults>>
  BY DEF RetryTimerFires
<1>2. ClientTypeOK'
  BY <1>1 DEF RetryTimerFires, IInv, TypeOK, ClientTypeOK
<1>3. /\ drainQ' \in Seq([gen : Nat, admission : BOOLEAN])
      /\ drainQ # <<>> => drainQ' # <<>>
      /\ DrainsOK'
  BY <1>1, MayRequestDrain DEF RetryTimerFires, IInv, TypeOK, ClientTypeOK
<1>4. TaskTypeOK' /\ TasksOK'
  BY <1>1, <1>3
  DEF IInv, TypeOK, TaskTypeOK, TasksOK, HeadsOK, CallsOK, Calls,
      admissionVars, storeVars
<1> QED
  BY <1>1, <1>2, <1>4, Frame
  DEF IInv, TypeOK, AcksOK, serverVars, inboxVars, admissionVars, storeVars,
      consumerVars

-----------------------------------------------------------------------------
(* The consumer *)

LEMMA ConsumerAcksStep ==
  ASSUME IInv, NEW d \in held, ConsumerAcks(d)
  PROVE  IInv'
<1>1. /\ UNCHANGED <<serverVars, inboxVars, clientVars, admissionVars,
                     drainVars, storePc, page, times, faults>>
      /\ held' = held \ {d}
      /\ consumed' = consumed \cup {d.env}
      /\ storeQ' = Append(storeQ, CompleteCall(d))
  BY DEF ConsumerAcks
<1>2. d \in Delivery /\ d.env \in Envelopes
  BY DEF IInv, TypeOK, ConsumerTypeOK, Delivery
<1>3. ConsumerTypeOK'
  BY <1>1, <1>2 DEF IInv, TypeOK, ConsumerTypeOK
<1>4. /\ storeQ' \in Seq(StoreCall)
      /\ storeQ' # <<>>
      /\ storeQ # <<>> => Head(storeQ') = Head(storeQ)
      /\ \A op : \A i \in Calls(op)' :
           \/ i \in Calls(op) /\ storeQ'[i] = storeQ[i]
           \/ /\ i = Len(storeQ) + 1 /\ CompleteCall(d).op = op
              /\ storeQ'[i] = CompleteCall(d)
  BY <1>1, <1>2, CallTypes, CallBegins DEF IInv, TypeOK, TaskTypeOK
<1>5. TaskTypeOK'
  BY <1>1, <1>4 DEF IInv, TypeOK, TaskTypeOK, admissionVars, drainVars
<1>6. HeadsOK'
  BY <1>1, <1>4 DEF IInv, TasksOK, HeadsOK, admissionVars, drainVars
<1>7. CallsOK'
  <2>1. \A op \in {"accept", "prune", "list"} : Calls(op)' \subseteq Calls(op)
    BY <1>4 DEF CompleteCall
  <2> QED
    BY <1>1, <2>1 DEF IInv, TasksOK, CallsOK, admissionVars, drainVars
<1>8. DrainsOK'
  BY <1>1
  DEF IInv, TasksOK, DrainsOK, AdmissionDrains, admissionVars, drainVars
<1>9. \A e : Safe(e) => Safe(e)'
  BY <1>1 DEF Safe, inboxVars
<1>10. AcksSafe'
  BY <1>1, <1>4, <1>9
  DEF IInv, TasksOK, HeadsOK, AcksOK, AcksSafe, StoreReplied, serverVars,
      admissionVars
<1>11. CompletedConsumed'
  <2>1. CompleteCall(d).del = d
    BY DEF CompleteCall
  <2>2. \A i \in Calls("complete")' : storeQ'[i].del \in Delivery
                                      /\ storeQ'[i].del.env \in consumed'
    BY <1>1, <1>2, <1>4, <2>1 DEF IInv, AcksOK, CompletedConsumed
  <2> QED
    BY <1>1, <2>2 DEF IInv, AcksOK, CompletedConsumed, inboxVars
<1>12. ExposedSafe'
  BY <1>1, <1>9 DEF IInv, AcksOK, ExposedSafe
<1>13. NoLoss'
  BY <1>1 DEF IInv, NoLoss, serverVars, inboxVars
<1>14. AdmittedArrived'
  BY <1>1, Frame DEF IInv, AcksOK, serverVars, admissionVars
<1>15. PageOK'
  BY <1>1, <1>4, PageKept DEF inboxVars
<1> QED
  BY <1>1, <1>3, <1>5, <1>6, <1>7, <1>8, <1>10, <1>11, <1>12, <1>13, <1>14,
     <1>15, Frame
  DEF IInv, TypeOK, TasksOK, AcksOK, serverVars, inboxVars

(* A completion that has ended is a delivery of a processed envelope.      *)
LEMMA CompletionEnds ==
  ASSUME IInv, storeQ # <<>>, Head(storeQ).op = "complete"
  PROVE  /\ Head(storeQ).del \in Delivery
         /\ Head(storeQ).del.env \in consumed
<1>1. 1 \in Calls("complete") /\ Head(storeQ) = storeQ[1]
  BY TailProps DEF Calls, IInv, TypeOK, TaskTypeOK
<1> QED
  BY <1>1 DEF IInv, AcksOK, CompletedConsumed

(* The tasks after the reply of a completion.                              *)
LEMMA CompletionTasks ==
  ASSUME IInv, storeQ # <<>>, Head(storeQ).op = "complete", EndCall,
         UNCHANGED <<done, consumed, admissionVars, drainPc>>,
         drainQ' \in Seq([gen : Nat, admission : BOOLEAN]),
         drainQ # <<>> => drainQ' # <<>>,
         DrainsOK'
  PROVE  /\ TaskTypeOK' /\ TasksOK' /\ CompletedConsumed'
         /\ \A o : ~StoreReplied(o, "ok")'
<1>1. /\ storeQ' \in Seq(StoreCall)
      /\ storePc' = "idle" /\ page' = {}
      /\ \A op : Calls(op) = {} => Calls(op)' = {}
      /\ \A op \in {"accept", "prune", "list"} :
           /\ Head(storeQ).op = op => Calls(op)' = {}
           /\ \A i, j \in Calls(op)' : i = j
      /\ CompletedConsumed'
      /\ \A o : ~StoreReplied(o, "ok")'
  BY ReplyEnds
<1>2. TaskTypeOK'
  BY <1>1 DEF IInv, TypeOK, TaskTypeOK, admissionVars
<1>3. HeadsOK'
  BY <1>1 DEF IInv, TasksOK, HeadsOK, admissionVars
<1>4. CallsOK'
  <2>1. \A i \in Calls("accept")' : admissionPc' = "accept"
    BY <1>1 DEF IInv, TasksOK, CallsOK, admissionVars
  <2>2. \A i \in Calls("prune")' : drainPc' = "prune"
    BY <1>1 DEF IInv, TasksOK, CallsOK
  <2>3. \A i \in Calls("list")' : drainPc' = "list"
    BY <1>1 DEF IInv, TasksOK, CallsOK
  <2> QED
    BY <1>1, <2>1, <2>2, <2>3 DEF CallsOK
<1> QED
  BY <1>1, <1>2, <1>3, <1>4 DEF TasksOK

LEMMA CompleteRepliedStep == IInv /\ CompleteReplied => IInv'
<1> SUFFICES ASSUME IInv, CompleteReplied PROVE IInv'
  OBVIOUS
<1> DEFINE d == Head(storeQ).del
<1>1. /\ UNCHANGED <<serverVars, inboxVars, generation, acceptingIncoming,
                     serverQueueEmpty, incomingDeliveryStarted, retryTimer,
                     pruneDue, admissionVars, drainPc, consumerVars, faults>>
      /\ claims' = claims \ {d}
      /\ EndCall
      /\ storeQ # <<>> /\ Head(storeQ).op = "complete"
  BY DEF CompleteReplied, StoreReplied
<1>2. ClientTypeOK'
  BY <1>1 DEF IInv, TypeOK, ClientTypeOK
<1>3. d.gen \in Nat
  BY <1>1, CompletionEnds DEF Delivery
<1>4. /\ drainQ' \in Seq([gen : Nat, admission : BOOLEAN])
      /\ drainQ # <<>> => drainQ' # <<>>
      /\ DrainsOK'
  <2>1. CASE drainQ' = drainQ
    BY <1>1, <2>1
    DEF IInv, TypeOK, TaskTypeOK, TasksOK, DrainsOK, AdmissionDrains,
        admissionVars
  <2>2. CASE requestIncomingDrain(d.gen)
    BY <1>1, <1>3, <2>2, MayRequestDrain
  <2> QED
    BY <2>1, <2>2 DEF CompleteReplied
<1>5. /\ TaskTypeOK' /\ TasksOK' /\ CompletedConsumed'
      /\ \A o : ~StoreReplied(o, "ok")'
  BY <1>1, <1>4, CompletionTasks DEF inboxVars, consumerVars
<1>6. AcksSafe'
  BY <1>1, <1>5
  DEF IInv, AcksOK, AcksSafe, Safe, serverVars, inboxVars, consumerVars
<1> QED
  BY <1>1, <1>2, <1>5, <1>6, Frame, PageAfterReply
  DEF IInv, TypeOK, AcksOK, serverVars, inboxVars, admissionVars, consumerVars

LEMMA CompleteFailsStep == IInv /\ CompleteFails => IInv'
<1> SUFFICES ASSUME IInv, CompleteFails PROVE IInv'
  OBVIOUS
<1> DEFINE d == Head(storeQ).del
<1>1. /\ UNCHANGED <<serverVars, inboxVars, generation, acceptingIncoming,
                     serverQueueEmpty, incomingDeliveryStarted, pruneDue,
                     admissionVars, drainVars, times, consumed, faults>>
      /\ held' = held \cup {d}
      /\ claims' = claims \ {d}
      /\ EndCall
      /\ storeQ # <<>> /\ Head(storeQ).op = "complete"
  BY DEF CompleteFails, StoreReplied
<1>2. d \in Delivery /\ d.env \in consumed
  BY <1>1, CompletionEnds
<1>3. ClientTypeOK'
  <2>1. retryTimer' \in BOOLEAN
    BY DEF CompleteFails, scheduleIncomingDrainRetry, IInv, TypeOK,
           ClientTypeOK
  <2> QED
    BY <1>1, <2>1 DEF IInv, TypeOK, ClientTypeOK
<1>4. ConsumerTypeOK'
  BY <1>1, <1>2 DEF IInv, TypeOK, ConsumerTypeOK
<1>5. /\ TaskTypeOK' /\ TasksOK' /\ CompletedConsumed'
      /\ \A o : ~StoreReplied(o, "ok")'
  <2>1. DrainsOK'
    BY <1>1
    DEF IInv, TasksOK, DrainsOK, AdmissionDrains, drainVars, admissionVars
  <2>2. drainQ' \in Seq([gen : Nat, admission : BOOLEAN])
    BY <1>1 DEF IInv, TypeOK, TaskTypeOK, drainVars
  <2> QED
    BY <1>1, <2>1, <2>2, CompletionTasks DEF inboxVars, drainVars
<1>6. AcksSafe'
  BY <1>1, <1>5 DEF IInv, AcksOK, AcksSafe, Safe, serverVars, inboxVars
<1>7. ExposedSafe'
  BY <1>1, <1>2 DEF IInv, AcksOK, ExposedSafe, Safe, inboxVars
<1> QED
  BY <1>1, <1>3, <1>4, <1>5, <1>6, <1>7, Frame, PageAfterReply
  DEF IInv, TypeOK, AcksOK, serverVars, inboxVars, admissionVars

-----------------------------------------------------------------------------
(* The invariant of the specification *)

LEMMA StutterStep == IInv /\ UNCHANGED vars => IInv'
  BY Frame
  DEF vars, IInv, TypeOK, AcksOK, serverVars, inboxVars, admissionVars,
      storeVars, consumerVars

LEMMA IInvStep == IInv /\ [Next]_vars => IInv'
<1> SUFFICES ASSUME IInv, [Next]_vars PROVE IInv'
  OBVIOUS
<1>1. CASE ServerStep
  BY <1>1, ArriveStep, ServerReceivesAckStep, SocketClosedStep, TimePassesStep
  DEF ServerStep
<1>2. CASE ConnectionStep
  BY <1>2, ConnectStep, startIncomingDeliveryStep, disconnectStep,
     onConnectionInterruptedStep, onQueueEmptyStep, CrashStep,
     onIncomingMessageStep
  DEF ConnectionStep
<1>3. CASE StoreWorks
  BY <1>3, StoreAcceptStep, StoreCompleteStep, StorePruneStep, StoreListStep
  DEF StoreWorks
<1>4. CASE StoreFails
  BY <1>4, StoreFailsStep
<1>5. CASE StoreReturns
  BY <1>5, AcceptRejectedStep, AcceptStaleStep, AcceptAcknowledgedStep,
     PruneRepliedStep, DrainCallFailsStep, ListStaleStep, ListRepliedStep,
     CompleteRepliedStep, CompleteFailsStep
  DEF StoreReturns
<1>6. CASE StartAdmission
  BY <1>6, StartAdmissionStep
<1>7. CASE AcceptAckFails
  BY <1>7, AcceptAckFailsStep
<1>8. CASE StartDrain
  BY <1>8, StartDrainStep
<1>9. CASE HandlerThrows
  BY <1>9, HandlerThrowsStep
<1>10. CASE RetryTimerFires
  BY <1>10, RetryTimerFiresStep
<1>11. CASE \E d \in held : ConsumerAcks(d)
  BY <1>11, ConsumerAcksStep
<1>12. CASE UNCHANGED vars
  BY <1>12, StutterStep
<1> QED
  BY <1>1, <1>2, <1>3, <1>4, <1>5, <1>6, <1>7, <1>8, <1>9, <1>10, <1>11,
     <1>12
  DEF Next

THEOREM InductiveInvariant == Spec => []IInv
  BY InitIInv, IInvStep, PTL DEF Spec

(* Every variable keeps its type, whatever the bounds.                     *)
THEOREM TypeCorrect == Spec => []TypeOK
<1>1. IInv => TypeOK
  BY DEF IInv
<1> QED
  BY <1>1, InductiveInvariant, PTL

(* No envelope is lost: it is with the server, in the table or with the    *)
(* consumer, whatever fails and for any number of envelopes and slots.     *)
THEOREM NeverLost == Spec => []NoLoss
<1>1. IInv => NoLoss
  BY DEF IInv
<1> QED
  BY <1>1, InductiveInvariant, PTL

=============================================================================
