------------------------- MODULE CallManager_proofs -------------------------
(***************************************************************************)
(* The call manager, for any number of calls and of close().  A call may   *)
(* be ended by either side, a timer, its bring-up or close(): the lemmas   *)
(* about finalizeCall say what every one of these ends keeps.              *)
(* The last sections are about what an ended call has left open: who takes *)
(* it down, how far close() waits for it, and that this comes to an end.   *)
(***************************************************************************)
EXTENDS CallManager, TLAPS

LEMMA CallInit == Init => CallInv
<1> SUFFICES ASSUME Init PROVE CallInv
  OBVIOUS
<1>1. TypeOK
  <2>1. created \in 0 .. MaxCalls /\ closes \in 0 .. MaxCloses
    BY CallAssumption DEF CallAssumption, Init
  <2>2. /\ native \in [Calls -> {"none", "offered", "starting", "held",
                           "connecting", "ringing", "connected", "ended"}]
        /\ phase \in [Calls -> {"none", "live", "ended"}]
        /\ endedN \in [Calls -> Nat] /\ connectedN \in [Calls -> Nat]
        /\ teardown \in [Calls -> {"none", "bridge", "devices", "over"}]
    BY DEF Init
  <2>3. /\ hangup \in [Calls -> {"no", "requested", "sending", "over"}]
        /\ media \in [Calls -> {"none", "turn", "setup", "rollback",
                                "pointing", "late", "over"}]
        /\ bridge \in [Calls -> {"none", "open"}]
        /\ closing \in [Closes -> {"none", "hangup", "teardown", "returned"}]
        /\ closeAwaits \in [Closes -> Calls \cup {0}]
    BY DEF Init
  <2> QED
    BY <2>1, <2>2, <2>3 DEF Init, TypeOK
<1>2. EndInv
  BY DEF Init, EndInv, OneLiveCall, EndedOnce, NothingOutlivesCall,
         TeardownInv, Calls
<1>3. FreshInv /\ BridgeInv /\ LimitInv /\ MediaInv
  BY DEF Init, FreshInv, BridgeInv, LimitInv, MediaInv
<1> QED
  BY <1>1, <1>2, <1>3 DEF CallInv

-----------------------------------------------------------------------------
(* Ending a call.                                                          *)

LEMMA FinalizeType ==
  ASSUME TypeOK, NEW c \in Calls, finalizeCall(c)
  PROVE  /\ active' \in Calls \cup {0}
         /\ phase' \in [Calls -> {"none", "live", "ended"}]
         /\ endedN' \in [Calls -> Nat]
         /\ teardown' \in [Calls -> {"none", "bridge", "devices", "over"}]
         /\ pendingTeardown' \in Calls \cup {0}
         /\ ringTimers' \subseteq Calls /\ durationTimers' \subseteq Calls
         /\ cutShort' \subseteq Calls /\ accepting' \subseteq Calls
<1>1. CASE phase[c] = "live"
  <2>1. Finalize(c)
    BY <1>1 DEF finalizeCall
  <2>2. TeardownStart(c) \in {"bridge", "devices", "over"}
    BY DEF TeardownStart
  <2> QED
    BY <2>1, <2>2 DEF Finalize, FinalizeWith, ClearTimers, TypeOK
<1>2. CASE phase[c] # "live"
  BY <1>2 DEF finalizeCall, TypeOK, endVars, slotVars, timerVars
<1> QED
  BY <1>1, <1>2

(* The call that ends has the slot; the timer that it may leave behind is  *)
(* one for which a listener has cut it short.                              *)
LEMMA FinalizeWithEnds ==
  ASSUME TypeOK, EndInv, NEW c \in Calls, phase[c] = "live",
         NEW first \in {"bridge", "devices", "over"}, FinalizeWith(c, first),
         ringTimers' = ringTimers \ {c}, cutShort \subseteq cutShort',
         \A d \in durationTimers' : d \in durationTimers \ {c} \/ d \in cutShort'
  PROVE  EndInv'
<1>1. active = c
  BY DEF EndInv, OneLiveCall
<1>2. active' = 0 /\ phase' = [phase EXCEPT ![c] = "ended"]
  BY <1>1 DEF FinalizeWith
<1>3. OneLiveCall'
  BY <1>1, <1>2 DEF TypeOK, EndInv, OneLiveCall, Calls
<1>4. EndedOnce'
  BY <1>2 DEF FinalizeWith, TypeOK, EndInv, EndedOnce
<1>5. NothingOutlivesCall'
  <2>1. \A d \in ringTimers \cup accepting : d = c
    BY <1>1 DEF EndInv, NothingOutlivesCall, Live
  <2>2. \A d \in durationTimers : d = c \/ d \in cutShort
    BY <1>1 DEF EndInv, NothingOutlivesCall, Live
  <2> QED
    BY <2>1, <2>2 DEF FinalizeWith, NothingOutlivesCall
<1>6. TeardownInv'
  BY <1>2 DEF FinalizeWith, TypeOK, EndInv, TeardownInv
<1> QED
  BY <1>3, <1>4, <1>5, <1>6 DEF EndInv

LEMMA FinalizeEnds ==
  ASSUME TypeOK, EndInv, NEW c \in Calls, finalizeCall(c)
  PROVE  EndInv'
<1>1. CASE phase[c] = "live"
  <2>1. TeardownStart(c) \in {"bridge", "devices", "over"}
    BY DEF TeardownStart
  <2>2. FinalizeWith(c, TeardownStart(c)) /\ ClearTimers(c)
    BY <1>1 DEF finalizeCall, Finalize
  <2> QED
    BY <1>1, <2>1, <2>2, FinalizeWithEnds DEF ClearTimers
<1>2. CASE phase[c] # "live"
  BY <1>2 DEF finalizeCall, EndInv, OneLiveCall, EndedOnce, TeardownInv,
              NothingOutlivesCall, Live, endVars, slotVars, timerVars
<1> QED
  BY <1>1, <1>2

LEMMA EndsUnchanged == EndInv /\ UNCHANGED endVars => EndInv'
  BY DEF EndInv, OneLiveCall, EndedOnce, TeardownInv, NothingOutlivesCall,
         Live, endVars, slotVars, timerVars

(* A live call ends or stays, with its duration timer, every other stays.  *)
PhasesEnd ==
  \A d \in Calls : /\ \/ phase'[d] = phase[d]
                      \/ phase[d] = "live" /\ phase'[d] = "ended"
                   /\ d \in durationTimers /\ phase'[d] = "live"
                        => d \in durationTimers'

LEMMA FinalizePhases ==
  ASSUME TypeOK, NEW c \in Calls, finalizeCall(c)
  PROVE  PhasesEnd
<1>1. CASE phase[c] = "live"
  <2>1. /\ phase' = [phase EXCEPT ![c] = "ended"]
        /\ durationTimers' = durationTimers \ {c}
    BY <1>1 DEF finalizeCall, Finalize, FinalizeWith, ClearTimers
  <2> QED
    BY <1>1, <2>1 DEF TypeOK, PhasesEnd
<1>2. CASE phase[c] # "live"
  BY <1>2 DEF finalizeCall, PhasesEnd, endVars, slotVars, timerVars
<1> QED
  BY <1>1, <1>2

LEMMA EndCallFinalizes ==
  ASSUME TypeOK, NEW c \in Calls, endCall(c)
  PROVE  /\ finalizeCall(c)
         /\ hangup' \in [Calls -> {"no", "requested", "sending", "over"}]
  BY DEF endCall, finalizeCall, RequestHangup, TypeOK

-----------------------------------------------------------------------------
(* The type of each variable, action by action.                            *)

LEMMA HostTypes == TypeOK /\ HostStep => TypeOK'
<1> SUFFICES ASSUME TypeOK, HostStep PROVE TypeOK'
  OBVIOUS
<1> USE DEF TypeOK, endVars, slotVars, timerVars, mediaVars,
            bridgeVars, closeVars
<1>1. CASE ensureReady
  BY <1>1 DEF ensureReady
<1>2. CASE startOutgoingCall
  <2>1. created + 1 \in Calls /\ created' \in 0 .. MaxCalls
    BY <1>2, CallAssumption DEF CallAssumption, startOutgoingCall, Calls
  <2> QED
    BY <1>2, <2>1 DEF startOutgoingCall, SetActive
<1>3. CASE handleIncomingCallMessage
  <2>1. created' \in 0 .. MaxCalls
    BY <1>3, CallAssumption DEF CallAssumption, handleIncomingCallMessage
  <2>2. native' = [native EXCEPT ![created + 1] = "offered"]
    BY <1>3 DEF handleIncomingCallMessage
  <2>3. native' \in [Calls -> {"none", "offered", "starting", "held",
                               "connecting", "ringing", "connected", "ended"}]
    BY <2>2
  <2> QED
    BY <1>3, <2>1, <2>3 DEF handleIncomingCallMessage
<1>4. CASE close
  <2>1. closes' \in 0 .. MaxCloses
    BY <1>4, CallAssumption DEF close
  <2>2. CASE active # 0
    <3>1. active \in Calls /\ endCall(active)
      BY <1>4, <2>2 DEF close
    <3> QED
      BY <1>4, <2>1, <3>1, EndCallFinalizes, FinalizeType DEF close
  <2>3. CASE active = 0
    BY <1>4, <2>1, <2>3 DEF close
  <2> QED
    BY <2>2, <2>3
<1>5. ASSUME NEW c \in Calls, accept(c) PROVE TypeOK'
  BY <1>5 DEF accept
<1>6. ASSUME NEW c \in Calls, decline(c) PROVE TypeOK'
  <2>1. endCall(c)
    BY <1>6 DEF decline, LocalEnd
  <2> QED
    BY <1>6, <2>1, EndCallFinalizes, FinalizeType DEF decline, LocalEnd
<1>7. ASSUME NEW c \in Calls, hangupCall(c) PROVE TypeOK'
  <2>1. endCall(c)
    BY <1>7 DEF hangupCall, LocalEnd
  <2> QED
    BY <1>7, <2>1, EndCallFinalizes, FinalizeType DEF hangupCall, LocalEnd
<1> QED
  BY <1>1, <1>2, <1>3, <1>4, <1>5, <1>6, <1>7 DEF HostStep

LEMMA TimerTypes ==
  ASSUME TypeOK, NEW c \in Calls, TimerStep(c)
  PROVE  TypeOK'
<1> USE DEF TypeOK, endVars, slotVars, timerVars, mediaVars,
            bridgeVars, closeVars
<1>1. CASE AcceptTimesOut(c)
  BY <1>1 DEF AcceptTimesOut
<1>2. CASE RingTimeout(c)
  <2>1. endCall(c)
    BY <1>2 DEF RingTimeout, LocalEnd
  <2> QED
    BY <1>2, <2>1, EndCallFinalizes, FinalizeType DEF RingTimeout, LocalEnd
<1>3. CASE LocalEnd(c)
  <2>1. endCall(c)
    BY <1>3 DEF LocalEnd
  <2> QED
    BY <1>3, <2>1, EndCallFinalizes, FinalizeType DEF LocalEnd
<1>4. CASE StaleDuration(c)
  BY <1>4 DEF StaleDuration
<1> QED
  BY <1>1, <1>2, <1>3, <1>4 DEF TimerStep, MaxDuration

LEMMA RingRtcTypes ==
  ASSUME TypeOK, NEW c \in Calls, RingRtcStep(c)
  PROVE  TypeOK'
<1> USE DEF TypeOK, endVars, slotVars, timerVars, mediaVars,
            bridgeVars, closeVars
<1>1. CASE onIncomingCall(c)
  BY <1>1, CallAssumption DEF onIncomingCall, SetActive
<1>2. CASE OfferDropped(c)
  BY <1>2 DEF OfferDropped
<1>3. CASE onStartCall(c)
  BY <1>3 DEF onStartCall
<1>4. CASE Rings(c)
  BY <1>4 DEF Rings, NativeMoves
<1>5. CASE Connects(c)
  BY <1>5 DEF Connects, NativeMoves, HasBridge
<1>6. CASE ConnectsWithoutBridge(c)
  <2>1. endCall(c)
    BY <1>6 DEF ConnectsWithoutBridge
  <2> QED
    BY <1>6, <2>1, EndCallFinalizes, FinalizeType DEF ConnectsWithoutBridge
<1>7. CASE NativeEnds(c)
  <2>1. CASE active = c
    BY <1>7, <2>1, FinalizeType DEF NativeEnds
  <2>2. CASE active # c
    BY <1>7, <2>2 DEF NativeEnds
  <2> QED
    BY <2>1, <2>2
<1>8. CASE HangupHandedOver(c)
  BY <1>8 DEF HangupHandedOver
<1>9. CASE HangupSendSettles(c)
  BY <1>9 DEF HangupSendSettles
<1>10. CASE ConnectedListenerEnds(c)
  BY <1>10 DEF ConnectedListenerEnds, RequestHangup, FinalizeWith
<1> QED
  BY <1>1, <1>2, <1>3, <1>4, <1>5, <1>6, <1>7, <1>8, <1>9, <1>10 DEF RingRtcStep

LEMMA BringUpTypes ==
  ASSUME TypeOK, NEW c \in Calls, BringUpStep(c)
  PROVE  TypeOK'
<1> USE DEF TypeOK, endVars, slotVars, timerVars, mediaVars,
            bridgeVars, closeVars
<1>1. CASE TurnArrives(c)
  BY <1>1 DEF TurnArrives, MediaStep
<1>2. CASE TurnFails(c)
  BY <1>2, FinalizeType DEF TurnFails, MediaStep
<1>3. CASE DevicesUp(c)
  BY <1>3 DEF DevicesUp, MediaStep
<1>4. CASE DevicesFail(c)
  BY <1>4 DEF DevicesFail, MediaStep
<1>5. CASE RolledBack(c)
  BY <1>5, FinalizeType DEF RolledBack, MediaStep, Unload
<1>6. CASE Pointed(c)
  BY <1>6 DEF Pointed, MediaStep
<1>7. CASE PointFails(c)
  <2>1. endCall(c)
    BY <1>7 DEF PointFails, MediaStep
  <2> QED
    BY <1>7, <2>1, EndCallFinalizes, FinalizeType DEF PointFails, MediaStep
<1> QED
  BY <1>1, <1>2, <1>3, <1>4, <1>5, <1>6, <1>7 DEF BringUpStep

LEMMA ReleaseTypes ==
  ASSUME TypeOK, NEW c \in Calls, ReleaseStep(c)
  PROVE  TypeOK'
<1> USE DEF TypeOK, endVars, slotVars, timerVars, mediaVars,
            bridgeVars, closeVars
<1>1. CASE LateDevicesDown(c)
  BY <1>1 DEF LateDevicesDown, MediaStep, Unload
<1>2. CASE BridgeCloses(c)
  BY <1>2 DEF BridgeCloses, AfterBridge
<1>3. CASE DevicesDown(c)
  BY <1>3 DEF DevicesDown, Unload
<1> QED
  BY <1>1, <1>2, <1>3 DEF ReleaseStep

LEMMA CloseTypes ==
  ASSUME TypeOK, NEW k \in Closes, CloseStep(k)
  PROVE  TypeOK'
<1> USE DEF TypeOK, endVars, slotVars, timerVars, mediaVars, bridgeVars
<1>1. CASE HangupDrained(k)
  BY <1>1 DEF HangupDrained
<1>2. CASE CloseReturns(k)
  BY <1>2 DEF CloseReturns
<1> QED
  BY <1>1, <1>2 DEF CloseStep

-----------------------------------------------------------------------------
(* The slot, the timers and the waiting accepts, action by action.         *)

LEMMA EndsWaiting ==
  ASSUME EndInv, UNCHANGED slotVars, NothingOutlivesCall'
  PROVE  EndInv'
  BY DEF EndInv, OneLiveCall, EndedOnce, TeardownInv, slotVars

LEMMA EndsTakesSlot ==
  ASSUME TypeOK, EndInv, NEW c \in Calls, active = 0, phase[c] = "none",
         SetActive(c), ringTimers' \subseteq ringTimers \cup {c},
         UNCHANGED <<durationTimers, cutShort, accepting>>
  PROVE  EndInv'
<1>1. active' = c /\ phase' = [phase EXCEPT ![c] = "live"]
  BY DEF SetActive
<1>2. OneLiveCall'
  BY <1>1 DEF TypeOK, EndInv, OneLiveCall, Calls
<1>3. EndedOnce' /\ TeardownInv'
  BY <1>1 DEF SetActive, TypeOK, EndInv, EndedOnce, TeardownInv
<1>4. ringTimers \cup accepting = {} /\ durationTimers \subseteq cutShort
  BY DEF TypeOK, EndInv, NothingOutlivesCall, Live, Calls
<1>5. NothingOutlivesCall'
  BY <1>1, <1>4 DEF TypeOK, NothingOutlivesCall, Live
<1> QED
  BY <1>2, <1>3, <1>5 DEF EndInv

(* A teardown that goes on has begun.                                      *)
LEMMA EndsTearsDown ==
  ASSUME TypeOK, EndInv, NEW c \in Calls, teardown[c] # "none",
         NEW to \in {"devices", "over"}, teardown' = [teardown EXCEPT ![c] = to],
         UNCHANGED <<active, phase, endedN, timerVars, accepting>>
  PROVE  EndInv'
  BY DEF TypeOK, EndInv, OneLiveCall, EndedOnce, TeardownInv,
         NothingOutlivesCall, Live, timerVars

LEMMA HostEnds ==
  ASSUME TypeOK, EndInv, FreshInv, HostStep
  PROVE  EndInv'
<1>1. CASE ensureReady
  BY <1>1, EndsUnchanged DEF ensureReady
<1>2. CASE startOutgoingCall
  <2>1. created + 1 \in Calls
    BY <1>2, CallAssumption DEF CallAssumption, startOutgoingCall, TypeOK, Calls
  <2>2. phase[created + 1] = "none"
    BY <2>1 DEF TypeOK, FreshInv
  <2>3. active = 0 /\ SetActive(created + 1)
    BY <1>2 DEF startOutgoingCall, isBusy
  <2>4. /\ ringTimers' = ringTimers \cup {created + 1}
        /\ UNCHANGED <<durationTimers, cutShort, accepting>>
    BY <1>2 DEF startOutgoingCall
  <2> QED
    BY <2>1, <2>2, <2>3, <2>4, EndsTakesSlot
<1>3. CASE handleIncomingCallMessage
  BY <1>3, EndsUnchanged DEF handleIncomingCallMessage
<1>4. CASE close
  <2>1. CASE active # 0
    <3>1. active \in Calls /\ endCall(active)
      BY <1>4, <2>1 DEF close, TypeOK
    <3> QED
      BY <3>1, EndCallFinalizes, FinalizeEnds
  <2>2. CASE active = 0
    BY <1>4, <2>2, EndsUnchanged DEF close
  <2> QED
    BY <2>1, <2>2
<1>5. ASSUME NEW c \in Calls, accept(c) PROVE EndInv'
  <2>1. UNCHANGED slotVars
    BY <1>5 DEF accept
  <2>2. NothingOutlivesCall'
    BY <1>5 DEF accept, EndInv, NothingOutlivesCall, Live, slotVars, timerVars
  <2> QED
    BY <2>1, <2>2, EndsWaiting
<1>6. ASSUME NEW c \in Calls, decline(c) PROVE EndInv'
  <2>1. endCall(c)
    BY <1>6 DEF decline, LocalEnd
  <2> QED
    BY <2>1, EndCallFinalizes, FinalizeEnds
<1>7. ASSUME NEW c \in Calls, hangupCall(c) PROVE EndInv'
  <2>1. endCall(c)
    BY <1>7 DEF hangupCall, LocalEnd
  <2> QED
    BY <2>1, EndCallFinalizes, FinalizeEnds
<1> QED
  BY <1>1, <1>2, <1>3, <1>4, <1>5, <1>6, <1>7 DEF HostStep

LEMMA TimerEnds ==
  ASSUME TypeOK, EndInv, FreshInv, NEW c \in Calls, TimerStep(c)
  PROVE  EndInv'
<1>1. CASE AcceptTimesOut(c)
  <2>1. UNCHANGED slotVars
    BY <1>1 DEF AcceptTimesOut
  <2>2. NothingOutlivesCall'
    BY <1>1 DEF AcceptTimesOut, EndInv, NothingOutlivesCall, Live, slotVars, timerVars
  <2> QED
    BY <2>1, <2>2, EndsWaiting
<1>2. CASE RingTimeout(c)
  <2>1. endCall(c)
    BY <1>2 DEF RingTimeout, LocalEnd
  <2> QED
    BY <2>1, EndCallFinalizes, FinalizeEnds
<1>3. CASE LocalEnd(c)
  <2>1. endCall(c)
    BY <1>3 DEF LocalEnd
  <2> QED
    BY <2>1, EndCallFinalizes, FinalizeEnds
<1>4. CASE StaleDuration(c)
  <2>1. UNCHANGED slotVars
    BY <1>4 DEF StaleDuration
  <2>2. NothingOutlivesCall'
    BY <1>4 DEF StaleDuration, EndInv, NothingOutlivesCall, Live, slotVars
  <2> QED
    BY <2>1, <2>2, EndsWaiting
<1> QED
  BY <1>1, <1>2, <1>3, <1>4 DEF TimerStep, MaxDuration

LEMMA RingRtcEnds ==
  ASSUME TypeOK, EndInv, FreshInv, NEW c \in Calls, RingRtcStep(c)
  PROVE  EndInv'
<1>1. CASE onIncomingCall(c)
  <2>1. UNCHANGED timerVars /\ UNCHANGED accepting
    BY <1>1 DEF onIncomingCall
  <2>2. CASE isBusy
    BY <1>1, <2>1, <2>2, EndsUnchanged DEF onIncomingCall, endVars
  <2>3. CASE ~isBusy
    <3>1. phase[c] = "none" /\ active = 0 /\ SetActive(c)
      BY <1>1, <2>3 DEF onIncomingCall, isBusy, FreshInv
    <3> QED
      BY <2>1, <3>1, EndsTakesSlot DEF timerVars
  <2> QED
    BY <2>2, <2>3
<1>2. CASE OfferDropped(c)
  BY <1>2, EndsUnchanged DEF OfferDropped
<1>3. CASE onStartCall(c)
  BY <1>3, EndsUnchanged DEF onStartCall
<1>4. CASE Rings(c)
  <2>1. UNCHANGED slotVars
    BY <1>4 DEF Rings, NativeMoves
  <2>2. NothingOutlivesCall'
    BY <1>4 DEF Rings, NativeMoves, EndInv, NothingOutlivesCall, Live, slotVars, timerVars
  <2> QED
    BY <2>1, <2>2, EndsWaiting
<1>5. CASE Connects(c)
  <2>1. UNCHANGED slotVars
    BY <1>5 DEF Connects, NativeMoves, HasBridge
  <2>2. NothingOutlivesCall'
    BY <1>5 DEF Connects, NativeMoves, HasBridge, EndInv, NothingOutlivesCall,
                Live, slotVars, timerVars, bridgeVars
  <2> QED
    BY <2>1, <2>2, EndsWaiting
<1>6. CASE ConnectsWithoutBridge(c)
  <2>1. endCall(c)
    BY <1>6 DEF ConnectsWithoutBridge
  <2> QED
    BY <2>1, EndCallFinalizes, FinalizeEnds
<1>7. CASE NativeEnds(c)
  BY <1>7, FinalizeEnds, EndsUnchanged DEF NativeEnds
<1>8. CASE HangupHandedOver(c)
  BY <1>8, EndsUnchanged DEF HangupHandedOver
<1>9. CASE HangupSendSettles(c)
  <2>1. UNCHANGED slotVars
    BY <1>9 DEF HangupSendSettles
  <2>2. NothingOutlivesCall'
    BY <1>9 DEF HangupSendSettles, EndInv, NothingOutlivesCall, Live, slotVars, timerVars
  <2> QED
    BY <2>1, <2>2, EndsWaiting
<1>10. CASE ConnectedListenerEnds(c)
  <2>1. phase[c] = "live" /\ FinalizeWith(c, "bridge")
    BY <1>10 DEF ConnectedListenerEnds, Live
  <2>2. /\ ringTimers' = ringTimers \ {c}
        /\ durationTimers' = durationTimers \cup {c}
        /\ cutShort' = cutShort \cup {c}
    BY <1>10 DEF ConnectedListenerEnds
  <2> QED
    BY <2>1, <2>2, FinalizeWithEnds
<1> QED
  BY <1>1, <1>2, <1>3, <1>4, <1>5, <1>6, <1>7, <1>8, <1>9, <1>10 DEF RingRtcStep

LEMMA BringUpEnds ==
  ASSUME TypeOK, EndInv, FreshInv, NEW c \in Calls, BringUpStep(c)
  PROVE  EndInv'
<1>1. CASE TurnArrives(c)
  BY <1>1, EndsUnchanged DEF TurnArrives, MediaStep
<1>2. CASE TurnFails(c)
  BY <1>2, FinalizeEnds DEF TurnFails, MediaStep
<1>3. CASE DevicesUp(c)
  BY <1>3, EndsUnchanged DEF DevicesUp, MediaStep
<1>4. CASE DevicesFail(c)
  BY <1>4, EndsUnchanged DEF DevicesFail, MediaStep
<1>5. CASE RolledBack(c)
  BY <1>5, FinalizeEnds DEF RolledBack, MediaStep, Unload
<1>6. CASE Pointed(c)
  BY <1>6, EndsUnchanged DEF Pointed, MediaStep
<1>7. CASE PointFails(c)
  <2>1. endCall(c)
    BY <1>7 DEF PointFails, MediaStep
  <2> QED
    BY <2>1, EndCallFinalizes, FinalizeEnds
<1> QED
  BY <1>1, <1>2, <1>3, <1>4, <1>5, <1>6, <1>7 DEF BringUpStep

LEMMA ReleaseEnds ==
  ASSUME TypeOK, EndInv, FreshInv, NEW c \in Calls, ReleaseStep(c)
  PROVE  EndInv'
<1>1. CASE LateDevicesDown(c)
  BY <1>1, EndsUnchanged DEF LateDevicesDown, MediaStep, Unload
<1>2. CASE BridgeCloses(c)
  <2>1. AfterBridge(c) \in {"devices", "over"}
    BY DEF AfterBridge
  <2> QED
    BY <1>2, <2>1, EndsTearsDown DEF BridgeCloses
<1>3. CASE DevicesDown(c)
  BY <1>3, EndsTearsDown DEF DevicesDown, Unload
<1> QED
  BY <1>1, <1>2, <1>3 DEF ReleaseStep

LEMMA CloseEnds ==
  ASSUME TypeOK, EndInv, FreshInv, NEW k \in Closes, CloseStep(k)
  PROVE  EndInv'
<1>1. CASE HangupDrained(k)
  BY <1>1, EndsUnchanged DEF HangupDrained
<1>2. CASE CloseReturns(k)
  <2>1. UNCHANGED slotVars
    BY <1>2 DEF CloseReturns
  <2>2. NothingOutlivesCall'
    BY <1>2 DEF CloseReturns, EndInv, NothingOutlivesCall, Live, slotVars, timerVars
  <2> QED
    BY <2>1, <2>2, EndsWaiting
<1> QED
  BY <1>1, <1>2 DEF CloseStep

-----------------------------------------------------------------------------
(* What is fresh, the bridges and the media.  All but the two steps in     *)
(* which a call takes the slot end calls at most.                          *)

RestInv == FreshInv /\ BridgeInv /\ LimitInv /\ MediaInv

NativeOnward ==
  \A d \in Calls : \/ native'[d] = native[d]
                   \/ native[d] # "none" /\ native'[d] \notin {"none", "offered"}

LEMMA FreshStays ==
  ASSUME FreshInv, PhasesEnd, NativeOnward, created' = created
  PROVE  FreshInv'
  BY DEF FreshInv, PhasesEnd, NativeOnward

LEMMA BridgeStays ==
  ASSUME BridgeInv, LimitInv, PhasesEnd, UNCHANGED bridgeVars
  PROVE  BridgeInv' /\ LimitInv'
  BY DEF BridgeInv, LimitInv, PhasesEnd, bridgeVars

LEMMA MediaStays ==
  ASSUME MediaInv, PhasesEnd, UNCHANGED <<media, loaded, owned>>
  PROVE  MediaInv'
  BY DEF MediaInv, PhasesEnd

LEMMA EndCallPhases ==
  ASSUME TypeOK, NEW c \in Calls, endCall(c)
  PROVE  PhasesEnd
  BY EndCallFinalizes, FinalizePhases

(* A call that takes the slot has neither a bridge nor devices yet: it has *)
(* not been started, or it connects and brings up its media later.         *)
LEMMA SlotTaken ==
  ASSUME TypeOK, RestInv, NEW c \in Calls, phase[c] = "none", SetActive(c),
         UNCHANGED <<mediaVars, bridgeVars, durationTimers>>
  PROVE  BridgeInv' /\ LimitInv' /\ MediaInv'
  BY DEF TypeOK, RestInv, BridgeInv, LimitInv, MediaInv, SetActive, mediaVars,
         bridgeVars

LEMMA HostRest ==
  ASSUME TypeOK, EndInv, RestInv, HostStep
  PROVE  RestInv'
<1>1. CASE ensureReady
  <2>1. PhasesEnd
    BY <1>1 DEF ensureReady, PhasesEnd, endVars, slotVars, timerVars
  <2>2. NativeOnward /\ created' = created
    BY <1>1 DEF ensureReady, NativeOnward
  <2> QED
    BY <1>1, <2>1, <2>2, FreshStays, BridgeStays, MediaStays
       DEF ensureReady, RestInv, mediaVars
<1>2. CASE startOutgoingCall
  <2>1. created + 1 \in Calls
    BY <1>2, CallAssumption DEF CallAssumption, startOutgoingCall, TypeOK, Calls
  <2>2. phase[created + 1] = "none" /\ SetActive(created + 1)
    BY <1>2, <2>1 DEF startOutgoingCall, TypeOK, RestInv, FreshInv
  <2>3. FreshInv'
    BY <1>2, <2>1, <2>2 DEF startOutgoingCall, SetActive, TypeOK, RestInv,
                            FreshInv, Calls
  <2>4. BridgeInv' /\ LimitInv' /\ MediaInv'
    BY <1>2, <2>1, <2>2, SlotTaken DEF startOutgoingCall
  <2> QED
    BY <2>3, <2>4 DEF RestInv
<1>3. CASE handleIncomingCallMessage
  <2>1. PhasesEnd
    BY <1>3 DEF handleIncomingCallMessage, PhasesEnd, endVars, slotVars, timerVars
  <2>2. FreshInv'
    BY <1>3 DEF handleIncomingCallMessage, TypeOK, RestInv, FreshInv, Calls,
                endVars, slotVars
  <2> QED
    BY <1>3, <2>1, <2>2, BridgeStays, MediaStays
       DEF handleIncomingCallMessage, RestInv, mediaVars
<1>4. CASE close
  <2>1. PhasesEnd
    <3>1. CASE active # 0
      <4>1. active \in Calls /\ endCall(active)
        BY <1>4, <3>1 DEF close, TypeOK
      <4> QED
        BY <4>1, EndCallPhases
    <3>2. CASE active = 0
      BY <1>4, <3>2 DEF close, PhasesEnd, endVars, slotVars, timerVars
    <3> QED
      BY <3>1, <3>2
  <2>2. NativeOnward /\ created' = created
    BY <1>4 DEF close, NativeOnward
  <2> QED
    BY <1>4, <2>1, <2>2, FreshStays, BridgeStays, MediaStays
       DEF close, RestInv, mediaVars
<1>5. ASSUME NEW c \in Calls, accept(c) PROVE RestInv'
  <2>1. PhasesEnd
    BY <1>5 DEF accept, PhasesEnd, slotVars, timerVars
  <2>2. NativeOnward /\ created' = created
    BY <1>5 DEF accept, NativeOnward
  <2> QED
    BY <1>5, <2>1, <2>2, FreshStays, BridgeStays, MediaStays
       DEF accept, RestInv, mediaVars
<1>6. ASSUME NEW c \in Calls, decline(c) PROVE RestInv'
  <2>1. PhasesEnd
    BY <1>6, EndCallPhases DEF decline, LocalEnd
  <2>2. NativeOnward /\ created' = created
    BY <1>6 DEF decline, LocalEnd, NativeOnward
  <2> QED
    BY <1>6, <2>1, <2>2, FreshStays, BridgeStays, MediaStays
       DEF decline, LocalEnd, RestInv, mediaVars
<1>7. ASSUME NEW c \in Calls, hangupCall(c) PROVE RestInv'
  <2>1. PhasesEnd
    BY <1>7, EndCallPhases DEF hangupCall, LocalEnd
  <2>2. NativeOnward /\ created' = created
    BY <1>7 DEF hangupCall, LocalEnd, NativeOnward
  <2> QED
    BY <1>7, <2>1, <2>2, FreshStays, BridgeStays, MediaStays
       DEF hangupCall, LocalEnd, RestInv, mediaVars
<1> QED
  BY <1>1, <1>2, <1>3, <1>4, <1>5, <1>6, <1>7 DEF HostStep

LEMMA TimerRest ==
  ASSUME TypeOK, EndInv, RestInv, NEW c \in Calls, TimerStep(c)
  PROVE  RestInv'
<1>1. CASE AcceptTimesOut(c)
  <2>1. PhasesEnd
    BY <1>1 DEF AcceptTimesOut, PhasesEnd, slotVars, timerVars
  <2>2. NativeOnward /\ created' = created
    BY <1>1 DEF AcceptTimesOut, NativeOnward
  <2> QED
    BY <1>1, <2>1, <2>2, FreshStays, BridgeStays, MediaStays
       DEF AcceptTimesOut, RestInv, mediaVars
<1>2. CASE RingTimeout(c)
  <2>1. PhasesEnd
    BY <1>2, EndCallPhases DEF RingTimeout, LocalEnd
  <2>2. NativeOnward /\ created' = created
    BY <1>2 DEF RingTimeout, LocalEnd, NativeOnward
  <2> QED
    BY <1>2, <2>1, <2>2, FreshStays, BridgeStays, MediaStays
       DEF RingTimeout, LocalEnd, RestInv, mediaVars
<1>3. CASE LocalEnd(c)
  <2>1. PhasesEnd
    BY <1>3, EndCallPhases DEF LocalEnd
  <2>2. NativeOnward /\ created' = created
    BY <1>3 DEF LocalEnd, NativeOnward
  <2> QED
    BY <1>3, <2>1, <2>2, FreshStays, BridgeStays, MediaStays
       DEF LocalEnd, RestInv, mediaVars
<1>4. CASE StaleDuration(c)
  <2>1. PhasesEnd
    BY <1>4 DEF StaleDuration, Live, EndInv, OneLiveCall, PhasesEnd, slotVars
  <2>2. NativeOnward /\ created' = created
    BY <1>4 DEF StaleDuration, NativeOnward
  <2> QED
    BY <1>4, <2>1, <2>2, FreshStays, BridgeStays, MediaStays
       DEF StaleDuration, RestInv, mediaVars
<1> QED
  BY <1>1, <1>2, <1>3, <1>4 DEF TimerStep, MaxDuration

LEMMA RingRtcRest ==
  ASSUME TypeOK, EndInv, RestInv, NEW c \in Calls, RingRtcStep(c)
  PROVE  RestInv'
<1>1. CASE onIncomingCall(c)
  <2>1. phase[c] = "none"
    BY <1>1 DEF onIncomingCall, RestInv, FreshInv
  <2>2. CASE isBusy
    <3>1. PhasesEnd
      BY <1>1, <2>2 DEF onIncomingCall, PhasesEnd, slotVars, timerVars
    <3>2. NativeOnward
      BY <1>1, <2>2 DEF onIncomingCall, NativeOnward, TypeOK
    <3> QED
      BY <1>1, <3>1, <3>2, FreshStays, BridgeStays, MediaStays
         DEF onIncomingCall, RestInv, mediaVars
  <2>3. CASE ~isBusy
    <3>1. FreshInv'
      BY <1>1, <2>3 DEF onIncomingCall, SetActive, TypeOK, RestInv, FreshInv
    <3>2. BridgeInv' /\ LimitInv' /\ MediaInv'
      BY <1>1, <2>1, <2>3, SlotTaken DEF onIncomingCall, timerVars
    <3> QED
      BY <3>1, <3>2 DEF RestInv
  <2> QED
    BY <2>2, <2>3
<1>2. CASE OfferDropped(c)
  <2>1. PhasesEnd
    BY <1>2 DEF OfferDropped, PhasesEnd, endVars, slotVars, timerVars
  <2>2. NativeOnward /\ created' = created
    BY <1>2 DEF OfferDropped, NativeOnward, TypeOK
  <2> QED
    BY <1>2, <2>1, <2>2, FreshStays, BridgeStays, MediaStays
       DEF OfferDropped, RestInv, mediaVars
<1>3. CASE onStartCall(c)
  <2>1. PhasesEnd
    BY <1>3 DEF onStartCall, PhasesEnd, endVars, slotVars, timerVars
  <2>2. NativeOnward /\ created' = created
    BY <1>3 DEF onStartCall, NativeOnward, TypeOK
  <2>4. MediaInv'
    BY <1>3, <2>1 DEF onStartCall, TypeOK, RestInv, MediaInv, PhasesEnd
  <2> QED
    BY <1>3, <2>1, <2>2, <2>4, FreshStays, BridgeStays
       DEF onStartCall, RestInv, mediaVars
<1>4. CASE Rings(c)
  <2>1. PhasesEnd
    BY <1>4 DEF Rings, NativeMoves, PhasesEnd, slotVars, timerVars
  <2>2. NativeOnward /\ created' = created
    BY <1>4 DEF Rings, NativeMoves, NativeOnward, TypeOK
  <2> QED
    BY <1>4, <2>1, <2>2, FreshStays, BridgeStays, MediaStays
       DEF Rings, NativeMoves, RestInv, mediaVars
<1>5. CASE Connects(c)
  <2>1. PhasesEnd
    BY <1>5 DEF Connects, NativeMoves, HasBridge, PhasesEnd, slotVars, timerVars
  <2>2. NativeOnward /\ created' = created
    BY <1>5 DEF Connects, NativeMoves, HasBridge, NativeOnward, TypeOK
  <2>3. BridgeInv' /\ LimitInv'
    BY <1>5, <2>1 DEF Connects, NativeMoves, HasBridge, TypeOK, RestInv,
                      BridgeInv, LimitInv, PhasesEnd, Live, bridgeVars
  <2> QED
    BY <1>5, <2>1, <2>2, <2>3, FreshStays, MediaStays
       DEF Connects, NativeMoves, HasBridge, RestInv, mediaVars
<1>6. CASE ConnectsWithoutBridge(c)
  <2>1. PhasesEnd
    BY <1>6, EndCallPhases DEF ConnectsWithoutBridge
  <2>2. NativeOnward /\ created' = created
    BY <1>6 DEF ConnectsWithoutBridge, NativeOnward, TypeOK
  <2> QED
    BY <1>6, <2>1, <2>2, FreshStays, BridgeStays, MediaStays
       DEF ConnectsWithoutBridge, RestInv, mediaVars
<1>7. CASE NativeEnds(c)
  <2>1. PhasesEnd
    <3>1. CASE active = c
      BY <1>7, <3>1, FinalizePhases DEF NativeEnds
    <3>2. CASE active # c
      BY <1>7, <3>2 DEF NativeEnds, PhasesEnd, endVars, slotVars, timerVars
    <3> QED
      BY <3>1, <3>2
  <2>2. NativeOnward /\ created' = created
    BY <1>7 DEF NativeEnds, NativeOnward, TypeOK
  <2> QED
    BY <1>7, <2>1, <2>2, FreshStays, BridgeStays, MediaStays
       DEF NativeEnds, RestInv, mediaVars
<1>8. CASE HangupHandedOver(c)
  <2>1. PhasesEnd
    BY <1>8 DEF HangupHandedOver, PhasesEnd, endVars, slotVars, timerVars
  <2>2. NativeOnward /\ created' = created
    BY <1>8 DEF HangupHandedOver, NativeOnward
  <2> QED
    BY <1>8, <2>1, <2>2, FreshStays, BridgeStays, MediaStays
       DEF HangupHandedOver, RestInv, mediaVars
<1>9. CASE HangupSendSettles(c)
  <2>1. PhasesEnd
    BY <1>9 DEF HangupSendSettles, PhasesEnd, slotVars, timerVars
  <2>2. NativeOnward /\ created' = created
    BY <1>9 DEF HangupSendSettles, NativeOnward
  <2> QED
    BY <1>9, <2>1, <2>2, FreshStays, BridgeStays, MediaStays
       DEF HangupSendSettles, RestInv, mediaVars
<1>10. CASE ConnectedListenerEnds(c)
  <2>1. PhasesEnd
    BY <1>10 DEF ConnectedListenerEnds, FinalizeWith, Live, PhasesEnd, TypeOK
  <2>2. NativeOnward /\ created' = created
    BY <1>10 DEF ConnectedListenerEnds, NativeOnward, TypeOK
  <2>3. BridgeInv' /\ LimitInv'
    BY <1>10, <2>1 DEF ConnectedListenerEnds, FinalizeWith, HasBridge, TypeOK,
                       RestInv, BridgeInv, LimitInv, PhasesEnd, Live
  <2> QED
    BY <1>10, <2>1, <2>2, <2>3, FreshStays, MediaStays
       DEF ConnectedListenerEnds, RestInv, mediaVars
<1> QED
  BY <1>1, <1>2, <1>3, <1>4, <1>5, <1>6, <1>7, <1>8, <1>9, <1>10 DEF RingRtcStep

LEMMA BringUpRest ==
  ASSUME TypeOK, EndInv, RestInv, NEW c \in Calls, BringUpStep(c)
  PROVE  RestInv'
<1>1. CASE TurnArrives(c)
  <2>1. PhasesEnd
    BY <1>1 DEF TurnArrives, MediaStep, PhasesEnd, endVars, slotVars, timerVars
  <2>2. NativeOnward /\ created' = created
    BY <1>1 DEF TurnArrives, MediaStep, NativeOnward
  <2>4. MediaInv'
    BY <1>1, <2>1 DEF TurnArrives, MediaStep, TypeOK, RestInv, MediaInv,
                      PhasesEnd
  <2> QED
    BY <1>1, <2>1, <2>2, <2>4, FreshStays, BridgeStays
       DEF TurnArrives, MediaStep, RestInv, mediaVars
<1>2. CASE TurnFails(c)
  <2>1. PhasesEnd
    BY <1>2, FinalizePhases DEF TurnFails
  <2>2. NativeOnward /\ created' = created
    BY <1>2 DEF TurnFails, MediaStep, NativeOnward
  <2>4. MediaInv'
    BY <1>2, <2>1 DEF TurnFails, MediaStep, TypeOK, RestInv, MediaInv, PhasesEnd
  <2> QED
    BY <1>2, <2>1, <2>2, <2>4, FreshStays, BridgeStays
       DEF TurnFails, MediaStep, RestInv, mediaVars
<1>3. CASE DevicesUp(c)
  <2>1. PhasesEnd
    BY <1>3 DEF DevicesUp, MediaStep, PhasesEnd, endVars, slotVars, timerVars
  <2>2. NativeOnward /\ created' = created
    BY <1>3 DEF DevicesUp, MediaStep, NativeOnward
  <2>4. MediaInv'
    BY <1>3, <2>1 DEF DevicesUp, MediaStep, TypeOK, RestInv, MediaInv, PhasesEnd
  <2> QED
    BY <1>3, <2>1, <2>2, <2>4, FreshStays, BridgeStays
       DEF DevicesUp, MediaStep, RestInv, mediaVars
<1>4. CASE DevicesFail(c)
  <2>1. PhasesEnd
    BY <1>4 DEF DevicesFail, MediaStep, PhasesEnd, endVars, slotVars, timerVars
  <2>2. NativeOnward /\ created' = created
    BY <1>4 DEF DevicesFail, MediaStep, NativeOnward
  <2>4. MediaInv'
    BY <1>4, <2>1 DEF DevicesFail, MediaStep, TypeOK, RestInv, MediaInv,
                      PhasesEnd
  <2> QED
    BY <1>4, <2>1, <2>2, <2>4, FreshStays, BridgeStays
       DEF DevicesFail, MediaStep, RestInv, mediaVars
<1>5. CASE RolledBack(c)
  <2>1. PhasesEnd
    BY <1>5, FinalizePhases DEF RolledBack
  <2>2. NativeOnward /\ created' = created
    BY <1>5 DEF RolledBack, MediaStep, Unload, NativeOnward
  <2>4. MediaInv'
    BY <1>5, <2>1 DEF RolledBack, MediaStep, Unload, TypeOK, RestInv, MediaInv,
                      PhasesEnd
  <2> QED
    BY <1>5, <2>1, <2>2, <2>4, FreshStays, BridgeStays
       DEF RolledBack, MediaStep, Unload, RestInv, mediaVars
<1>6. CASE Pointed(c)
  <2>1. PhasesEnd
    BY <1>6 DEF Pointed, MediaStep, PhasesEnd, endVars, slotVars, timerVars
  <2>2. NativeOnward /\ created' = created
    BY <1>6 DEF Pointed, MediaStep, NativeOnward, TypeOK
  <2>4. MediaInv'
    BY <1>6, <2>1 DEF Pointed, MediaStep, TypeOK, RestInv, MediaInv, PhasesEnd
  <2> QED
    BY <1>6, <2>1, <2>2, <2>4, FreshStays, BridgeStays
       DEF Pointed, MediaStep, RestInv, mediaVars
<1>7. CASE PointFails(c)
  <2>1. PhasesEnd
    BY <1>7, EndCallPhases DEF PointFails
  <2>2. NativeOnward /\ created' = created
    BY <1>7 DEF PointFails, MediaStep, NativeOnward
  <2>4. MediaInv'
    BY <1>7, <2>1 DEF PointFails, MediaStep, TypeOK, RestInv, MediaInv,
                      PhasesEnd
  <2> QED
    BY <1>7, <2>1, <2>2, <2>4, FreshStays, BridgeStays
       DEF PointFails, MediaStep, RestInv, mediaVars
<1> QED
  BY <1>1, <1>2, <1>3, <1>4, <1>5, <1>6, <1>7 DEF BringUpStep

LEMMA ReleaseRest ==
  ASSUME TypeOK, EndInv, RestInv, NEW c \in Calls, ReleaseStep(c)
  PROVE  RestInv'
<1>1. CASE LateDevicesDown(c)
  <2>1. PhasesEnd
    BY <1>1 DEF LateDevicesDown, MediaStep, Unload, PhasesEnd, endVars, slotVars,
                timerVars
  <2>2. NativeOnward /\ created' = created
    BY <1>1 DEF LateDevicesDown, MediaStep, Unload, NativeOnward
  <2>4. MediaInv'
    BY <1>1, <2>1 DEF LateDevicesDown, MediaStep, Unload, TypeOK, RestInv, MediaInv,
                      PhasesEnd
  <2> QED
    BY <1>1, <2>1, <2>2, <2>4, FreshStays, BridgeStays
       DEF LateDevicesDown, MediaStep, Unload, RestInv, mediaVars
<1>2. CASE BridgeCloses(c)
  <2>1. PhasesEnd
    BY <1>2 DEF BridgeCloses, AfterBridge, PhasesEnd, slotVars, timerVars
  <2>2. NativeOnward /\ created' = created
    BY <1>2 DEF BridgeCloses, AfterBridge, NativeOnward
  <2>3. BridgeInv' /\ LimitInv'
    BY <1>2, <2>1 DEF BridgeCloses, AfterBridge, TypeOK, RestInv, BridgeInv,
                      LimitInv, PhasesEnd, EndInv, TeardownInv
  <2> QED
    BY <1>2, <2>1, <2>2, <2>3, FreshStays, MediaStays
       DEF BridgeCloses, AfterBridge, RestInv, mediaVars
<1>3. CASE DevicesDown(c)
  <2>1. PhasesEnd
    BY <1>3 DEF DevicesDown, Unload, PhasesEnd, slotVars, timerVars
  <2>2. NativeOnward /\ created' = created
    BY <1>3 DEF DevicesDown, Unload, NativeOnward
  <2>4. MediaInv'
    BY <1>3, <2>1 DEF DevicesDown, Unload, TypeOK, RestInv, MediaInv, PhasesEnd,
                      EndInv, TeardownInv
  <2> QED
    BY <1>3, <2>1, <2>2, <2>4, FreshStays, BridgeStays
       DEF DevicesDown, Unload, RestInv, mediaVars
<1> QED
  BY <1>1, <1>2, <1>3 DEF ReleaseStep

LEMMA CloseRest ==
  ASSUME TypeOK, EndInv, RestInv, NEW k \in Closes, CloseStep(k)
  PROVE  RestInv'
<1>1. CASE HangupDrained(k)
  <2>1. PhasesEnd
    BY <1>1 DEF HangupDrained, PhasesEnd, endVars, slotVars, timerVars
  <2>2. NativeOnward /\ created' = created
    BY <1>1 DEF HangupDrained, NativeOnward
  <2> QED
    BY <1>1, <2>1, <2>2, FreshStays, BridgeStays, MediaStays
       DEF HangupDrained, RestInv, mediaVars
<1>2. CASE CloseReturns(k)
  <2>1. PhasesEnd
    BY <1>2 DEF CloseReturns, PhasesEnd, slotVars, timerVars
  <2>2. NativeOnward /\ created' = created
    BY <1>2 DEF CloseReturns, NativeOnward
  <2> QED
    BY <1>2, <2>1, <2>2, FreshStays, BridgeStays, MediaStays
       DEF CloseReturns, RestInv, mediaVars
<1> QED
  BY <1>1, <1>2 DEF CloseStep

-----------------------------------------------------------------------------
LEMMA CallStep == CallInv /\ [Next]_vars => CallInv'
<1> SUFFICES ASSUME TypeOK, EndInv, RestInv, [Next]_vars
             PROVE  TypeOK' /\ EndInv' /\ RestInv'
  BY DEF CallInv, RestInv
<1>1. FreshInv
  BY DEF RestInv
<1>2. CASE HostStep
  BY <1>1, <1>2, HostTypes, HostEnds, HostRest
<1>3. ASSUME NEW k \in Closes, CloseStep(k) PROVE TypeOK' /\ EndInv' /\ RestInv'
  BY <1>1, <1>3, CloseTypes, CloseEnds, CloseRest
<1>4. ASSUME NEW c \in Calls, TimerStep(c) PROVE TypeOK' /\ EndInv' /\ RestInv'
  BY <1>1, <1>4, TimerTypes, TimerEnds, TimerRest
<1>5. ASSUME NEW c \in Calls, RingRtcStep(c) PROVE TypeOK' /\ EndInv' /\ RestInv'
  BY <1>1, <1>5, RingRtcTypes, RingRtcEnds, RingRtcRest
<1>6. ASSUME NEW c \in Calls, BringUpStep(c) PROVE TypeOK' /\ EndInv' /\ RestInv'
  BY <1>1, <1>6, BringUpTypes, BringUpEnds, BringUpRest
<1>7. ASSUME NEW c \in Calls, ReleaseStep(c) PROVE TypeOK' /\ EndInv' /\ RestInv'
  BY <1>1, <1>7, ReleaseTypes, ReleaseEnds, ReleaseRest
<1>8. CASE UNCHANGED vars
  <2>1. TypeOK'
    BY <1>8 DEF TypeOK, vars, endVars, slotVars, timerVars,
                mediaVars, bridgeVars, closeVars
  <2>2. EndInv'
    BY <1>8, EndsUnchanged DEF vars
  <2>3. RestInv'
    BY <1>8 DEF RestInv, FreshInv, BridgeInv, LimitInv, MediaInv, vars, endVars, slotVars,
                timerVars, mediaVars, bridgeVars
  <2> QED
    BY <2>1, <2>2, <2>3
<1> QED
  BY <1>2, <1>3, <1>4, <1>5, <1>6, <1>7, <1>8 DEF Next

(* The invariant: one call has the slot, ends and teardowns go together, a *)
(* call takes the slot while it is new, bridges and devices last until the *)
(* end of their call.                                                      *)
THEOREM CallInvariant == Spec => []CallInv
<1>1. Init => CallInv
  BY CallInit
<1>2. CallInv /\ [Next]_vars => CallInv'
  BY CallStep
<1> QED
  BY <1>1, <1>2, PTL DEF Spec

(* Every variable keeps its type, for any number of calls and of close()   *)
(* (the fields of SignalCallManager and of its ActiveCall).                *)
THEOREM TypeCorrect == Spec => []TypeOK
<1>1. CallInv => TypeOK
  BY DEF CallInv
<1> QED
  BY <1>1, CallInvariant, PTL

(* The live call is the active one, whatever offers, outgoing calls and    *)
(* ends cross (setActiveCall, isBusy, finalizeCall).                       *)
THEOREM OneCallAtATime == Spec => []OneLiveCall
<1>1. CallInv => OneLiveCall
  BY DEF CallInv, EndInv
<1> QED
  BY <1>1, CallInvariant, PTL

(* Each call is reported connected once at most and ended once, whoever    *)
(* ends it (handleConnected, finalizeCall).                                *)
THEOREM EventsAreSingle == Spec => []EventsOnce
<1>1. CallInv => EventsOnce
  BY DEF CallInv, EndInv, EndedOnce, BridgeInv, EventsOnce
<1> QED
  BY <1>1, CallInvariant, PTL

(* No ring timer and no waiting accept() outlives its call, a call that is *)
(* connected stays limited to its end, and no duration timer outlives its  *)
(* call but where a listener of "connected" ended it (clearTimers,         *)
(* handleConnected).                                                       *)
THEOREM NothingLeftBehind == Spec => []TimersMatchCalls
<1>1. CallInv => TimersMatchCalls
  BY DEF CallInv, EndInv, TimersMatchCalls
<1> QED
  BY <1>1, CallInvariant, PTL

(* A call comes into the state "connecting" by Pointed alone.              *)
LEMMA ProceedStep ==
  ASSUME CallInv, [Next]_vars, NEW c \in Calls,
         native[c] # "connecting", native'[c] = "connecting"
  PROVE  /\ Live(c) /\ c \in loaded \cap owned
         /\ teardown[c] = "none" /\ selected' = c
<1> USE DEF CallInv, TypeOK
<1>1. Pointed(c)
  <2>1. ~ HostStep
    BY DEF HostStep, ensureReady, startOutgoingCall, handleIncomingCallMessage,
           close, accept, decline, hangupCall, LocalEnd
  <2>2. \A k \in Closes : ~ CloseStep(k)
    BY DEF CloseStep, HangupDrained, CloseReturns
  <2>3. ~ UNCHANGED vars
    BY DEF vars
  <2>4. PICK d \in Calls : TimerStep(d) \/ RingRtcStep(d) \/ BringUpStep(d)
                            \/ ReleaseStep(d)
    BY <2>1, <2>2, <2>3 DEF Next
  <2>5. ~ TimerStep(d)
    BY DEF TimerStep, AcceptTimesOut, RingTimeout, MaxDuration, StaleDuration,
           LocalEnd
  <2>6. ~ RingRtcStep(d)
    <3>1. ~ onIncomingCall(d) /\ ~ OfferDropped(d) /\ ~ onStartCall(d)
      BY DEF onIncomingCall, OfferDropped, onStartCall
    <3>2. ~ Rings(d) /\ ~ Connects(d)
      BY DEF Rings, Connects, NativeMoves
    <3>3. ~ ConnectedListenerEnds(d) /\ ~ ConnectsWithoutBridge(d) /\ ~ NativeEnds(d)
      BY DEF ConnectedListenerEnds, ConnectsWithoutBridge, NativeEnds
    <3>4. ~ HangupHandedOver(d) /\ ~ HangupSendSettles(d)
      BY DEF HangupHandedOver, HangupSendSettles
    <3> QED
      BY <3>1, <3>2, <3>3, <3>4 DEF RingRtcStep
  <2>7. ~ ReleaseStep(d)
    BY DEF ReleaseStep, LateDevicesDown, BridgeCloses, DevicesDown
  <2>8. Pointed(d)
    BY <2>4, <2>5, <2>6, <2>7 DEF BringUpStep, TurnArrives, TurnFails,
       DevicesUp, DevicesFail, RolledBack, PointFails
  <2>9. d = c
    BY <2>8 DEF Pointed
  <2> QED
    BY <2>8, <2>9
<1>2. media[c] = "pointing" /\ phase[c] = "live" /\ selected' = c
  BY <1>1 DEF Pointed, MediaStep
<1>3. Live(c) /\ teardown[c] = "none"
  BY <1>2 DEF Live, EndInv, OneLiveCall, TeardownInv
<1>4. c \in loaded \cap owned
  BY <1>2 DEF MediaInv
<1> QED
  BY <1>2, <1>3, <1>4

(* RingRTC is told to proceed with a call that is live, with its own       *)
(* devices up and selected (beginCallMedia, after its awaits).             *)
THEOREM ProceedsWithDevices == Spec => ProceedsOnlyLive
<1>1. CallInv /\ [Next]_vars =>
        [\A c \in Calls : native[c] # "connecting" /\ native'[c] = "connecting"
           => /\ Live(c) /\ c \in loaded \cap owned
              /\ teardown[c] = "none" /\ selected' = c]_vars
  BY ProceedStep
<1> QED
  BY <1>1, CallInvariant, PTL DEF Spec, ProceedsOnlyLive

-----------------------------------------------------------------------------
(* What a call has open is on its way to be released.                      *)

(* Its bring-up is still under way and will look at the end of the call    *)
(* when the devices are up, or rolls them back.                            *)
BringsUp(c) == media[c] \in {"setup", "rollback", "late"}

TakesDown(c) == teardown[c] \in {"bridge", "devices"}

(* The bring-up has loaded devices until the call owns them, or pactl has  *)
(* failed to unload them.                                                  *)
BringUpInv ==
  \A c \in Calls :
    /\ native[c] \in {"none", "offered", "starting"} => media[c] = "none"
    /\ c \in (loaded \ leaked) \ owned => BringsUp(c)
    /\ c \in owned => media[c] \in {"pointing", "over"}

(* What an ended call owns, its teardown has before it.                    *)
TakeDownInv ==
  \A c \in Calls : phase[c] = "ended" =>
    /\ c \in (loaded \ leaked) \cap owned => TakesDown(c)
    /\ bridge[c] = "open" => teardown[c] = "bridge"

KeeperInv == BringUpInv /\ TakeDownInv

(* Of all devices and bridges of ended calls there is one who takes them   *)
(* down, unless he has and pactl failed.                                   *)
MediaHasKeeper ==
  \A c \in Calls : phase[c] = "ended" =>
    /\ c \in loaded \ leaked => BringsUp(c) \/ TakesDown(c)
    /\ bridge[c] = "open" => TakesDown(c)

(* Ending a call begins to take down what it owns.                         *)
LEMMA EndTakesDown ==
  ASSUME TypeOK, TakeDownInv, NEW c \in Calls, finalizeCall(c) \/ UNCHANGED endVars,
         bridge' = bridge, owned' = owned, loaded' \ leaked' \subseteq loaded \ leaked
  PROVE  TakeDownInv'
<1> USE DEF TypeOK, TakeDownInv, TakesDown
<1>1. CASE UNCHANGED endVars
  BY <1>1 DEF endVars, slotVars
<1>2. CASE Finalize(c)
  <2>1. /\ phase' = [phase EXCEPT ![c] = "ended"]
        /\ teardown' = [teardown EXCEPT ![c] = TeardownStart(c)]
    BY <1>2 DEF Finalize, FinalizeWith
  <2>2. ASSUME NEW d \in Calls, phase'[d] = "ended", d # c
        PROVE  phase[d] = "ended" /\ teardown'[d] = teardown[d]
    BY <2>1, <2>2
  <2>3. teardown'[c] = TeardownStart(c)
    BY <2>1
  <2> QED
    BY <2>2, <2>3 DEF TeardownStart
<1> QED
  BY <1>1, <1>2 DEF finalizeCall

LEMMA EndCallTakesDown ==
  ASSUME TypeOK, TakeDownInv, NEW c \in Calls, endCall(c) \/ UNCHANGED endVars,
         bridge' = bridge, owned' = owned, loaded' \ leaked' \subseteq loaded \ leaked
  PROVE  TakeDownInv'
BY EndTakesDown DEF endCall, finalizeCall

(* No step but of the bring-up or of its start touches the bring-up.       *)
LEMMA BringUpStays ==
  ASSUME TypeOK, BringUpInv, UNCHANGED <<media, owned>>, loaded' \ leaked' \subseteq loaded \ leaked,
         \A c \in Calls : native'[c] \in {"none", "offered", "starting"} =>
            native[c] \in {"none", "offered", "starting"}
  PROVE  BringUpInv'
BY DEF TypeOK, BringUpInv, BringsUp

(* A call that has not ended before owes nothing.                          *)
LEMMA TakeDownStays ==
  ASSUME TypeOK, TakeDownInv, UNCHANGED <<teardown, owned, bridge>>, loaded' \ leaked' \subseteq loaded \ leaked,
         \A c \in Calls : phase'[c] = "ended" => phase[c] = "ended"
  PROVE  TakeDownInv'
BY DEF TypeOK, TakeDownInv, TakesDown

LEMMA HostKeeps ==
  ASSUME TypeOK, FreshInv, KeeperInv, HostStep
  PROVE  KeeperInv'
<1> USE DEF KeeperInv
<1>1. CASE ensureReady
  BY <1>1, BringUpStays, TakeDownStays
     DEF ensureReady, endVars, slotVars, mediaVars, bridgeVars
<1>2. CASE startOutgoingCall
  <2>1. created + 1 \in Calls
    BY <1>2, CallAssumption DEF startOutgoingCall, TypeOK, Calls
  <2>2. native[created + 1] = "none"
    BY <2>1 DEF FreshInv, TypeOK, Calls
  <2>3. \A c \in Calls : native'[c] \in {"none", "offered", "starting"} =>
            native[c] \in {"none", "offered", "starting"}
    BY <1>2, <2>1, <2>2 DEF startOutgoingCall, TypeOK
  <2>4. \A c \in Calls : phase'[c] = "ended" => phase[c] = "ended"
    BY <1>2, <2>1 DEF startOutgoingCall, SetActive, TypeOK
  <2> QED
    BY <1>2, <2>3, <2>4, BringUpStays, TakeDownStays
       DEF startOutgoingCall, SetActive, mediaVars, bridgeVars
<1>3. CASE handleIncomingCallMessage
  <2>1. created + 1 \in Calls
    BY <1>3, CallAssumption DEF handleIncomingCallMessage, TypeOK, Calls
  <2>2. native[created + 1] = "none"
    BY <2>1 DEF FreshInv, TypeOK, Calls
  <2>3. \A c \in Calls : native'[c] \in {"none", "offered", "starting"} =>
            native[c] \in {"none", "offered", "starting"}
    BY <1>3, <2>1, <2>2 DEF handleIncomingCallMessage, TypeOK
  <2> QED
    BY <1>3, <2>3, BringUpStays, TakeDownStays
       DEF handleIncomingCallMessage, endVars, slotVars, mediaVars, bridgeVars
<1>4. CASE close
  <2>1. CASE active # 0
    <3>1. active \in Calls /\ endCall(active)
      BY <1>4, <2>1 DEF close, TypeOK
    <3> QED
      BY <1>4, <3>1, BringUpStays, EndCallTakesDown DEF close, mediaVars, bridgeVars
  <2>2. CASE active = 0
    BY <1>4, <2>2, BringUpStays, TakeDownStays
       DEF close, mediaVars, bridgeVars, endVars, slotVars
  <2> QED BY <2>1, <2>2
<1>5. ASSUME NEW c \in Calls, accept(c)
      PROVE  KeeperInv'
  BY <1>5, BringUpStays, TakeDownStays DEF accept, slotVars, mediaVars, bridgeVars
<1>6. ASSUME NEW c \in Calls, LocalEnd(c)
      PROVE  KeeperInv'
  BY <1>6, BringUpStays, EndCallTakesDown DEF LocalEnd, mediaVars, bridgeVars
<1> QED
  BY <1>1, <1>2, <1>3, <1>4, <1>5, <1>6 DEF HostStep, decline, hangupCall

LEMMA TimerKeeps ==
  ASSUME TypeOK, KeeperInv, NEW c \in Calls, TimerStep(c)
  PROVE  KeeperInv'
<1> USE DEF KeeperInv
<1>1. CASE AcceptTimesOut(c)
  BY <1>1, BringUpStays, TakeDownStays DEF AcceptTimesOut, slotVars, mediaVars, bridgeVars
<1>2. CASE LocalEnd(c)
  BY <1>2, BringUpStays, EndCallTakesDown DEF LocalEnd, mediaVars, bridgeVars
<1>3. CASE StaleDuration(c)
  BY <1>3, BringUpStays, TakeDownStays DEF StaleDuration, slotVars, mediaVars, bridgeVars
<1> QED
  BY <1>1, <1>2, <1>3 DEF TimerStep, RingTimeout, MaxDuration

LEMMA RingRtcKeeps ==
  ASSUME TypeOK, EndInv, KeeperInv, NEW c \in Calls, RingRtcStep(c)
  PROVE  KeeperInv'
<1> USE DEF KeeperInv
<1>1. CASE onIncomingCall(c)
  <2>1. \A d \in Calls : native'[d] \in {"none", "offered", "starting"} =>
            native[d] \in {"none", "offered", "starting"}
    BY <1>1 DEF onIncomingCall, TypeOK
  <2>2. \A d \in Calls : phase'[d] = "ended" => phase[d] = "ended"
    BY <1>1 DEF onIncomingCall, SetActive, slotVars, TypeOK
  <2>3. teardown' = teardown
    BY <1>1 DEF onIncomingCall, SetActive, slotVars
  <2> QED
    BY <1>1, <2>1, <2>2, <2>3, BringUpStays, TakeDownStays
       DEF onIncomingCall, mediaVars, bridgeVars
<1>2. CASE OfferDropped(c)
  <2>1. \A d \in Calls : native'[d] \in {"none", "offered", "starting"} =>
            native[d] \in {"none", "offered", "starting"}
    BY <1>2 DEF OfferDropped, TypeOK
  <2> QED
    BY <1>2, <2>1, BringUpStays, TakeDownStays
       DEF OfferDropped, endVars, slotVars, mediaVars, bridgeVars
<1>3. CASE onStartCall(c)
  <2>1. BringUpInv'
    BY <1>3 DEF onStartCall, TypeOK, BringUpInv, BringsUp
  <2> QED
    BY <1>3, <2>1, TakeDownStays DEF onStartCall, endVars, slotVars, bridgeVars
<1>4. CASE Rings(c)
  <2>1. \A d \in Calls : native'[d] \in {"none", "offered", "starting"} =>
            native[d] \in {"none", "offered", "starting"}
    BY <1>4 DEF Rings, NativeMoves, TypeOK
  <2> QED
    BY <1>4, <2>1, BringUpStays, TakeDownStays
       DEF Rings, NativeMoves, slotVars, mediaVars, bridgeVars
<1>5. CASE Connects(c)
  <2>1. \A d \in Calls : native'[d] \in {"none", "offered", "starting"} =>
            native[d] \in {"none", "offered", "starting"}
    BY <1>5 DEF Connects, NativeMoves, TypeOK
  <2>2. BringUpInv'
    BY <1>5, <2>1, BringUpStays DEF Connects, NativeMoves, mediaVars
  <2>3. UNCHANGED <<phase, teardown, loaded, leaked, owned>> /\ phase[c] # "ended"
    BY <1>5 DEF Connects, NativeMoves, slotVars, mediaVars, Live
  <2>4. \A d \in Calls : d # c => bridge'[d] = bridge[d]
    BY <1>5 DEF Connects, bridgeVars, TypeOK
  <2> QED
    BY <2>2, <2>3, <2>4 DEF TakeDownInv, TakesDown
<1>6. CASE ConnectsWithoutBridge(c)
  <2>1. \A d \in Calls : native'[d] \in {"none", "offered", "starting"} =>
            native[d] \in {"none", "offered", "starting"}
    BY <1>6 DEF ConnectsWithoutBridge, TypeOK
  <2> QED
    BY <1>6, <2>1, BringUpStays, EndCallTakesDown
       DEF ConnectsWithoutBridge, mediaVars, bridgeVars
<1>7. CASE NativeEnds(c)
  <2>1. \A d \in Calls : native'[d] \in {"none", "offered", "starting"} =>
            native[d] \in {"none", "offered", "starting"}
    BY <1>7 DEF NativeEnds, TypeOK
  <2>2. finalizeCall(c) \/ UNCHANGED endVars
    BY <1>7 DEF NativeEnds
  <2> QED
    BY <1>7, <2>1, <2>2, BringUpStays, EndTakesDown
       DEF NativeEnds, mediaVars, bridgeVars
<1>8. CASE HangupHandedOver(c)
  BY <1>8, BringUpStays, TakeDownStays
     DEF HangupHandedOver, endVars, slotVars, mediaVars, bridgeVars
<1>9. CASE HangupSendSettles(c)
  BY <1>9, BringUpStays, TakeDownStays
     DEF HangupSendSettles, slotVars, mediaVars, bridgeVars
<1>10. CASE ConnectedListenerEnds(c)
  <2>1. \A d \in Calls : native'[d] \in {"none", "offered", "starting"} =>
            native[d] \in {"none", "offered", "starting"}
    BY <1>10 DEF ConnectedListenerEnds, TypeOK
  <2>2. BringUpInv'
    BY <1>10, <2>1, BringUpStays DEF ConnectedListenerEnds, mediaVars
  <2>3. /\ bridge' = [bridge EXCEPT ![c] = "open"]
        /\ phase' = [phase EXCEPT ![c] = "ended"]
        /\ teardown' = [teardown EXCEPT ![c] = "bridge"]
        /\ UNCHANGED <<loaded, leaked, owned>>
    BY <1>10 DEF ConnectedListenerEnds, FinalizeWith, mediaVars
  <2>4. TakeDownInv'
    BY <2>3 DEF TypeOK, TakeDownInv, TakesDown
  <2> QED BY <2>2, <2>4
<1> QED
  BY <1>1, <1>2, <1>3, <1>4, <1>5, <1>6, <1>7, <1>8, <1>9, <1>10 DEF RingRtcStep

(* What a bring-up does to the invariant, once native is past the start.   *)
LEMMA BringUpPast ==
  ASSUME BringUpInv, NEW c \in Calls, media[c] # "none"
  PROVE  native[c] \notin {"none", "offered", "starting"}
BY DEF BringUpInv

LEMMA BringUpKeeps ==
  ASSUME TypeOK, EndInv, KeeperInv, NEW c \in Calls, BringUpStep(c)
  PROVE  KeeperInv'
<1> USE DEF KeeperInv
<1>1. media[c] # "none"
  BY DEF BringUpStep, TurnArrives, TurnFails, DevicesUp, DevicesFail, RolledBack, Pointed,
         PointFails, MediaStep
<1>2. native[c] \notin {"none", "offered", "starting"}
  BY <1>1, BringUpPast
<1>3. CASE TurnArrives(c)
  <2>1. media[c] = "turn" /\ c \notin owned
    BY <1>3 DEF TurnArrives, MediaStep, BringUpInv, BringsUp
  <2>2. BringUpInv'
    BY <1>2, <1>3, <2>1 DEF TurnArrives, MediaStep, BringUpInv, BringsUp, TypeOK
  <2>3. TakeDownInv'
    BY <1>3, <2>1
       DEF TurnArrives, MediaStep, TakeDownInv, TakesDown, TypeOK, endVars, slotVars, bridgeVars
  <2> QED BY <2>2, <2>3
<1>4. CASE TurnFails(c)
  <2>1. BringUpInv'
    BY <1>2, <1>4 DEF TurnFails, MediaStep, BringUpInv, BringsUp, TypeOK
  <2> QED
    BY <1>4, <2>1, EndTakesDown DEF TurnFails, MediaStep, bridgeVars
<1>5. CASE DevicesUp(c)
  <2>1. media[c] = "setup" /\ c \notin owned
    BY <1>5 DEF DevicesUp, MediaStep, BringUpInv
  <2>2. BringUpInv'
    BY <1>2, <1>5, <2>1 DEF DevicesUp, MediaStep, BringUpInv, BringsUp, TypeOK
  <2>3. TakeDownInv'
    BY <1>5, <2>1
       DEF DevicesUp, MediaStep, TakeDownInv, TakesDown, TypeOK, endVars, slotVars, bridgeVars
  <2> QED BY <2>2, <2>3
<1>6. CASE DevicesFail(c)
  <2>1. BringUpInv'
    BY <1>2, <1>6 DEF DevicesFail, MediaStep, BringUpInv, BringsUp, TypeOK
  <2> QED
    BY <1>6, <2>1, TakeDownStays DEF DevicesFail, MediaStep, endVars, slotVars, bridgeVars
<1>7. CASE RolledBack(c)
  <2>1. BringUpInv'
    BY <1>2, <1>7 DEF RolledBack, MediaStep, Unload, BringUpInv, BringsUp, TypeOK
  <2> QED
    BY <1>7, <2>1, EndTakesDown DEF RolledBack, MediaStep, Unload, bridgeVars
<1>8. CASE Pointed(c)
  <2>1. \A d \in Calls : native'[d] \in {"none", "offered", "starting"} =>
            native[d] \in {"none", "offered", "starting"}
    BY <1>8 DEF Pointed, TypeOK
  <2>2. BringUpInv'
    BY <1>2, <1>8, <2>1 DEF Pointed, MediaStep, BringUpInv, BringsUp, TypeOK
  <2> QED
    BY <1>8, <2>2, TakeDownStays DEF Pointed, MediaStep, endVars, slotVars, bridgeVars
<1>9. CASE PointFails(c)
  <2>1. BringUpInv'
    BY <1>2, <1>9 DEF PointFails, MediaStep, BringUpInv, BringsUp, TypeOK
  <2> QED
    BY <1>9, <2>1, EndCallTakesDown DEF PointFails, MediaStep, bridgeVars
<1> QED
  BY <1>3, <1>4, <1>5, <1>6, <1>7, <1>8, <1>9 DEF BringUpStep

LEMMA ReleaseKeeps ==
  ASSUME TypeOK, EndInv, KeeperInv, NEW c \in Calls, ReleaseStep(c)
  PROVE  KeeperInv'
<1> USE DEF KeeperInv
<1>1. CASE LateDevicesDown(c)
  <2>1. media[c] = "late" /\ c \notin owned
    BY <1>1 DEF LateDevicesDown, MediaStep, Unload, BringUpInv
  <2>2. BringUpInv'
    BY <1>1, <2>1, BringUpPast DEF LateDevicesDown, MediaStep, Unload, BringUpInv, BringsUp, TypeOK
  <2> QED
    BY <1>1, <2>2, TakeDownStays DEF LateDevicesDown, MediaStep, Unload, endVars, slotVars, bridgeVars
<1>2. CASE BridgeCloses(c)
  <2>1. BringUpInv'
    BY <1>2, BringUpStays DEF BridgeCloses, mediaVars
  <2>2. TakeDownInv'
    BY <1>2 DEF BridgeCloses, AfterBridge, TakeDownInv, TakesDown, TypeOK, mediaVars
  <2> QED BY <2>1, <2>2
<1>3. CASE DevicesDown(c)
  <2>1. BringUpInv'
    BY <1>3, BringUpStays DEF DevicesDown, Unload
  <2>2. TakeDownInv'
    BY <1>3 DEF DevicesDown, Unload, TakeDownInv, TakesDown, TypeOK, bridgeVars
  <2> QED BY <2>1, <2>2
<1> QED
  BY <1>1, <1>2, <1>3 DEF ReleaseStep

LEMMA KeeperStep == CallInv /\ KeeperInv /\ [Next]_vars => KeeperInv'
<1> SUFFICES ASSUME TypeOK, EndInv, FreshInv, KeeperInv, [Next]_vars
             PROVE  KeeperInv'
  BY DEF CallInv
<1>1. CASE HostStep
  BY <1>1, HostKeeps
<1>2. ASSUME NEW k \in Closes, CloseStep(k) PROVE KeeperInv'
  BY <1>2, BringUpStays, TakeDownStays
     DEF KeeperInv, CloseStep, HangupDrained, CloseReturns, endVars, slotVars, mediaVars,
         bridgeVars
<1>3. ASSUME NEW c \in Calls,
             TimerStep(c) \/ RingRtcStep(c) \/ BringUpStep(c) \/ ReleaseStep(c)
      PROVE  KeeperInv'
  BY <1>3, TimerKeeps, RingRtcKeeps, BringUpKeeps, ReleaseKeeps
<1>4. CASE UNCHANGED vars
  BY <1>4, BringUpStays, TakeDownStays
     DEF KeeperInv, vars, endVars, slotVars, mediaVars, bridgeVars
<1> QED
  BY <1>1, <1>2, <1>3, <1>4 DEF Next

LEMMA KeeperInvariant == Spec => []KeeperInv
<1>1. Init => KeeperInv
  BY DEF Init, KeeperInv, BringUpInv, TakeDownInv
<1> QED
  BY <1>1, KeeperStep, CallInvariant, PTL DEF Spec

(* The safety half of MediaReleased: what an ended call has open, a        *)
(* teardown or a bring-up is about to release, whichever side ended it and *)
(* wherever its bring-up was then (beginCallMedia, teardownMedia), but for *)
(* modules that pactl has failed to unload: those nobody takes down.       *)
THEOREM MediaAccountedFor == Spec => []MediaHasKeeper
<1>1. KeeperInv => MediaHasKeeper
  BY DEF KeeperInv, BringUpInv, TakeDownInv, MediaHasKeeper, TakesDown
<1> QED
  BY <1>1, KeeperInvariant, PTL

(* What close() does guarantee: devices of an ended call that are loaded   *)
(* when it returns are still being brought up or rolled back, or belong to *)
(* another call than the one whose teardown it awaited, with its bridge,   *)
(* or pactl has failed to unload them (close, pendingTeardown).            *)
CloseReleasesLatest ==
  [][\A k \in Closes, c \in Calls : CloseReturns(k) /\ phase[c] = "ended" =>
       /\ \/ c \notin loaded \ leaked \/ BringsUp(c)
          \/ TakesDown(c) /\ c # closeAwaits[k]
       /\ bridge[c] = "open" => c # closeAwaits[k]]_vars

THEOREM CloseAwaitsLatest == Spec => CloseReleasesLatest
<1>1. KeeperInv /\ [Next]_vars =>
        [\A k \in Closes, c \in Calls : CloseReturns(k) /\ phase[c] = "ended" =>
           /\ \/ c \notin loaded \ leaked \/ BringsUp(c)
              \/ TakesDown(c) /\ c # closeAwaits[k]
           /\ bridge[c] = "open" => c # closeAwaits[k]]_vars
  <2> SUFFICES ASSUME KeeperInv, NEW k \in Closes, NEW c \in Calls,
                      CloseReturns(k), phase[c] = "ended"
               PROVE  /\ \/ c \notin loaded \ leaked \/ BringsUp(c)
                         \/ TakesDown(c) /\ c # closeAwaits[k]
                      /\ bridge[c] = "open" => c # closeAwaits[k]
    OBVIOUS
  <2>1. c = closeAwaits[k] => teardown[c] = "over"
    BY CallAssumption DEF CloseReturns, TeardownOver, Calls
  <2> QED
    BY <2>1 DEF KeeperInv, BringUpInv, TakeDownInv, TakesDown
<1> QED
  BY <1>1, KeeperInvariant, PTL DEF Spec, CloseReleasesLatest

-----------------------------------------------------------------------------
(* What is awaited happens finitely often.                                 *)

(* How many awaits a bring-up has before it, and a teardown.               *)
BringUpLeft(m) ==
  CASE m = "none" -> 4 [] m = "turn" -> 3 [] m = "setup" -> 2 [] m = "over" -> 0
    [] OTHER -> 1

TeardownLeft(t) ==
  CASE t = "none" -> 3 [] t = "bridge" -> 2 [] t = "devices" -> 1 [] OTHER -> 0

AwaitsLeft(c) == BringUpLeft(media[c]) + TeardownLeft(teardown[c])

(* Neither goes back.                                                      *)
Onward(c) ==
  /\ BringUpLeft(media[c])' <= BringUpLeft(media[c])
  /\ TeardownLeft(teardown[c])' <= TeardownLeft(teardown[c])

LEMMA LeftAreNumbers ==
  ASSUME NEW m, NEW t
  PROVE  /\ BringUpLeft(m) \in 0 .. 4
         /\ TeardownLeft(t) \in 0 .. 3
BY DEF BringUpLeft, TeardownLeft

(* A call that has not ended has its whole teardown before it.             *)
LEMMA EndOnward ==
  ASSUME TypeOK, TeardownInv, NEW c \in Calls, finalizeCall(c) \/ UNCHANGED endVars,
         NEW d \in Calls
  PROVE  TeardownLeft(teardown[d])' <= TeardownLeft(teardown[d])
<1>1. CASE teardown'[d] = teardown[d]
  BY <1>1, LeftAreNumbers
<1>2. CASE Finalize(c) /\ phase[c] = "live"
  <2>1. CASE d = c
    BY <1>2, <2>1 DEF Finalize, FinalizeWith, TypeOK, TeardownInv, TeardownLeft
  <2>2. CASE d # c
    BY <1>1, <1>2, <2>2 DEF Finalize, FinalizeWith, TypeOK
  <2> QED BY <2>1, <2>2
<1> QED
  BY <1>1, <1>2 DEF finalizeCall, endVars, slotVars

LEMMA EndCallOnward ==
  ASSUME TypeOK, TeardownInv, NEW c \in Calls, endCall(c) \/ UNCHANGED endVars,
         NEW d \in Calls
  PROVE  TeardownLeft(teardown[d])' <= TeardownLeft(teardown[d])
BY EndOnward DEF endCall, finalizeCall

LEMMA StaysOnward ==
  ASSUME NEW c
  PROVE  /\ media' = media => BringUpLeft(media[c])' <= BringUpLeft(media[c])
         /\ teardown' = teardown => TeardownLeft(teardown[c])' <= TeardownLeft(teardown[c])
BY LeftAreNumbers

LEMMA OthersOnward ==
  ASSUME TypeOK, TeardownInv, BringUpInv, NEW d \in Calls,
         \/ HostStep \/ (\E k \in Closes : CloseStep(k)) \/ UNCHANGED vars
         \/ \E c \in Calls : TimerStep(c) \/ RingRtcStep(c)
  PROVE  Onward(d)
<1>1. CASE ensureReady \/ startOutgoingCall \/ handleIncomingCallMessage \/ UNCHANGED vars
  BY <1>1, StaysOnward
     DEF Onward, ensureReady, startOutgoingCall, handleIncomingCallMessage, SetActive,
         vars, endVars, slotVars, mediaVars
<1>2. CASE close
  <2>1. media' = media
    BY <1>2 DEF close, mediaVars
  <2>2. \E c \in Calls : endCall(c) \/ UNCHANGED endVars
    BY <1>2, CallAssumption DEF close, TypeOK, Calls
  <2> QED
    BY <2>1, <2>2, StaysOnward, EndCallOnward DEF Onward
<1>3. ASSUME NEW k \in Closes, CloseStep(k)
      PROVE  Onward(d)
  BY <1>3, StaysOnward
     DEF Onward, CloseStep, HangupDrained, CloseReturns, endVars, slotVars, mediaVars
<1>4. ASSUME NEW c \in Calls, accept(c) \/ AcceptTimesOut(c) \/ StaleDuration(c)
      PROVE  Onward(d)
  BY <1>4, StaysOnward DEF Onward, accept, AcceptTimesOut, StaleDuration, slotVars,
                           mediaVars
<1>5. ASSUME NEW c \in Calls, LocalEnd(c)
      PROVE  Onward(d)
  BY <1>5, StaysOnward, EndCallOnward DEF Onward, LocalEnd, mediaVars
<1>6. ASSUME NEW c \in Calls, RingRtcStep(c)
      PROVE  Onward(d)
  <2>1. CASE onIncomingCall(c) \/ OfferDropped(c) \/ Rings(c) \/ Connects(c)
             \/ HangupHandedOver(c) \/ HangupSendSettles(c)
    BY <2>1, StaysOnward
       DEF Onward, onIncomingCall, SetActive, OfferDropped, Rings, Connects, NativeMoves,
           HangupHandedOver, HangupSendSettles, endVars, slotVars, mediaVars
  <2>2. CASE onStartCall(c)
    <3>1. media[c] = "none"
      BY <2>2 DEF onStartCall, BringUpInv
    <3>2. media'[d] = media[d] \/ media[d] = "none"
      BY <2>2, <3>1 DEF onStartCall, TypeOK
    <3>3. BringUpLeft(media[d])' <= BringUpLeft(media[d])
      BY <3>2, LeftAreNumbers DEF BringUpLeft
    <3> QED
      BY <2>2, <3>3, StaysOnward DEF Onward, onStartCall, endVars, slotVars
  <2>3. CASE ConnectsWithoutBridge(c)
    BY <2>3, StaysOnward, EndCallOnward DEF Onward, ConnectsWithoutBridge, mediaVars
  <2>4. CASE NativeEnds(c)
    BY <2>4, StaysOnward, EndOnward DEF Onward, NativeEnds, mediaVars
  <2>5. CASE ConnectedListenerEnds(c)
    <3>1. teardown' = [teardown EXCEPT ![c] = "bridge"] /\ teardown[c] = "none"
      BY <2>5 DEF ConnectedListenerEnds, FinalizeWith, Live, TeardownInv
    <3>2. TeardownLeft(teardown[d])' <= TeardownLeft(teardown[d])
      BY <3>1, StaysOnward, LeftAreNumbers DEF TypeOK, TeardownLeft
    <3> QED
      BY <2>5, <3>2, StaysOnward DEF Onward, ConnectedListenerEnds, mediaVars
  <2> QED
    BY <1>6, <2>1, <2>2, <2>3, <2>4, <2>5 DEF RingRtcStep
<1> QED
  BY <1>1, <1>2, <1>3, <1>4, <1>5, <1>6
     DEF HostStep, decline, hangupCall, TimerStep, RingTimeout, MaxDuration

(* An await of a call that settles is one less for it.                     *)
LEMMA AwaitOnward ==
  ASSUME TypeOK, TeardownInv, NEW c \in Calls, BringUpStep(c) \/ ReleaseStep(c),
         NEW d \in Calls
  PROVE  /\ Onward(d)
         /\ \/ BringUpLeft(media[c])' < BringUpLeft(media[c])
            \/ TeardownLeft(teardown[c])' < TeardownLeft(teardown[c])
<1>1. CASE \E from, to : /\ MediaStep(c, from, to)
                         /\ BringUpLeft(to) < BringUpLeft(from)
                         /\ finalizeCall(c) \/ endCall(c) \/ UNCHANGED endVars
  <2>1. PICK from, to : /\ MediaStep(c, from, to)
                        /\ BringUpLeft(to) < BringUpLeft(from)
                        /\ finalizeCall(c) \/ endCall(c) \/ UNCHANGED endVars
    BY <1>1
  <2>2. TeardownLeft(teardown[d])' <= TeardownLeft(teardown[d])
    BY <2>1, EndOnward, EndCallOnward
  <2>3. BringUpLeft(media[c])' < BringUpLeft(media[c])
    BY <2>1 DEF MediaStep, TypeOK
  <2>4. d # c => media'[d] = media[d]
    BY <2>1 DEF MediaStep, TypeOK
  <2>5. BringUpLeft(media[d])' <= BringUpLeft(media[d])
    BY <2>3, <2>4, LeftAreNumbers
  <2> QED BY <2>2, <2>3, <2>5 DEF Onward
<1>2. CASE BridgeCloses(c) \/ DevicesDown(c)
  <2>1. media' = media
    BY <1>2 DEF BridgeCloses, DevicesDown, mediaVars
  <2>2. TeardownLeft(teardown[c])' < TeardownLeft(teardown[c])
    BY <1>2 DEF BridgeCloses, AfterBridge, DevicesDown, TypeOK, TeardownLeft
  <2>3. d # c => teardown'[d] = teardown[d]
    BY <1>2 DEF BridgeCloses, DevicesDown, TypeOK
  <2>4. TeardownLeft(teardown[d])' <= TeardownLeft(teardown[d])
    BY <2>2, <2>3, LeftAreNumbers
  <2> QED BY <2>1, <2>2, <2>4, StaysOnward DEF Onward
<1>3. CASE TurnArrives(c)
  BY <1>1, <1>3 DEF TurnArrives, BringUpLeft
<1>4. CASE TurnFails(c)
  BY <1>1, <1>4 DEF TurnFails, BringUpLeft
<1>5. CASE DevicesUp(c)
  BY <1>1, <1>5 DEF DevicesUp, BringUpLeft
<1>6. CASE DevicesFail(c)
  BY <1>1, <1>6 DEF DevicesFail, BringUpLeft
<1>7. CASE RolledBack(c)
  BY <1>1, <1>7 DEF RolledBack, BringUpLeft
<1>8. CASE Pointed(c)
  BY <1>1, <1>8 DEF Pointed, BringUpLeft
<1>9. CASE PointFails(c)
  BY <1>1, <1>9 DEF PointFails, BringUpLeft
<1>10. CASE LateDevicesDown(c)
  BY <1>1, <1>10 DEF LateDevicesDown, BringUpLeft
<1> QED
  BY <1>2, <1>3, <1>4, <1>5, <1>6, <1>7, <1>8, <1>9, <1>10 DEF BringUpStep, ReleaseStep

(* The provable half of MediaReleased: each call has a number of awaits    *)
(* left, those of its bring-up and of its teardown; each that settles      *)
(* lowers it, and nothing raises it, whoever ends the call and whenever.   *)
(* So one weak fairness condition for all of them is enough.               *)
THEOREM AwaitsRunOut ==
  Spec => /\ [](\A c \in Calls : AwaitsLeft(c) \in Nat)
          /\ [][\A c \in Calls :
                 /\ AwaitsLeft(c)' <= AwaitsLeft(c)
                 /\ BringUpStep(c) \/ ReleaseStep(c) => AwaitsLeft(c)' < AwaitsLeft(c)]_vars
<1>1. \A c \in Calls : AwaitsLeft(c) \in Nat
  BY LeftAreNumbers DEF AwaitsLeft
<1>2. CallInv /\ KeeperInv /\ [Next]_vars =>
        [\A c \in Calls :
           /\ AwaitsLeft(c)' <= AwaitsLeft(c)
           /\ BringUpStep(c) \/ ReleaseStep(c) => AwaitsLeft(c)' < AwaitsLeft(c)]_vars
  <2> SUFFICES ASSUME TypeOK, TeardownInv, BringUpInv, Next, NEW c \in Calls
               PROVE  /\ AwaitsLeft(c)' <= AwaitsLeft(c)
                      /\ BringUpStep(c) \/ ReleaseStep(c) => AwaitsLeft(c)' < AwaitsLeft(c)
    BY DEF CallInv, EndInv, KeeperInv
  <2>1. Onward(c)
    BY OthersOnward, AwaitOnward DEF Next
  <2>2. BringUpStep(c) \/ ReleaseStep(c) =>
          \/ BringUpLeft(media[c])' < BringUpLeft(media[c])
          \/ TeardownLeft(teardown[c])' < TeardownLeft(teardown[c])
    BY AwaitOnward
  <2>3. /\ BringUpLeft(media[c]) \in Nat /\ BringUpLeft(media[c])' \in Nat
        /\ TeardownLeft(teardown[c]) \in Nat /\ TeardownLeft(teardown[c])' \in Nat
    BY LeftAreNumbers
  <2> QED
    BY <2>1, <2>2, <2>3 DEF Onward, AwaitsLeft
<1> QED
  BY <1>1, <1>2, CallInvariant, KeeperInvariant, PTL DEF Spec

(* Whose teardown is awaited, its end has begun.                           *)
Begun(c) == c # 0 => teardown[c] # "none"

AwaitedInv ==
  Begun(pendingTeardown) /\ \A k \in Closes : Begun(closeAwaits[k])

LEMMA EndPending ==
  ASSUME TypeOK, NEW c \in Calls, finalizeCall(c) \/ endCall(c) \/ UNCHANGED endVars
  PROVE  \/ pendingTeardown' = pendingTeardown
         \/ pendingTeardown' \in Calls /\ teardown'[pendingTeardown'] # "none"
<1>1. Finalize(c) => pendingTeardown' = c /\ teardown'[c] # "none"
  BY DEF Finalize, FinalizeWith, TeardownStart, TypeOK
<1> QED
  BY <1>1 DEF finalizeCall, endCall, endVars, slotVars

LEMMA PendingStep ==
  ASSUME TypeOK, [Next]_vars
  PROVE  \/ pendingTeardown' = pendingTeardown
         \/ pendingTeardown' \in Calls /\ teardown'[pendingTeardown'] # "none"
<1>1. CASE HostStep
  BY <1>1, EndPending, CallAssumption
     DEF HostStep, ensureReady, startOutgoingCall, handleIncomingCallMessage, SetActive,
         close, accept, decline, hangupCall, LocalEnd, endVars, slotVars, TypeOK, Calls
<1>2. CASE \E k \in Closes : CloseStep(k)
  BY <1>2 DEF CloseStep, HangupDrained, CloseReturns, endVars, slotVars
<1>3. ASSUME NEW c \in Calls, TimerStep(c) \/ RingRtcStep(c)
      PROVE  \/ pendingTeardown' = pendingTeardown
             \/ pendingTeardown' \in Calls /\ teardown'[pendingTeardown'] # "none"
  <2>1. ConnectedListenerEnds(c) => pendingTeardown' = c /\ teardown'[c] # "none"
    BY DEF ConnectedListenerEnds, FinalizeWith, TypeOK
  <2> QED
    BY <1>3, <2>1, EndPending
       DEF TimerStep, AcceptTimesOut, RingTimeout, MaxDuration, StaleDuration, LocalEnd,
           RingRtcStep, onIncomingCall, SetActive, OfferDropped, onStartCall, Rings,
           Connects, NativeMoves, ConnectsWithoutBridge, NativeEnds, HangupHandedOver,
           HangupSendSettles, endVars, slotVars
<1>4. ASSUME NEW c \in Calls, BringUpStep(c) \/ ReleaseStep(c)
      PROVE  \/ pendingTeardown' = pendingTeardown
             \/ pendingTeardown' \in Calls /\ teardown'[pendingTeardown'] # "none"
  BY <1>4, EndPending
     DEF BringUpStep, TurnArrives, TurnFails, DevicesUp, DevicesFail, RolledBack, Pointed,
         PointFails, ReleaseStep, LateDevicesDown, BridgeCloses, DevicesDown, endVars,
         slotVars
<1>5. CASE UNCHANGED vars
  BY <1>5 DEF vars, endVars, slotVars
<1> QED
  BY <1>1, <1>2, <1>3, <1>4, <1>5 DEF Next

LEMMA AwaitedStep == CallInv /\ KeeperInv /\ AwaitedInv /\ [Next]_vars => AwaitedInv'
<1> SUFFICES ASSUME TypeOK, TeardownInv, BringUpInv, AwaitedInv, [Next]_vars
             PROVE  AwaitedInv'
  BY DEF CallInv, EndInv, KeeperInv
<1>1. ASSUME NEW c \in Calls, teardown[c] # "none"
      PROVE  teardown'[c] # "none"
  <2>1. Onward(c)
    BY OthersOnward, AwaitOnward DEF Next
  <2> QED
    BY <1>1, <2>1 DEF Onward, TeardownLeft
<1>2. 0 \notin Calls
  BY CallAssumption DEF Calls
<1>3. \A c \in Calls \cup {0} : Begun(c) => (c # 0 => teardown'[c] # "none")
  BY <1>1 DEF Begun
<1>4. pendingTeardown' # 0 => teardown'[pendingTeardown'] # "none"
  BY <1>3, PendingStep DEF AwaitedInv, TypeOK
<1>5. CASE closeAwaits' = closeAwaits
  BY <1>3, <1>4, <1>5 DEF AwaitedInv, Begun, TypeOK
<1>6. ASSUME NEW k \in Closes, CloseStep(k)
      PROVE  AwaitedInv'
  <2>1. \A j \in Closes : closeAwaits'[j] \in {closeAwaits[j], pendingTeardown, 0}
    BY <1>6 DEF CloseStep, HangupDrained, CloseReturns, TypeOK
  <2> QED
    BY <1>3, <1>4, <2>1 DEF AwaitedInv, Begun, TypeOK
<1>7. closeAwaits' = closeAwaits \/ \E k \in Closes : CloseStep(k)
  BY DEF Next, HostStep, ensureReady, startOutgoingCall, handleIncomingCallMessage, close,
         accept, decline, hangupCall, LocalEnd, TimerStep, AcceptTimesOut, RingTimeout,
         MaxDuration, StaleDuration, RingRtcStep, onIncomingCall, OfferDropped, onStartCall,
         Rings, Connects, NativeMoves, ConnectedListenerEnds, ConnectsWithoutBridge,
         NativeEnds, HangupHandedOver, HangupSendSettles, BringUpStep, TurnArrives,
         TurnFails, DevicesUp, DevicesFail, RolledBack, Pointed, PointFails, MediaStep,
         ReleaseStep, LateDevicesDown, BridgeCloses, DevicesDown, closeVars, vars
<1> QED
  BY <1>5, <1>6, <1>7

(* The provable half of CloseSettles: close() awaits the teardown only of  *)
(* a call that has ended and has begun it, so with AwaitsRunOut there is   *)
(* an end to the wait (close, pendingTeardown).                            *)
THEOREM CloseAwaitsAnEnd ==
  Spec => [](\A k \in Closes : closeAwaits[k] # 0 =>
               teardown[closeAwaits[k]] \in {"bridge", "devices", "over"})
<1>1. Init => AwaitedInv
  BY DEF Init, AwaitedInv, Begun
<1>2. TypeOK /\ AwaitedInv
        => \A k \in Closes : closeAwaits[k] # 0 =>
             teardown[closeAwaits[k]] \in {"bridge", "devices", "over"}
  BY DEF TypeOK, AwaitedInv, Begun
<1> QED
  BY <1>1, <1>2, AwaitedStep, CallInvariant, TypeCorrect, KeeperInvariant, PTL DEF Spec
=============================================================================
