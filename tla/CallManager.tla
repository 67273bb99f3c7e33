----------------------------- MODULE CallManager -----------------------------
(***************************************************************************)
(* SignalCallManager (calling/manager.ts): one call at a time over RingRTC,*)
(* with virtual audio devices (calling/audio.ts) set up for each call.     *)
(*                                                                         *)
(* RingRTC is external: its worker registers calls, asks the manager's     *)
(* hooks, changes a call's state and hands over signaling messages, all    *)
(* asynchronously.  A step is a run of synchronous code of the manager     *)
(* between two awaits.  Calls are numbered in the order in which RingRTC   *)
(* registers them.  pactl and pacat commands end in some later step, and a *)
(* pactl command may fail.                                                 *)
(*                                                                         *)
(* Events are emitted within a step, and a listener may call back: hangup()*)
(* and close() act at once, all others await first.  What such a call does *)
(* is a step of its own before or after, but where code follows the emit:  *)
(* see ConnectedListenerEnds.                                              *)
(***************************************************************************)
EXTENDS Naturals, FiniteSets

CONSTANTS
  MaxCalls,   \* bound on calls, incoming and outgoing
  MaxCloses,  \* bound on calls of close()
  MaxLeaks    \* bound on calls whose modules pactl fails to unload

ASSUME CallAssumption ==
  MaxCalls \in Nat \ {0} /\ MaxCloses \in Nat /\ MaxLeaks \in Nat

Calls == 1 .. MaxCalls

(* The calls of close(), in the order in which they are made.              *)
Closes == 1 .. MaxCloses

VARIABLES
  ready,        \* RingRTC is configured and its hooks are installed
  created,      \* how many calls RingRTC has registered
  native,       \* call -> its state in RingRTC
  active,       \* this.active, 0 if undefined
  phase,        \* call -> "none" | "live" | "ended" for the manager
  endedN,       \* call -> "ended" events emitted
  teardown,     \* call -> where its teardownMedia is
  pendingTeardown,              \* the latest teardownMedia, 0 if none
  ringTimers, durationTimers,   \* calls whose timer is armed
  cutShort,     \* calls that a listener of their "connected" event ended
  accepting,    \* calls that an accept() waits for
  hangup,       \* call -> its Hangup message
  media,        \* call -> where beginCallMedia is
  loaded,       \* calls that have PulseAudio modules loaded
  leaked,       \* calls whose modules pactl failed to unload
  owned,        \* calls whose audioDevices are set
  selected,     \* call whose devices RingRTC was pointed at, 0 if none
  bridge,       \* call -> its pacat bridge
  connectedN,   \* call -> "connected" events emitted
  closing,      \* close() call -> where it is
  closeAwaits,  \* close() call -> the teardown that it awaits, 0 if none
  closes        \* calls of close() so far

slotVars   == <<active, phase, endedN, teardown, pendingTeardown>>
timerVars  == <<ringTimers, durationTimers, cutShort>>
endVars    == <<slotVars, timerVars, accepting>>
mediaVars  == <<media, loaded, leaked, owned, selected>>
bridgeVars == <<bridge, connectedN>>
closeVars  == <<closing, closeAwaits, closes>>

vars == <<ready, created, native, endVars, hangup, mediaVars,
          bridgeVars, closeVars>>

Init ==
  /\ ready = FALSE /\ created = 0 /\ active = 0
  /\ native = [c \in Calls |-> "none"]
  /\ phase = [c \in Calls |-> "none"]
  /\ endedN = [c \in Calls |-> 0] /\ connectedN = [c \in Calls |-> 0]
  /\ teardown = [c \in Calls |-> "none"] /\ pendingTeardown = 0
  /\ ringTimers = {} /\ durationTimers = {} /\ cutShort = {}
  /\ accepting = {}
  /\ hangup = [c \in Calls |-> "no"]
  /\ media = [c \in Calls |-> "none"]
  /\ loaded = {} /\ leaked = {} /\ owned = {} /\ selected = 0
  /\ bridge = [c \in Calls |-> "none"]
  /\ closing = [k \in Closes |-> "none"]
  /\ closeAwaits = [k \in Closes |-> 0] /\ closes = 0

-----------------------------------------------------------------------------
(* Ending a call *)

Live(c) == active = c /\ phase[c] = "live"

(* Seeded fault: with nothing to take down the promise never settles.      *)
TeardownStartStuck(c) ==
  IF bridge[c] = "open" THEN "bridge"
  ELSE IF c \in owned THEN "devices" ELSE "none"

(* teardownMedia: first the bridge, then the devices, as far as there are  *)
TeardownStart(c) ==
  IF bridge[c] = "open" THEN "bridge"
  ELSE IF c \in owned THEN "devices" ELSE "over"

(* Seeded fault: the timers of an ended call stay armed.                   *)
ClearTimersNot(c) == UNCHANGED timerVars

ClearTimers(c) ==
  /\ ringTimers' = ringTimers \ {c}
  /\ durationTimers' = durationTimers \ {c}
  /\ UNCHANGED cutShort

(* What is left of a call is its teardown, which begins with first.        *)
FinalizeWith(c, first) ==
  /\ active' = IF active = c THEN 0 ELSE active
  /\ phase' = [phase EXCEPT ![c] = "ended"]
  /\ endedN' = [endedN EXCEPT ![c] = @ + 1]
  /\ teardown' = [teardown EXCEPT ![c] = first]
  /\ pendingTeardown' = c
  /\ accepting' = accepting \ {c}

Finalize(c) == FinalizeWith(c, TeardownStart(c)) /\ ClearTimers(c)

(* Seeded fault: a call is finalized a second time.                        *)
finalizeCallAgain(c) == Finalize(c)

finalizeCall(c) == IF phase[c] = "live" THEN Finalize(c) ELSE UNCHANGED endVars

(* RingRTC cannot be told any more once close() has dropped the module.    *)
RequestHangup(c) ==
  hangup' = IF ready THEN [hangup EXCEPT ![c] = "requested"] ELSE hangup

endCall(c) ==
  IF phase[c] = "live"
  THEN RequestHangup(c) /\ Finalize(c)
  ELSE UNCHANGED <<hangup, endVars>>

-----------------------------------------------------------------------------
(* The host's calls *)

ensureReady ==
  /\ ~ready
  /\ ready' = TRUE
  /\ UNCHANGED <<created, native, endVars, hangup,
                 mediaVars, bridgeVars, closeVars>>

SetActive(c) ==
  /\ active' = c
  /\ phase' = [phase EXCEPT ![c] = "live"]
  /\ UNCHANGED <<endedN, teardown, pendingTeardown>>

(* Seeded fault: the slot is never found taken.                            *)
isBusyNever == FALSE

isBusy == active # 0

startOutgoingCall ==
  /\ ready
  /\ ~isBusy
  /\ created < MaxCalls
  /\ created' = created + 1
  /\ native' = [native EXCEPT ![created + 1] = "starting"]
  /\ SetActive(created + 1)
  /\ ringTimers' = ringTimers \cup {created + 1}
  /\ UNCHANGED <<ready, durationTimers, cutShort, accepting, hangup,
                 mediaVars, bridgeVars, closeVars>>

(* An offer for this device goes to RingRTC.                               *)
handleIncomingCallMessage ==
  /\ ready
  /\ created < MaxCalls
  /\ created' = created + 1
  /\ native' = [native EXCEPT ![created + 1] = "offered"]
  /\ UNCHANGED <<ready, endVars, hangup, mediaVars, bridgeVars,
                 closeVars>>

(* waitUntilAcceptable waits for an event; in the states "ringing" and     *)
(* "connected" accept goes straight to RingRTC.                            *)
accept(c) ==
  /\ ready /\ Live(c)
  /\ native[c] \notin {"ringing", "connected"}
  /\ accepting' = accepting \cup {c}
  /\ UNCHANGED <<ready, created, native, slotVars, timerVars,
                 hangup, mediaVars, bridgeVars, closeVars>>

AcceptTimesOut(c) ==
  /\ c \in accepting
  /\ accepting' = accepting \ {c}
  /\ UNCHANGED <<ready, created, native, slotVars, timerVars,
                 hangup, mediaVars, bridgeVars, closeVars>>

LocalEnd(c) ==
  /\ Live(c)
  /\ endCall(c)
  /\ UNCHANGED <<ready, created, native, mediaVars,
                 bridgeVars, closeVars>>

(* decline and hangup differ in the reason they report.                    *)
decline(c) == ready /\ LocalEnd(c)

hangupCall(c) == LocalEnd(c)

RingTimeout(c) == c \in ringTimers /\ native[c] # "connected" /\ LocalEnd(c)

(* The timer of a call that has ended does nothing when it fires.          *)
StaleDuration(c) ==
  /\ ~Live(c)
  /\ durationTimers' = durationTimers \ {c}
  /\ cutShort' = cutShort \ {c}
  /\ UNCHANGED <<ready, created, native, slotVars, ringTimers, accepting,
                 hangup, mediaVars, bridgeVars, closeVars>>

MaxDuration(c) == c \in durationTimers /\ (LocalEnd(c) \/ StaleDuration(c))

-----------------------------------------------------------------------------
(* RingRTC: its hooks, state changes and signaling *)

(* A second call is not let ring while the slot is taken.                  *)
onIncomingCall(c) ==
  /\ ready
  /\ native[c] = "offered"
  /\ IF isBusy
     THEN native' = [native EXCEPT ![c] = "ended"] /\ UNCHANGED slotVars
     ELSE /\ native' = [native EXCEPT ![c] = "starting"]
          /\ SetActive(c)
  /\ UNCHANGED <<ready, created, timerVars, accepting, hangup,
                 mediaVars, bridgeVars, closeVars>>

(* RingRTC rejects an offer (busy, glare, expired) without asking.         *)
OfferDropped(c) ==
  /\ native[c] = "offered"
  /\ native' = [native EXCEPT ![c] = "ended"]
  /\ UNCHANGED <<ready, created, endVars, hangup,
                 mediaVars, bridgeVars, closeVars>>

(* onStartCall begins the media of the active call with the TURN fetch.    *)
onStartCall(c) ==
  /\ ready
  /\ native[c] = "starting"
  /\ native' = [native EXCEPT ![c] = "held"]
  /\ media' = IF active = c THEN [media EXCEPT ![c] = "turn"] ELSE media
  /\ UNCHANGED <<ready, created, endVars, hangup,
                 loaded, leaked, owned, selected, bridgeVars, closeVars>>

(* onCallStateChanged.  An accept() that waited for the new state goes on  *)
(* in the next microtask, before RingRTC moves again.                      *)
NativeMoves(c, to) ==
  /\ Live(c)
  /\ native' = [native EXCEPT ![c] = to]
  /\ accepting' = accepting \ {c}
  /\ UNCHANGED <<ready, created, slotVars, hangup, mediaVars,
                 closeVars>>

Rings(c) ==
  /\ native[c] = "connecting"
  /\ NativeMoves(c, "ringing")
  /\ UNCHANGED <<timerVars, bridgeVars>>

HasBridge(c) == bridge[c] # "none"

(* handleConnected opens the bridge on the first "connected" only.  The    *)
(* host sets a limit to calls (maxCallDurationMs).                         *)
Connects(c) ==
  /\ native[c] \in {"ringing", "connected"}
  /\ NativeMoves(c, "connected")
  /\ ringTimers' = ringTimers \ {c}
  /\ IF HasBridge(c)
     THEN UNCHANGED <<bridgeVars, durationTimers>>
     ELSE /\ bridge' = [bridge EXCEPT ![c] = "open"]
          /\ connectedN' = [connectedN EXCEPT ![c] = @ + 1]
          /\ durationTimers' = durationTimers \cup {c}
  /\ UNCHANGED cutShort

(* A listener of "connected" hangs up, or begins to close(), at once: the  *)
(* call ends before handleConnected goes on and arms the timer.            *)
ConnectedListenerEnds(c) ==
  /\ native[c] = "ringing"
  /\ Live(c)
  /\ ~HasBridge(c)
  /\ native' = [native EXCEPT ![c] = "connected"]
  /\ bridge' = [bridge EXCEPT ![c] = "open"]
  /\ connectedN' = [connectedN EXCEPT ![c] = @ + 1]
  /\ RequestHangup(c)
  /\ FinalizeWith(c, "bridge")
  /\ ringTimers' = ringTimers \ {c}
  /\ durationTimers' = durationTimers \cup {c}
  /\ cutShort' = cutShort \cup {c}
  /\ UNCHANGED <<ready, created, mediaVars, closeVars>>

(* handleConnected when pacat cannot be opened                             *)
ConnectsWithoutBridge(c) ==
  /\ native[c] = "ringing"
  /\ Live(c)
  /\ ~HasBridge(c)
  /\ native' = [native EXCEPT ![c] = "connected"]
  /\ endCall(c)
  /\ UNCHANGED <<ready, created, mediaVars, bridgeVars,
                 closeVars>>

(* Remote hangup, failed setup or signaling, or because it was told to;    *)
(* the callback means something for the active call only.                  *)
NativeEnds(c) ==
  /\ native[c] \notin {"none", "offered", "ended"}
  /\ native' = [native EXCEPT ![c] = "ended"]
  /\ IF active = c THEN finalizeCall(c) ELSE UNCHANGED endVars
  /\ UNCHANGED <<ready, created, hangup, mediaVars,
                 bridgeVars, closeVars>>

(* RingRTC hands the Hangup to handleOutgoingSignaling, one message at a   *)
(* time.  It drops it when there is no hook or nothing to hang up yet.     *)
HangupHandedOver(c) ==
  /\ hangup[c] = "requested"
  /\ \/ /\ ready
        /\ \A d \in Calls : hangup[d] # "sending"
        /\ hangup' = [hangup EXCEPT ![c] = "sending"]
     \/ hangup' = [hangup EXCEPT ![c] = "over"]
  /\ UNCHANGED <<ready, created, native, endVars, mediaVars,
                 bridgeVars, closeVars>>

(* onOutgoingSignaling has sent it, failed or timed out.  A failure emits  *)
(* an error for whatever call is active, which rejects its accept().       *)
HangupSendSettles(c) ==
  /\ hangup[c] = "sending"
  /\ hangup' = [hangup EXCEPT ![c] = "over"]
  /\ accepting' \in {accepting, {}}
  /\ UNCHANGED <<ready, created, native, slotVars, timerVars,
                 mediaVars, bridgeVars, closeVars>>

-----------------------------------------------------------------------------
(* beginCallMedia and teardownMedia *)

MediaStep(c, from, to) ==
  /\ media[c] = from
  /\ media' = [media EXCEPT ![c] = to]
  /\ UNCHANGED <<ready, created, bridgeVars, closeVars>>

(* pactl unload-module may fail, which is swallowed: modules stay loaded.  *)
Unload(c) ==
  \/ loaded' = loaded \ {c} /\ UNCHANGED leaked
  \/ /\ Cardinality(leaked) < MaxLeaks
     /\ leaked' = leaked \cup {c}
     /\ UNCHANGED loaded

(* The TURN servers are here; a call that has ended needs no devices.      *)
TurnArrives(c) ==
  /\ IF phase[c] = "ended"
     THEN MediaStep(c, "turn", "over") /\ UNCHANGED loaded
     ELSE MediaStep(c, "turn", "setup") /\ loaded' = loaded \cup {c}
  /\ UNCHANGED <<native, endVars, hangup, leaked, owned, selected>>

TurnFails(c) ==
  /\ MediaStep(c, "turn", "over")
  /\ finalizeCall(c)
  /\ UNCHANGED <<native, hangup, loaded, leaked, owned, selected>>

(* The devices are up; a call that has ended takes them down itself.       *)
DevicesUp(c) ==
  /\ IF phase[c] = "ended"
     THEN MediaStep(c, "setup", "late") /\ UNCHANGED owned
     ELSE MediaStep(c, "setup", "pointing") /\ owned' = owned \cup {c}
  /\ UNCHANGED <<native, endVars, hangup, loaded, leaked, selected>>

LateDevicesDown(c) ==
  /\ MediaStep(c, "late", "over")
  /\ Unload(c)
  /\ UNCHANGED <<native, endVars, hangup, owned, selected>>

(* A pactl command failed: what was loaded is rolled back, then the error  *)
(* ends the call.                                                          *)
DevicesFail(c) ==
  /\ MediaStep(c, "setup", "rollback")
  /\ UNCHANGED <<native, endVars, hangup, loaded, leaked, owned,
                 selected>>

RolledBack(c) ==
  /\ MediaStep(c, "rollback", "over")
  /\ Unload(c)
  /\ finalizeCall(c)
  /\ UNCHANGED <<native, hangup, owned, selected>>

(* Seeded fault: the call is not checked after the devices are selected.   *)
PointedUnchecked(c) ==
  /\ MediaStep(c, "pointing", "over")
  /\ selected' = c
  /\ native' = [native EXCEPT ![c] = "connecting"]
  /\ UNCHANGED <<endVars, hangup, loaded, leaked, owned>>

(* pointRingRtcAtDevices has found the devices in RingRTC's cached list,   *)
(* which may be older than their teardown; a live call proceeds.           *)
Pointed(c) ==
  /\ MediaStep(c, "pointing", "over")
  /\ selected' = c
  /\ native' = IF phase[c] = "live" /\ native[c] = "held"
               THEN [native EXCEPT ![c] = "connecting"]
               ELSE native
  /\ UNCHANGED <<endVars, hangup, loaded, leaked, owned>>

(* Seeded fault: a device that is not in the list is selected all the same.*)
PointFailsSelects(c) ==
  /\ MediaStep(c, "pointing", "over")
  /\ selected' = MaxCalls + 1
  /\ UNCHANGED <<native, endVars, hangup, loaded, leaked, owned>>

(* The devices did not appear in time.                                     *)
PointFails(c) ==
  /\ MediaStep(c, "pointing", "over")
  /\ endCall(c)
  /\ UNCHANGED <<native, loaded, leaked, owned, selected>>

(* Seeded fault: a call that had a bridge keeps its devices.               *)
BridgeClosedOnly(c) == "over"

AfterBridge(c) == IF c \in owned THEN "devices" ELSE "over"

BridgeCloses(c) ==
  /\ teardown[c] = "bridge"
  /\ bridge' = [bridge EXCEPT ![c] = "none"]
  /\ teardown' = [teardown EXCEPT ![c] = AfterBridge(c)]
  /\ UNCHANGED <<ready, created, native, active, phase, endedN,
                 pendingTeardown, timerVars, accepting, hangup,
                 mediaVars, connectedN, closeVars>>

DevicesDown(c) ==
  /\ teardown[c] = "devices"
  /\ teardown' = [teardown EXCEPT ![c] = "over"]
  /\ Unload(c)
  /\ UNCHANGED <<ready, created, native, active, phase, endedN,
                 pendingTeardown, timerVars, accepting, hangup,
                 media, owned, selected, bridgeVars, closeVars>>

-----------------------------------------------------------------------------
(* close() *)

(* close() may be called at any time, before an earlier one has returned   *)
(* and without a module.                                                   *)
close ==
  /\ closes < MaxCloses
  /\ closes' = closes + 1
  /\ closing' = [closing EXCEPT ![closes + 1] = "hangup"]
  /\ IF active # 0 THEN endCall(active) ELSE UNCHANGED <<endVars, hangup>>
  /\ UNCHANGED <<ready, created, native, mediaVars,
                 bridgeVars, closeAwaits>>

(* drainPendingHangupSignal polls pendingHangupSignal until a deadline, so *)
(* that it goes on whether or not the Hangup is out: the flag is left out. *)
HangupDrained(k) ==
  /\ closing[k] = "hangup"
  /\ closing' = [closing EXCEPT ![k] = "teardown"]
  /\ closeAwaits' = [closeAwaits EXCEPT ![k] = pendingTeardown]
  /\ UNCHANGED <<ready, created, native, endVars, hangup, mediaVars,
                 bridgeVars, closes>>

TeardownOver(k) == closeAwaits[k] # 0 => teardown[closeAwaits[k]] = "over"

(* The hooks go, and the listeners: a waiting accept() can only time out.  *)
CloseReturns(k) ==
  /\ closing[k] = "teardown"
  /\ TeardownOver(k)
  /\ closing' = [closing EXCEPT ![k] = "returned"]
  /\ closeAwaits' = [closeAwaits EXCEPT ![k] = 0]
  /\ ready' = FALSE
  /\ accepting' = {}
  /\ UNCHANGED <<created, native, slotVars, timerVars, hangup, mediaVars,
                 bridgeVars, closes>>

-----------------------------------------------------------------------------
HostStep ==
  \/ ensureReady \/ startOutgoingCall \/ handleIncomingCallMessage \/ close
  \/ \E c \in Calls : accept(c) \/ decline(c) \/ hangupCall(c)

TimerStep(c) == AcceptTimesOut(c) \/ RingTimeout(c) \/ MaxDuration(c)

RingRtcStep(c) ==
  \/ onIncomingCall(c) \/ OfferDropped(c) \/ onStartCall(c) \/ Rings(c)
  \/ Connects(c) \/ ConnectedListenerEnds(c) \/ ConnectsWithoutBridge(c)
  \/ NativeEnds(c)
  \/ HangupHandedOver(c) \/ HangupSendSettles(c)

BringUpStep(c) ==
  \/ TurnArrives(c) \/ TurnFails(c) \/ DevicesUp(c) \/ DevicesFail(c)
  \/ RolledBack(c) \/ Pointed(c) \/ PointFails(c)

ReleaseStep(c) == LateDevicesDown(c) \/ BridgeCloses(c) \/ DevicesDown(c)

CloseStep(k) == HangupDrained(k) \/ CloseReturns(k)

Next ==
  \/ HostStep
  \/ \E k \in Closes : CloseStep(k)
  \/ \E c \in Calls : TimerStep(c) \/ RingRtcStep(c) \/ BringUpStep(c)
                      \/ ReleaseStep(c)

Spec == Init /\ [][Next]_vars

(***************************************************************************)
(* What the manager awaits settles: the TURN request and the device search *)
(* time out, pactl and pacat commands end, close() polls until a deadline. *)
(* One condition for all of them is enough, for each happens finitely      *)
(* often.  Neither the host nor RingRTC is fair.                           *)
(***************************************************************************)
AwaitSettles ==
  \/ \E k \in Closes : CloseStep(k)
  \/ \E c \in Calls : BringUpStep(c) \/ ReleaseStep(c)

Fairness == WF_vars(AwaitSettles)

FairSpec == Spec /\ Fairness

-----------------------------------------------------------------------------
(* Properties *)

TypeOK ==
  /\ ready \in BOOLEAN
  /\ created \in 0 .. MaxCalls
  /\ native \in [Calls -> {"none", "offered", "starting", "held",
                           "connecting", "ringing", "connected", "ended"}]
  /\ active \in Calls \cup {0}
  /\ phase \in [Calls -> {"none", "live", "ended"}]
  /\ endedN \in [Calls -> Nat] /\ connectedN \in [Calls -> Nat]
  /\ teardown \in [Calls -> {"none", "bridge", "devices", "over"}]
  /\ pendingTeardown \in Calls \cup {0}
  /\ ringTimers \subseteq Calls /\ durationTimers \subseteq Calls
  /\ cutShort \subseteq Calls
  /\ accepting \subseteq Calls
  /\ hangup \in [Calls -> {"no", "requested", "sending", "over"}]
  /\ media \in [Calls -> {"none", "turn", "setup", "rollback", "pointing",
                          "late", "over"}]
  /\ loaded \subseteq Calls /\ leaked \subseteq Calls /\ owned \subseteq Calls
  /\ selected \in Calls \cup {0}
  /\ bridge \in [Calls -> {"none", "open"}]
  /\ closing \in [Closes -> {"none", "hangup", "teardown", "returned"}]
  /\ closeAwaits \in [Closes -> Calls \cup {0}]
  /\ closes \in 0 .. MaxCloses

(* Never two calls: the call that is live is the active one, whatever      *)
(* offers and outgoing calls cross (isBusy, onIncomingCall).               *)
OneLiveCall == \A c \in Calls : phase[c] = "live" <=> (active = c)

(* A call ends once for its listeners, although both sides, the timers,    *)
(* the media bring-up and close() may all end it, and it connects once.    *)
EventsOnce ==
  \A c \in Calls : /\ endedN[c] = (IF phase[c] = "ended" THEN 1 ELSE 0)
                   /\ connectedN[c] <= 1

(* No ring timer and no accept() outlives the call it is for; a duration   *)
(* timer does so only if a listener of "connected" ended the call before   *)
(* the timer was armed (handleConnected).                                  *)
NothingOutlivesCall ==
  /\ \A c \in ringTimers \cup accepting : Live(c)
  /\ \A c \in durationTimers : Live(c) \/ c \in cutShort

(* A call that is connected is limited as long as it lasts, and before it  *)
(* has the slot it has no bridge.                                          *)
LimitInv ==
  \A c \in Calls : bridge[c] = "open" =>
    /\ phase[c] # "none"
    /\ phase[c] = "live" => c \in durationTimers

(* Timers and waiting accepts go with the calls they are for: whoever ends *)
(* a call clears them, a call stays limited from its connection to its end,*)
(* and the one timer that can be left behind is that of a call which a     *)
(* listener of its "connected" event ended (handleConnected, clearTimers). *)
TimersMatchCalls == NothingOutlivesCall /\ LimitInv

(* A call that is over for the manager has begun its teardown.             *)
TeardownInv == \A c \in Calls : teardown[c] = "none" <=> phase[c] # "ended"

EndedOnce == \A c \in Calls : endedN[c] = (IF phase[c] = "ended" THEN 1 ELSE 0)

(* What the slot, the timers and the waiting accepts have to do with the   *)
(* calls, as far as ending one goes.                                       *)
EndInv == OneLiveCall /\ EndedOnce /\ NothingOutlivesCall /\ TeardownInv

(* A call takes the slot once: as long as it is new to the manager.        *)
FreshInv ==
  \A c \in Calls : /\ c > created => native[c] = "none"
                   /\ native[c] \in {"none", "offered"} => phase[c] = "none"

(* Only the end of a call closes its bridge.                               *)
BridgeInv ==
  \A c \in Calls :
    /\ connectedN[c] <= 1
    /\ phase[c] # "ended" /\ bridge[c] = "none" => connectedN[c] = 0

(* Only the end of a call takes the devices from under its bring-up.       *)
MediaInv ==
  \A c \in Calls : phase[c] # "ended" =>
    /\ media[c] \in {"setup", "pointing"} => c \in loaded
    /\ media[c] = "pointing" => c \in owned

(* The invariant that the proofs use.                                      *)
CallInv == TypeOK /\ EndInv /\ FreshInv /\ BridgeInv /\ LimitInv /\ MediaInv

(* RingRTC is told to proceed only with a call that is live and whose own  *)
(* devices are up, after the awaits for TURN, devices and their selection. *)
ProceedsOnlyLive ==
  [][\A c \in Calls : native[c] # "connecting" /\ native'[c] = "connecting"
       => /\ Live(c) /\ c \in loaded \cap owned
          /\ teardown[c] = "none" /\ selected' = c]_vars

(* Whatever an ended call has open is eventually released, wherever its    *)
(* bring-up was, but for the modules that pactl fails to unload: nobody    *)
(* tries again (teardownSignalCallAudioDevices, audio.ts:129-136).         *)
MediaReleased ==
  \A c \in Calls :
    phase[c] = "ended" ~> (c \notin loaded \ leaked /\ bridge[c] # "open")

(* close() always returns, whatever calls and other close() calls overlap. *)
CloseSettles ==
  \A k \in Closes : closing[k] # "none" ~> closing[k] = "returned"

(* "Hang up + tear down audio + release RingRTC hooks" (close): once the   *)
(* hooks are released no device set of an ended call is loaded, unless     *)
(* pactl failed to unload it.                                              *)
CloseReleasesDevices ==
  ~ready => \A c \in loaded \ leaked : phase[c] # "ended"

=============================================================================
