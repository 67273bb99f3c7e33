--------------------------- MODULE LinkSession ---------------------------
(* startSignalDeviceLinkSession (src/src/provisioning.ts): it connects to  *)
(* the provisioning service with a timeout, waits for the address that     *)
(* goes into the QR code, and hands out a session whose envelope arrives   *)
(* when the user has scanned it.  The timer and the caller's abort signal  *)
(* act on the connection attempt only; once the socket is up the wait ends *)
(* with an address or with the interruption of the socket.                 *)
VARIABLES
  session,             \* where the call or the session it returned is
  timer,               \* the timeout is armed
  aborted,             \* the abort controller of the connection attempt
  provisioningSocket,  \* the provisioning connection is open
  provisioned          \* the promise behind waitForProvisioning

sessionVars == <<session, timer, aborted, provisioningSocket, provisioned>>

SessionTypeOK ==
  /\ session \in {"none", "connecting", "address", "closing", "failed",
                  "ready", "over"}
  /\ timer \in BOOLEAN /\ aborted \in BOOLEAN
  /\ provisioningSocket \in BOOLEAN
  /\ provisioned \in {"pending", "resolved", "rejected"}

SessionInit ==
  /\ session = "none"
  /\ timer = FALSE
  /\ aborted = FALSE
  /\ provisioningSocket = FALSE
  /\ provisioned = "pending"

(* Seeded fault: the timeout is never armed.                               *)
StartSessionUntimed ==
  /\ session \in {"none", "failed", "over"}
  /\ session' = "connecting"
  /\ aborted' = FALSE
  /\ provisioned' = "pending"
  /\ UNCHANGED <<timer, provisioningSocket>>

StartSession ==
  /\ session \in {"none", "failed", "over"}
  /\ session' = "connecting"
  /\ timer' = TRUE
  /\ aborted' = FALSE
  /\ provisioned' = "pending"
  /\ UNCHANGED provisioningSocket

LinkTimeout ==
  /\ timer
  /\ timer' = FALSE
  /\ aborted' = TRUE
  /\ UNCHANGED <<session, provisioningSocket, provisioned>>

(* The caller's signal is listened to until the address is there.          *)
HostAborts ==
  /\ session \in {"connecting", "address"}
  /\ ~aborted
  /\ aborted' = TRUE
  /\ UNCHANGED <<session, timer, provisioningSocket, provisioned>>

ProvisioningConnects ==
  /\ session = "connecting"
  /\ ~aborted
  /\ session' = "address"
  /\ provisioningSocket' = TRUE
  /\ UNCHANGED <<timer, aborted, provisioned>>

(* The attempt fails, or libsignal rejects it for the abort; there is no   *)
(* connection to close.                                                    *)
ProvisioningConnectFails ==
  /\ session = "connecting"
  /\ session' = "failed"
  /\ timer' = FALSE
  /\ UNCHANGED <<aborted, provisioningSocket, provisioned>>

(* The timer and the listener are gone, and nobody reads the controller.   *)
ReceiveAddress ==
  /\ session = "address"
  /\ session' = "ready"
  /\ timer' = FALSE
  /\ aborted' = FALSE
  /\ UNCHANGED <<provisioningSocket, provisioned>>

(* SignalProvisioningCipher.decrypt yields the data or throws.             *)
Decryption == {"resolved", "rejected"}

(* The first envelope decides, whether it can be decrypted or not.         *)
ReceiveEnvelope ==
  /\ session = "ready"
  /\ provisioningSocket
  /\ provisioned = "pending"
  /\ provisioned' \in Decryption
  /\ UNCHANGED <<session, timer, aborted, provisioningSocket>>

Interrupted == IF provisioned = "pending" THEN "rejected" ELSE provisioned

(* The socket dies: both promises reject unless they are settled.          *)
ProvisioningInterrupted ==
  /\ provisioningSocket
  /\ provisioningSocket' = FALSE
  /\ provisioned' = Interrupted
  /\ \/ /\ session = "address"
        /\ session' = "closing"
        /\ timer' = FALSE
     \/ /\ session # "address"
        /\ UNCHANGED <<session, timer>>
  /\ UNCHANGED aborted

(* The catch clause has disconnected; the call rejects.                    *)
SessionRejects ==
  /\ session = "closing"
  /\ session' = "failed"
  /\ provisioningSocket' = FALSE
  /\ UNCHANGED <<timer, aborted, provisioned>>

(* The host disconnects a session; libsignal may report it interrupted.    *)
HostDisconnects ==
  /\ session = "ready"
  /\ session' = "over"
  /\ provisioningSocket' = FALSE
  /\ provisioned' \in {provisioned, Interrupted}
  /\ UNCHANGED <<timer, aborted>>

SessionGone ==
  /\ session' = "none"
  /\ timer' = FALSE
  /\ aborted' = FALSE
  /\ provisioningSocket' = FALSE
  /\ provisioned' = "pending"

SessionNext ==
  \/ LinkTimeout \/ HostAborts
  \/ ProvisioningConnects \/ ProvisioningConnectFails
  \/ ReceiveAddress \/ ReceiveEnvelope
  \/ ProvisioningInterrupted \/ SessionRejects \/ HostDisconnects

(* What the code and the timer owe: the timer fires, an aborted attempt    *)
(* is rejected, the catch clause ends.                                     *)
SessionFairness ==
  /\ WF_sessionVars(LinkTimeout)
  /\ WF_sessionVars(aborted /\ ProvisioningConnectFails)
  /\ WF_sessionVars(SessionRejects)

=============================================================================
