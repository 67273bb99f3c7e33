-------------------------- MODULE DeviceLinking --------------------------
(* linkSignalDevice (src/src/link-device.ts) over a file repository: with  *)
(* the provisioning data of a link session it has the server link the      *)
(* device and then stores the identity key, the two prekeys and, last, the *)
(* account, each by a setter that it awaits.  The process may be killed    *)
(* after the server has linked the device; the host may link again, also   *)
(* over an account that is already there.                                  *)
EXTENDS FileStore, LinkSession

CONSTANT
  MaxLinks     \* bound: link sessions, over all restarts

VARIABLES
  attempt,     \* link sessions so far; an attempt is named by its number
  link,        \* what the current linkSignalDevice call awaits
  linkSocket,  \* its unauthenticated connection is open
  outcome,     \* how it ended
  linked,      \* external: the attempts for which the server has a device
  accounts     \* what the account changes wrote, by their stamps

linkVars == <<attempt, link, linkSocket, outcome, linked, accounts>>

Attempts == 1 .. MaxLinks
LinkSlots == {"identity", "signedPreKey", "kyberPreKey", "account"}
LinkCalls == {<<"link", n, s>> : n \in Attempts, s \in LinkSlots}

ASSUME LinkAssumption ==
  /\ MaxLinks \in Nat
  /\ LinkSlots \cup {"session"} \subseteq Slots /\ Identity = "identity"
  /\ LinkCalls \subseteq Calls

Modes == {"with-e164", "without-e164"}

(* An account record: the linking it is of, 0 for none, and the cached     *)
(* sender certificate of each mode as the account and mode it was issued   *)
(* for, 0 for none.                                                        *)
Account(owner) == [owner |-> owner, certificates |-> [m \in Modes |-> <<0, m>>]]
AccountAt(contents) == accounts[contents["account"]]

LinkTypeOK ==
  /\ attempt \in 0 .. MaxLinks
  /\ link \in {"idle", "connect", "put", "disconnect", "done"} \cup LinkSlots
  /\ linkSocket \in BOOLEAN
  /\ outcome \in {"none", "ok", "failed"}
  /\ linked \subseteq Attempts
  /\ \A i \in DOMAIN accounts : accounts[i].owner \in 0 .. MaxLinks

LinkInit ==
  /\ SessionInit
  /\ attempt = 0
  /\ link = "idle"
  /\ linkSocket = FALSE
  /\ outcome = "none"
  /\ linked = {}
  /\ accounts = [i \in 0 .. MaxChanges |-> Account(0)]

-----------------------------------------------------------------------------
(* Steps of the call.  A host links one device at a time.                  *)

NewSession ==
  /\ link \in {"idle", "done"}
  /\ attempt < MaxLinks
  /\ attempt' = attempt + 1
  /\ link' = "idle"
  /\ outcome' = "none"
  /\ StartSession
  /\ UNCHANGED <<vars, linkSocket, linked, accounts>>

(* With incomplete provisioning data the call throws before it connects.   *)
(* Nothing depends on the link session from here on, so it is dropped.     *)
BeginLinking ==
  /\ link = "idle"
  /\ provisioned = "resolved"
  /\ repository = "open"
  /\ \/ link' = "connect" /\ UNCHANGED outcome
     \/ link' = "done" /\ outcome' = "failed"
  /\ SessionGone
  /\ UNCHANGED <<vars, attempt, linkSocket, linked, accounts>>

LinkConnects ==
  /\ link = "connect"
  /\ \/ link' = "put" /\ linkSocket' = TRUE /\ UNCHANGED outcome
     \/ link' = "done" /\ outcome' = "failed" /\ UNCHANGED linkSocket
  /\ UNCHANGED <<vars, sessionVars, attempt, linked, accounts>>

(* setLocalIdentityKey and the other setters that have nothing to do with  *)
(* the account.                                                            *)
StoreNext(slot) ==
  /\ Write(<<"link", attempt, slot>>, slot)
  /\ link' = slot
  /\ UNCHANGED accounts

(* The PUT: linked or refused.  A lost answer, one that does not parse or  *)
(* one that does not match the provisioning data comes after the server    *)
(* has linked the device.                                                  *)
LinkAccepted ==
  /\ link = "put"
  /\ linked' = linked \cup {attempt}
  /\ StoreNext("identity")
  /\ UNCHANGED <<sessionVars, attempt, linkSocket, outcome>>

LinkFails ==
  /\ link = "put"
  /\ linked' \in {linked, linked \cup {attempt}}
  /\ link' = "disconnect"
  /\ outcome' = "failed"
  /\ UNCHANGED <<vars, sessionVars, attempt, linkSocket, accounts>>

Resolved(slot) == link = slot /\ call[<<"link", attempt, slot>>].pc = "resolved"

IdentityStored ==
  /\ Resolved("identity")
  /\ StoreNext("signedPreKey")
  /\ UNCHANGED <<sessionVars, attempt, linkSocket, outcome, linked>>

(* Seeded fault: the account is stored before the last key.                *)
SignedPreKeyStoredThenAccount ==
  /\ Resolved("signedPreKey")
  /\ Write(<<"link", attempt, "account">>, "account")
  /\ link' = "account"
  /\ accounts' = [accounts EXCEPT ![clock'] = Account(attempt)]
  /\ UNCHANGED <<sessionVars, attempt, linkSocket, outcome, linked>>

SignedPreKeyStored ==
  /\ Resolved("signedPreKey")
  /\ StoreNext("kyberPreKey")
  /\ UNCHANGED <<sessionVars, attempt, linkSocket, outcome, linked>>

(* Seeded fault: the new account is spread over the old one.               *)
KyberPreKeyStoredMerged ==
  /\ Resolved("kyberPreKey")
  /\ Write(<<"link", attempt, "account">>, "account")
  /\ link' = "account"
  /\ accounts' = [accounts EXCEPT ![clock'] =
                    [AccountAt(memory) EXCEPT !.owner = attempt]]
  /\ UNCHANGED <<sessionVars, attempt, linkSocket, outcome, linked>>

(* setAccount replaces the whole record, cached certificates included.     *)
KyberPreKeyStored ==
  /\ Resolved("kyberPreKey")
  /\ Write(<<"link", attempt, "account">>, "account")
  /\ link' = "account"
  /\ accounts' = [accounts EXCEPT ![clock'] = Account(attempt)]
  /\ UNCHANGED <<sessionVars, attempt, linkSocket, outcome, linked>>

AccountStored ==
  /\ Resolved("account")
  /\ link' = "disconnect"
  /\ outcome' = "ok"
  /\ UNCHANGED <<vars, sessionVars, attempt, linkSocket, linked, accounts>>

(* Seeded fault: a failing setter leaves without the finally clause.       *)
LinkWriteRejectsAtOnce ==
  /\ link \in LinkSlots
  /\ call[<<"link", attempt, link>>].pc = "rejected"
  /\ link' = "done"
  /\ outcome' = "failed"
  /\ UNCHANGED <<vars, sessionVars, attempt, linkSocket, linked, accounts>>

LinkWriteRejects ==
  /\ link \in LinkSlots
  /\ call[<<"link", attempt, link>>].pc = "rejected"
  /\ link' = "disconnect"
  /\ outcome' = "failed"
  /\ UNCHANGED <<vars, sessionVars, attempt, linkSocket, linked, accounts>>

(* The finally clause; a disconnect that rejects is the call's outcome.    *)
LinkDisconnects ==
  /\ link = "disconnect"
  /\ link' = "done"
  /\ linkSocket' = FALSE
  /\ outcome' \in {outcome, "failed"}
  /\ UNCHANGED <<vars, sessionVars, attempt, linked, accounts>>

LinkStep ==
  \/ LinkConnects \/ LinkAccepted \/ LinkFails
  \/ IdentityStored \/ SignedPreKeyStored \/ KyberPreKeyStored \/ AccountStored
  \/ LinkWriteRejects \/ LinkDisconnects

-----------------------------------------------------------------------------
(* The steps of the other modules beside this one                          *)

SessionStep == SessionNext /\ UNCHANGED <<vars, linkVars>>

StoreStep ==
  /\ \/ \E initialData \in BOOLEAN : Open(initialData)
     \/ Persisting
     \/ Fail
  /\ UNCHANGED <<sessionVars, linkVars>>

(* Another setter of the host: a session record, say.                      *)
HostSaves(c) ==
  /\ Write(c, "session")
  /\ UNCHANGED <<sessionVars, linkVars>>

DeviceCrash ==
  /\ Crash
  /\ SessionGone
  /\ link' = "idle"
  /\ linkSocket' = FALSE
  /\ outcome' = "none"
  /\ UNCHANGED <<attempt, linked, accounts>>

-----------------------------------------------------------------------------
(* Properties                                                              *)

Stamp(n, slot) == call[<<"link", n, slot>>].stamp
OnFile(slot) == IF file.kind = "whole" THEN file.of[slot] ELSE 0

(* The account in the state file, whenever the process stops, is one the   *)
(* server has linked, and beside it are the identity and the prekeys of    *)
(* that linking or of a later one that the server has accepted: the four   *)
(* setters of linkSignalDevice run in this order, each on disk before the  *)
(* next.                                                                   *)
AccountIsComplete ==
  LET n == AccountAt(file.of).owner IN
  file.kind = "whole" /\ n # 0 =>
    /\ n \in linked
    /\ \E k \in linked : k >= n /\ OnFile("identity") = Stamp(k, "identity")
    /\ \A slot \in {"signedPreKey", "kyberPreKey"} :
         Stamp(n, slot) > 0 /\ OnFile(slot) >= Stamp(n, slot)

(* The connection attempt of a link session ends, with the timeout if need *)
(* be; what follows has no limit.                                          *)
ConnectingEnds == session = "connecting" ~> session # "connecting"

(* A linking that has reached the server returns: each awaited setter      *)
(* settles although writes fail, and the connection is closed.             *)
LinkingSettles == link \in LinkSlots \cup {"disconnect"} ~> ~linkSocket

=============================================================================
