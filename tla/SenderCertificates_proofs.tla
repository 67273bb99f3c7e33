--------------------- MODULE SenderCertificates_proofs ---------------------
(* Device linking and certificate requests over one file repository.  The  *)
(* composition runs the repository as FileStore describes it, so all that  *)
(* FileStore_proofs shows holds of it; and the account that linkings and   *)
(* cache writes replace in turn never goes back.                           *)
(* At the end: nobody waits for what is not under way, and no connection   *)
(* is left open.                                                           *)
EXTENDS SenderCertificates, FileStore_proofs

LEMMA IdentitySlot == Identity # "account"
  BY LinkAssumption DEF LinkAssumption

LEMMA CallsAndSlots ==
  /\ \A r \in Requests : CertificateCall(r) \in Calls
  /\ \A c \in HostCalls : c \in Calls
  /\ \A n \in Attempts, s \in LinkSlots : <<"link", n, s>> \in Calls
  /\ "session" \in Slots /\ LinkSlots \subseteq Slots
  /\ MaxLinks \in Nat
  BY LinkAssumption, CertificateAssumption
  DEF LinkAssumption, CertificateAssumption, DeviceCalls, LinkCalls

AccountRecord ==
  [owner : 0 .. MaxLinks, certificates : [Modes -> (0 .. MaxLinks) \X Modes]]

Fetch == [pc : {"none", "connect", "get", "cache", "persist", "disconnect"},
          by : Requests \cup {"none"}, ok : BOOLEAN, account : AccountRecord]

LEMMA NothingFetched ==
  /\ NoFetch \in Fetch /\ NoFetch.pc = "none"
  /\ Account(0) \in AccountRecord /\ Account(0).owner = 0
<1>1. Account(0) \in AccountRecord /\ Account(0).owner = 0
  BY CallsAndSlots DEF Account, AccountRecord
<1> QED
  BY <1>1 DEF NoFetch, Fetch

(* What the composition keeps of its own types: enough to see that a call  *)
(* that it makes of a setter is one of Calls.                              *)
LinkShape ==
  /\ attempt \in 0 .. MaxLinks
  /\ session # "none" \/ provisioned = "resolved" => attempt > 0
  /\ link \notin {"idle", "done"} => attempt > 0
  /\ fetch \in [Keys -> Fetch]
  /\ \A k \in Keys : fetch[k].pc # "none" => fetch[k].by \in Requests

(* Each change of the account has written a record.                        *)
AccountsOK ==
  /\ clock <= MaxChanges
  /\ accounts \in [0 .. MaxChanges -> AccountRecord]
  /\ accounts[0].owner = 0

LEMMA OwnerTypes ==
  ASSUME TypeOK, ClockInv, LinkShape, AccountsOK
  PROVE  /\ clock \in Nat /\ MaxChanges \in Nat /\ attempt \in Nat /\ MaxLinks \in Nat
         /\ attempt \in 0 .. MaxLinks /\ "account" \in Slots
         /\ memory["account"] \in 0 .. clock /\ file.of["account"] \in 0 .. clock
         /\ temporary.of["account"] \in 0 .. clock
         /\ \A i \in 0 .. clock : /\ i \in 0 .. MaxChanges
                                  /\ accounts[i] \in AccountRecord
                                  /\ accounts[i].owner \in Nat
                                  /\ accounts[i].owner \in 0 .. MaxLinks
         /\ Owner(memory) \in Nat /\ Owner(file.of) \in Nat /\ Owner(temporary.of) \in Nat
<1>1. /\ clock \in Nat /\ MaxChanges \in Nat /\ "account" \in Slots /\ MaxLinks \in Nat
      /\ attempt \in 0 .. MaxLinks
  BY Types, StoreAssumption, CallsAndSlots DEF StoreAssumption, LinkSlots, LinkShape
<1>2. /\ memory["account"] \in 0 .. clock /\ file.of["account"] \in 0 .. clock
      /\ temporary.of["account"] \in 0 .. clock
  BY <1>1, Types DEF ClockInv
<1>3. \A i \in 0 .. clock : i \in 0 .. MaxChanges /\ accounts[i] \in AccountRecord
  BY <1>1 DEF AccountsOK
<1>4. \A i \in 0 .. clock : accounts[i].owner \in 0 .. MaxLinks
  BY <1>3 DEF AccountRecord
<1>5. \A i \in 0 .. clock : accounts[i].owner \in Nat
  BY <1>1, <1>4
<1> QED
  BY <1>1, <1>2, <1>3, <1>4, <1>5 DEF Owner, AccountAt

LEMMA ShapeInit == DeviceInit => LinkShape
  BY CallsAndSlots, NothingFetched
  DEF DeviceInit, LinkInit, SessionInit, CertificateInit, LinkShape

LEMMA SessionShape ==
  ASSUME LinkShape, SessionStep, UNCHANGED certificateVars
  PROVE  LinkShape'
<1>1. /\ session' # "none" => session # "none"
      /\ provisioned' = "resolved" => session # "none" \/ provisioned = "resolved"
  BY DEF SessionStep, SessionNext, LinkTimeout, HostAborts, ProvisioningConnects,
         ProvisioningConnectFails, ReceiveAddress, ReceiveEnvelope,
         ProvisioningInterrupted, Interrupted, SessionRejects, HostDisconnects
<1> QED
  BY <1>1 DEF LinkShape, SessionStep, linkVars, certificateVars

LEMMA LinkingShape == ASSUME LinkShape, Linking PROVE LinkShape'
<1>1. UNCHANGED fetch
  BY DEF Linking
<1>2. CASE NewSession
  BY <1>1, <1>2, CallsAndSlots DEF LinkShape, NewSession, StartSession
<1>3. CASE BeginLinking
  BY <1>1, <1>3 DEF LinkShape, BeginLinking, SessionGone
<1>4. CASE LinkStep
  BY <1>1, <1>4
  DEF LinkShape, LinkStep, LinkConnects, LinkAccepted, LinkFails, IdentityStored,
      SignedPreKeyStored, KyberPreKeyStored, AccountStored, LinkWriteRejects,
      LinkDisconnects, StoreNext, Resolved, LinkSlots, sessionVars
<1> QED
  BY <1>2, <1>3, <1>4 DEF Linking

LEMMA FetchChanges ==
  ASSUME TypeOK, ClockInv, LinkShape, AccountsOK, NEW k \in Keys, FetchStep(k)
  PROVE  /\ fetch[k].pc # "none" /\ fetch' \in [Keys -> Fetch]
         /\ \A l \in Keys : l # k => fetch'[l] = fetch[l]
         /\ fetch'[k].pc = "none" \/ fetch'[k].by = fetch[k].by
<1>1. fetch \in [Keys -> Fetch] /\ NoFetch \in Fetch /\ NoFetch.pc = "none"
  BY NothingFetched DEF LinkShape
<1>2. fetch[k].pc # "none"
  BY DEF FetchStep, CertificateConnects, CertificateArrives, CachesCertificate,
         CertificateFails, CachePersisted, CertificateDisconnects
<1>3. CASE fetch' = [fetch EXCEPT ![k] = NoFetch]
  BY <1>1, <1>2, <1>3
<1>4. ASSUME NEW pc \in {"cache", "persist"}, NEW account \in AccountRecord,
             fetch' = [fetch EXCEPT ![k].pc = pc, ![k].account = account]
      PROVE  fetch' \in [Keys -> Fetch] /\ fetch'[k].by = fetch[k].by
             /\ \A l \in Keys : l # k => fetch'[l] = fetch[l]
  BY <1>1, <1>4 DEF Fetch
<1>5. ASSUME NEW ok \in BOOLEAN,
             fetch' = [fetch EXCEPT ![k].pc = "disconnect", ![k].ok = ok]
      PROVE  fetch' \in [Keys -> Fetch] /\ fetch'[k].by = fetch[k].by
             /\ \A l \in Keys : l # k => fetch'[l] = fetch[l]
  BY <1>1, <1>5 DEF Fetch
<1>6. CASE fetch' = [fetch EXCEPT ![k].pc = "get"]
  BY <1>1, <1>2, <1>6 DEF Fetch
<1>7. CASE CertificateConnects(k) \/ CertificateDisconnects(k)
  BY <1>2, <1>3, <1>6, <1>7 DEF CertificateConnects, CertificateDisconnects, Finish
<1>8. CASE CertificateArrives(k) \/ CachesCertificate(k)
  <2>1. AccountAt(memory) \in AccountRecord /\ Account(0) \in AccountRecord
    BY OwnerTypes, NothingFetched DEF AccountAt
  <2> QED
    BY <1>2, <1>4, <1>8, <2>1 DEF CertificateArrives, CachesCertificate
<1>9. CASE CertificateFails(k) \/ CachePersisted(k)
  BY <1>2, <1>5, <1>9 DEF CertificateFails, CachePersisted
<1> QED
  BY <1>7, <1>8, <1>9 DEF FetchStep

(* Where the other steps leave a fetch.                                    *)
LEMMA FetchGoesTo ==
  ASSUME LinkShape, NEW k \in Keys,
         CertificateConnects(k) \/ CertificateFails(k) \/ CachePersisted(k)
           \/ CertificateDisconnects(k)
  PROVE  fetch'[k].pc \in {"none", "get", "disconnect"}
<1>1. fetch \in [Keys -> Fetch] /\ NoFetch.pc = "none"
  BY NothingFetched DEF LinkShape
<1>2. CASE fetch' = [fetch EXCEPT ![k] = NoFetch]
  BY <1>1, <1>2
<1>3. CASE fetch' = [fetch EXCEPT ![k].pc = "get"]
  BY <1>1, <1>3 DEF Fetch
<1>4. CASE \E ok : fetch' = [fetch EXCEPT ![k].pc = "disconnect", ![k].ok = ok]
  BY <1>1, <1>4 DEF Fetch
<1> QED
  BY <1>2, <1>3, <1>4
  DEF CertificateConnects, CertificateFails, CachePersisted, CertificateDisconnects, Finish

LEMMA RequestShape ==
  ASSUME TypeOK, ClockInv, LinkShape, AccountsOK,
         (\E r \in Requests, m \in Modes : Get(r, m)) \/ (\E k \in Keys : FetchStep(k))
  PROVE  LinkShape'
<1>1. UNCHANGED <<attempt, link, session, provisioned>>
  BY DEF Get, FetchStep, CertificateConnects, CertificateArrives, CachesCertificate,
         CertificateFails, CachePersisted, CertificateDisconnects, linkVars, sessionVars
<1>2. CASE \E r \in Requests, m \in Modes : Get(r, m)
  <2>1. PICK r \in Requests, k \in Keys :
          \/ UNCHANGED fetch
          \/ fetch' = [fetch EXCEPT ![k].pc = "connect", ![k].by = r]
    BY <1>2 DEF Get
  <2>3. fetch' \in [Keys -> Fetch]
    BY <2>1 DEF LinkShape, Fetch
  <2>4. \A l \in Keys : fetch'[l] = fetch[l] \/ fetch'[l].by \in Requests
    BY <2>1 DEF LinkShape, Fetch
  <2> QED
    BY <1>1, <2>3, <2>4 DEF LinkShape
<1>3. ASSUME NEW k \in Keys, FetchStep(k) PROVE LinkShape'
  BY <1>1, <1>3, FetchChanges DEF LinkShape
<1> QED
  BY <1>2, <1>3

LEMMA ShapeStep ==
  ASSUME TypeOK, ClockInv, LinkShape, AccountsOK, [DeviceNext]_deviceVars
  PROVE  LinkShape'
<1>1. CASE (StoreStep \/ \E c \in HostCalls : HostSaves(c)) /\ UNCHANGED certificateVars
  BY <1>1 DEF LinkShape, StoreStep, HostSaves, linkVars, sessionVars, certificateVars
<1>2. CASE DeviceStops
  BY <1>2, NothingFetched DEF LinkShape, DeviceStops, DeviceCrash, SessionGone
<1>3. CASE UNCHANGED deviceVars
  BY <1>3 DEF LinkShape, deviceVars, linkVars, sessionVars, certificateVars
<1> QED
  BY <1>1, <1>2, <1>3, SessionShape, LinkingShape, RequestShape DEF DeviceNext

-----------------------------------------------------------------------------
(* Every step is one of the repository, or none of its business.           *)

LEMMA LinkCallsStore ==
  ASSUME LinkShape, Linking
  PROVE  UNCHANGED vars \/ \E c \in Calls, s \in Slots : Write(c, s)
<1>1. CASE LinkAccepted \/ IdentityStored \/ SignedPreKeyStored \/ KyberPreKeyStored
  <2>1. PICK s \in LinkSlots : Write(<<"link", attempt, s>>, s)
    BY <1>1
    DEF LinkAccepted, IdentityStored, SignedPreKeyStored, KyberPreKeyStored, StoreNext,
        LinkSlots
  <2>2. attempt \in Attempts
    BY <1>1, CallsAndSlots
    DEF LinkShape, Attempts, LinkAccepted, IdentityStored, SignedPreKeyStored,
        KyberPreKeyStored, Resolved
  <2> QED
    BY <2>1, <2>2, CallsAndSlots
<1>2. CASE NewSession \/ BeginLinking \/ LinkConnects \/ LinkFails \/ AccountStored
             \/ LinkWriteRejects \/ LinkDisconnects
  BY <1>2
  DEF NewSession, BeginLinking, LinkConnects, LinkFails, AccountStored,
      LinkWriteRejects, LinkDisconnects
<1> QED
  BY <1>1, <1>2 DEF Linking, LinkStep

LEMMA FetchCallsStore ==
  ASSUME LinkShape, NEW k \in Keys, FetchStep(k)
  PROVE  UNCHANGED vars \/ \E c \in Calls, s \in Slots : Write(c, s)
<1>1. CASE CachesCertificate(k)
  <2>1. fetch[k].by \in Requests /\ Write(CertificateCall(fetch[k].by), "account")
    BY <1>1 DEF LinkShape, CachesCertificate
  <2>2. CertificateCall(fetch[k].by) \in Calls /\ "account" \in Slots
    BY <2>1, CallsAndSlots DEF LinkSlots
  <2> QED
    BY <2>1, <2>2
<1>2. CASE CertificateConnects(k) \/ CertificateArrives(k) \/ CertificateFails(k)
             \/ CachePersisted(k) \/ CertificateDisconnects(k)
  BY <1>2
  DEF CertificateConnects, CertificateArrives, CertificateFails, CachePersisted,
      CertificateDisconnects
<1> QED
  BY <1>1, <1>2 DEF FetchStep

LEMMA DeviceStepsStore == LinkShape /\ [DeviceNext]_deviceVars => [Next]_vars
<1> SUFFICES ASSUME LinkShape, [DeviceNext]_deviceVars PROVE [Next]_vars
  OBVIOUS
<1>1. CASE Linking
  BY <1>1, LinkCallsStore DEF Next
<1>2. CASE \E r \in Requests, m \in Modes : Get(r, m)
  BY <1>2 DEF Get
<1>3. CASE \E k \in Keys : FetchStep(k)
  BY <1>3, FetchCallsStore DEF Next
<1>4. CASE SessionStep
  BY <1>4 DEF SessionStep
<1>5. CASE StoreStep
  BY <1>5 DEF StoreStep, Next
<1>6. CASE \E c \in HostCalls : HostSaves(c)
  BY <1>6, CallsAndSlots DEF HostSaves, Next
<1>7. CASE DeviceStops
  BY <1>7 DEF DeviceStops, DeviceCrash, Next
<1>8. CASE UNCHANGED deviceVars
  BY <1>8 DEF deviceVars
<1> QED
  BY <1>1, <1>2, <1>3, <1>4, <1>5, <1>6, <1>7, <1>8 DEF DeviceNext

-----------------------------------------------------------------------------
(* Owners of accounts.                                                     *)

(* The account on file is of no later linking than the one on its way to   *)
(* the file, and that of no later one than the account in memory, until a  *)
(* linking stores its account in the middle of a cache write.              *)
OwnersOK ==
  /\ Owner(memory) <= attempt /\ Owner(file.of) <= attempt
  /\ phase \in {"write", "rename"} => Owner(temporary.of) <= attempt
  /\ file.kind # "whole" => file.of["account"] = 0
  /\ ~overlapped =>
       /\ repository # "closed" => Owner(file.of) <= Owner(memory)
       /\ phase \in {"write", "rename"} =>
            Owner(file.of) <= Owner(temporary.of) /\ Owner(temporary.of) <= Owner(memory)

(* Fetches need an open repository; until then, the account that a cache   *)
(* write has read is of the linking of the account in memory.              *)
FetchesOK ==
  /\ \A k \in Keys : fetch[k].pc # "none" => repository = "open"
  /\ \A k \in Keys : fetch[k].pc = "cache" =>
       /\ fetch[k].account.owner <= attempt
       /\ ~overlapped => fetch[k].account.owner = Owner(memory)

OwnersInv == StoreInv /\ LinkShape /\ AccountsOK /\ OwnersOK /\ FetchesOK

LEMMA OwnersInit == DeviceInit => AccountsOK /\ OwnersOK /\ FetchesOK
<1> SUFFICES ASSUME DeviceInit PROVE AccountsOK /\ OwnersOK /\ FetchesOK
  OBVIOUS
<1>1. MaxChanges \in Nat /\ MaxLinks \in Nat /\ "account" \in Slots
  BY StoreAssumption, CallsAndSlots DEF StoreAssumption, LinkSlots
<1>2. Account(0) \in AccountRecord /\ Account(0).owner = 0
  BY NothingFetched
<1>3. AccountsOK
  BY <1>1, <1>2 DEF DeviceInit, Init, LinkInit, AccountsOK
<1>4. /\ memory["account"] = 0 /\ file.of["account"] = 0
      /\ repository = "closed" /\ phase = "idle" /\ attempt = 0
  BY <1>1 DEF DeviceInit, Init, LinkInit, Blank, Nothing
<1>5. OwnersOK
  BY <1>3, <1>4 DEF AccountsOK, OwnersOK, Owner, AccountAt
<1>6. FetchesOK
  BY NothingFetched DEF DeviceInit, CertificateInit, FetchesOK
<1> QED
  BY <1>3, <1>5, <1>6

(* A change of the account to one of the same linking or a later one, or   *)
(* of any if a linking has come in between.                                *)
LEMMA AccountWritten ==
  ASSUME OwnersInv, NEW c \in Calls, Write(c, "account"), UNCHANGED attempt,
         NEW account \in AccountRecord, account.owner <= attempt,
         ~overlapped' => ~overlapped /\ Owner(memory) <= account.owner,
         accounts' = [accounts EXCEPT ![clock'] = account]
  PROVE  AccountsOK' /\ OwnersOK' /\ (~overlapped' => OwnersGoForward)
         /\ memory'["account"] = clock' /\ clock' \in 0 .. MaxChanges
         /\ Owner(memory)' = account.owner /\ repository' = "open"
<1>0. TypeOK /\ ChainInv /\ ClockInv /\ LinkShape /\ AccountsOK /\ OwnersOK
  BY DEF OwnersInv, StoreInv
<1> USE <1>0, OwnerTypes
<1>1. /\ clock' = clock + 1 /\ clock' <= MaxChanges
      /\ memory' = [memory EXCEPT !["account"] = clock + 1]
      /\ UNCHANGED <<file, temporary>> /\ repository = "open" /\ repository' = "open"
  BY DEF Write, disk
<1>2. memory'["account"] = clock' /\ accounts'[clock'] = account
  BY <1>1, Types DEF AccountsOK
<1>3. \A i \in 0 .. clock : accounts'[i] = accounts[i]
  BY <1>1 DEF AccountsOK
<1>4. AccountsOK'
  BY <1>1, <1>3 DEF AccountsOK
<1>5. /\ Owner(memory)' = account.owner /\ account.owner \in Nat
      /\ Owner(file.of)' = Owner(file.of) /\ Owner(temporary.of)' = Owner(temporary.of)
  BY <1>1, <1>2, <1>3 DEF Owner, AccountAt, AccountRecord
<1>6. phase' \in {"write", "rename"} => phase \in {"write", "rename"}
  BY DEF Write, Enqueue
<1>7. OwnersOK'
  BY <1>1, <1>5, <1>6 DEF OwnersOK
<1>8. ~overlapped' => OwnersGoForward
  BY <1>5 DEF OwnersGoForward
<1> QED
  BY <1>1, <1>2, <1>4, <1>5, <1>7, <1>8

(* A change of anything else, or no change at all.                         *)
LEMMA AccountKept ==
  ASSUME OwnersInv, UNCHANGED <<file, temporary, accounts>>,
         repository' # "closed" => repository # "closed",
         clock' \in clock .. MaxChanges,
         repository' # "closed" => memory'["account"] = memory["account"],
         repository' = "closed" => memory' = Blank,
         phase' \in {"write", "rename"} => phase \in {"write", "rename"} /\ repository' # "closed",
         attempt' \in {attempt, attempt + 1}, ~overlapped' => ~overlapped
  PROVE  AccountsOK' /\ OwnersOK' /\ (~overlapped' => OwnersGoForward)
<1>0. TypeOK /\ ClockInv /\ LinkShape /\ AccountsOK /\ OwnersOK
  BY DEF OwnersInv, StoreInv
<1> USE <1>0, OwnerTypes
<1>1. AccountsOK'
  BY DEF AccountsOK
<1>2. /\ Owner(file.of)' = Owner(file.of) /\ Owner(temporary.of)' = Owner(temporary.of)
      /\ repository' # "closed" => Owner(memory)' = Owner(memory)
      /\ repository' = "closed" => Owner(memory)' = 0
  BY DEF Owner, AccountAt, Blank, AccountsOK
<1>3. OwnersOK'
  BY <1>2 DEF OwnersOK
<1>4. OwnersGoForward
  BY <1>2 DEF OwnersGoForward
<1> QED
  BY <1>1, <1>3, <1>4

LEMMA OtherWritten ==
  ASSUME OwnersInv, NEW c, NEW s \in Slots \ {"account"}, Write(c, s),
         UNCHANGED <<attempt, accounts>>, ~overlapped' => ~overlapped
  PROVE  AccountsOK' /\ OwnersOK' /\ (~overlapped' => OwnersGoForward)
         /\ memory'["account"] = memory["account"]
         /\ repository' = "open" /\ Owner(memory)' = Owner(memory)
<1>0. TypeOK /\ ClockInv /\ LinkShape /\ AccountsOK /\ ChainInv
  BY DEF OwnersInv, StoreInv
<1>1. /\ clock' = clock + 1 /\ clock' <= MaxChanges /\ UNCHANGED <<file, temporary>>
      /\ memory' = [memory EXCEPT ![s] = clock + 1]
      /\ repository = "open" /\ repository' = "open"
  BY <1>0, OwnerTypes DEF Write, disk
<1>2. memory'["account"] = memory["account"]
  BY <1>0, <1>1, Types, OwnerTypes
<1>3. phase' \in {"write", "rename"} => phase \in {"write", "rename"}
  BY DEF Write, Enqueue
<1>4. clock' \in clock .. MaxChanges
  BY <1>0, <1>1, OwnerTypes
<1>5. Owner(memory)' = Owner(memory)
  BY <1>2 DEF Owner, AccountAt
<1> QED
  BY <1>1, <1>2, <1>3, <1>4, <1>5, AccountKept

LEMMA NothingStored ==
  ASSUME OwnersInv, UNCHANGED <<vars, accounts>>, attempt' \in {attempt, attempt + 1},
         ~overlapped' => ~overlapped
  PROVE  AccountsOK' /\ OwnersOK' /\ (~overlapped' => OwnersGoForward)
<1>0. TypeOK /\ ChainInv /\ OpeningInv /\ ClockInv /\ LinkShape /\ AccountsOK /\ OwnersOK
  BY DEF OwnersInv, StoreInv
<1>1. UNCHANGED <<repository, memory, file, temporary, phase, clock, accounts>>
  BY DEF vars
<1>2. /\ Owner(memory)' = Owner(memory) /\ Owner(file.of)' = Owner(file.of)
      /\ Owner(temporary.of)' = Owner(temporary.of)
  BY <1>1 DEF Owner, AccountAt
<1> QED
  BY <1>0, <1>1, <1>2, OwnerTypes DEF AccountsOK, OwnersOK, OwnersGoForward

LEMMA PersistKeepsOwners ==
  ASSUME OwnersInv, UNCHANGED <<accounts, attempt, overlapped>>,
         BeginWrite \/ EndWrite \/ Rename \/ Settle \/ Fail
  PROVE  AccountsOK' /\ OwnersOK' /\ (~overlapped' => OwnersGoForward)
<1>0. /\ TypeOK /\ ChainInv /\ OpeningInv /\ ClockInv /\ SnapshotInv
      /\ LinkShape /\ AccountsOK /\ OwnersOK
  BY DEF OwnersInv, StoreInv
<1> USE <1>0, OwnerTypes
<1>1. CASE BeginWrite
  <2>1. /\ UNCHANGED <<repository, memory, file, clock>> /\ temporary'.of = memory
        /\ repository # "closed"
    BY <1>1, HeadRuns DEF BeginWrite, Snapshot, OpeningInv
  <2>2. /\ Owner(memory)' = Owner(memory) /\ Owner(file.of)' = Owner(file.of)
        /\ Owner(temporary.of)' = Owner(memory)
    BY <2>1 DEF Owner, AccountAt
  <2> QED
    BY <2>1, <2>2 DEF AccountsOK, OwnersOK, OwnersGoForward
<1>2. CASE EndWrite
  <2>1. /\ UNCHANGED <<repository, memory, file, clock>> /\ temporary'.of = temporary.of
        /\ phase = "write"
    BY <1>2 DEF EndWrite, TypeOK, Disk
  <2>2. /\ Owner(memory)' = Owner(memory) /\ Owner(file.of)' = Owner(file.of)
        /\ Owner(temporary.of)' = Owner(temporary.of)
    BY <2>1 DEF Owner, AccountAt
  <2> QED
    BY <2>1, <2>2 DEF AccountsOK, OwnersOK, OwnersGoForward
<1>3. CASE Rename
  <2>1. /\ UNCHANGED <<repository, memory, clock>> /\ file' = temporary
        /\ phase = "rename" /\ phase' = "settle" /\ temporary.kind = "whole"
    BY <1>3 DEF Rename, SnapshotInv
  <2>2. Owner(memory)' = Owner(memory) /\ Owner(file.of)' = Owner(temporary.of)
    BY <2>1 DEF Owner, AccountAt
  <2> QED
    BY <2>1, <2>2 DEF AccountsOK, OwnersOK, OwnersGoForward
<1>4. CASE Settle
  <2>1. /\ UNCHANGED <<memory, file, temporary, clock>> /\ phase' \notin {"write", "rename"}
        /\ repository # "closed" /\ repository' = "open"
    BY <1>4, HeadRuns DEF Settle, Dequeue, OpeningInv, disk
  <2> QED
    BY <2>1, AccountKept DEF AccountsOK
<1>5. CASE Fail
  <2>1. /\ UNCHANGED <<file, temporary, clock>> /\ phase' \notin {"write", "rename"}
        /\ \/ repository = "open" /\ UNCHANGED <<repository, memory>>
           \/ repository' = "closed" /\ memory' = Blank
    BY <1>5 DEF Fail, Dequeue, disk
  <2> QED
    BY <2>1, AccountKept DEF AccountsOK
<1> QED
  BY <1>1, <1>2, <1>3, <1>4, <1>5

(* A start finds the account that is on file.                              *)
LEMMA OpenKeepsOwners ==
  ASSUME OwnersInv, UNCHANGED <<accounts, attempt, overlapped>>, NEW b \in BOOLEAN, Open(b)
  PROVE  AccountsOK' /\ OwnersOK' /\ (~overlapped' => OwnersGoForward)
<1>0. TypeOK /\ ChainInv /\ OpeningInv /\ ClockInv /\ LinkShape /\ AccountsOK /\ OwnersOK
  BY DEF OwnersInv, StoreInv
<1> USE <1>0, OwnerTypes
<1>1. /\ UNCHANGED <<file, temporary>> /\ repository = "closed" /\ repository' # "closed"
      /\ phase' \notin {"write", "rename"}
  BY DEF Open, Enqueue, ChainInv, OpeningInv, disk
<1>2. clock' \in clock .. MaxChanges
  BY DEF Open, ReadStoreFile, AccountsOK
<1>3. memory'["account"] = file.of["account"]
  <2>1. Identity # "account" => Initial(clock + 1)["account"] = 0
    BY DEF Initial, Blank
  <2> QED
    BY <2>1, IdentitySlot DEF Open, ReadStoreFile, OwnersOK
<1>4. Owner(memory)' = Owner(file.of) /\ Owner(file.of)' = Owner(file.of)
  BY <1>1, <1>3 DEF Owner, AccountAt
<1> QED
  BY <1>1, <1>2, <1>4 DEF AccountsOK, OwnersOK, OwnersGoForward

(* Nothing new is read, and the account in memory stays of its linking.    *)
LEMMA FetchesKept ==
  ASSUME OwnersInv, attempt' \in {attempt, attempt + 1}, ~overlapped' => ~overlapped,
         \A k \in Keys :
           /\ fetch'[k].pc # "none" => fetch[k].pc # "none" /\ repository' = "open"
           /\ fetch'[k].pc = "cache" =>
                /\ fetch[k].pc = "cache" /\ fetch'[k].account = fetch[k].account
                /\ ~overlapped' => Owner(memory)' = Owner(memory)
  PROVE  FetchesOK'
<1>1. /\ attempt \in Nat
      /\ \A k \in Keys : fetch[k].account.owner \in Nat
  BY CallsAndSlots DEF OwnersInv, LinkShape, Fetch, AccountRecord
<1> QED
  BY <1>1 DEF OwnersInv, FetchesOK

LEMMA LinkingOwners ==
  ASSUME OwnersInv, Linking
  PROVE  AccountsOK' /\ OwnersOK' /\ FetchesOK' /\ (~overlapped' => OwnersGoForward)
<1>0. /\ TypeOK /\ ChainInv /\ OpeningInv /\ ClockInv /\ LinkShape /\ AccountsOK
      /\ OwnersOK /\ FetchesOK
  BY DEF OwnersInv, StoreInv
<1> USE <1>0, OwnerTypes
<1>1. UNCHANGED fetch /\ (~overlapped' => ~overlapped)
  BY DEF Linking
<1>2. CASE KyberPreKeyStored
  <2>1. attempt \in Attempts /\ UNCHANGED attempt
    BY <1>2 DEF KyberPreKeyStored, Resolved, LinkShape, Attempts
  <2>2. Account(attempt) \in AccountRecord /\ Account(attempt).owner = attempt
    BY DEF Account, AccountRecord
  <2>3. <<"link", attempt, "account">> \in Calls
    BY <2>1, CallsAndSlots DEF LinkSlots
  <2>4. Owner(memory) <= Account(attempt).owner /\ Account(attempt).owner <= attempt
    BY <2>2 DEF OwnersOK
  <2>5. /\ Write(<<"link", attempt, "account">>, "account")
        /\ accounts' = [accounts EXCEPT ![clock'] = Account(attempt)]
    BY <1>2 DEF KyberPreKeyStored
  <2>6. /\ AccountsOK' /\ OwnersOK' /\ (~overlapped' => OwnersGoForward)
        /\ repository' = "open"
    BY <1>1, <2>1, <2>2, <2>3, <2>4, <2>5, AccountWritten
  <2>7. \A k \in Keys : fetch[k].pc = "cache" => overlapped'
    BY <1>2 DEF Linking, StoresAccount, KyberPreKeyStored, Resolved
  <2> QED
    BY <1>1, <2>1, <2>6, <2>7, FetchesKept DEF FetchesOK
<1>3. CASE LinkAccepted \/ IdentityStored \/ SignedPreKeyStored
  <2>1. PICK s \in LinkSlots \ {"account"} :
          Write(<<"link", attempt, s>>, s) /\ UNCHANGED <<attempt, accounts>>
    BY <1>3 DEF LinkAccepted, IdentityStored, SignedPreKeyStored, StoreNext, LinkSlots
  <2>2. s \in Slots \ {"account"}
    BY CallsAndSlots
  <2>3. /\ AccountsOK' /\ OwnersOK' /\ (~overlapped' => OwnersGoForward)
        /\ repository' = "open" /\ Owner(memory)' = Owner(memory)
    BY <1>1, <2>1, <2>2, OtherWritten
  <2> QED
    BY <1>1, <2>1, <2>3, FetchesKept
<1>4. CASE NewSession \/ BeginLinking \/ LinkConnects \/ LinkFails \/ AccountStored
             \/ LinkWriteRejects \/ LinkDisconnects
  <2>1. UNCHANGED <<vars, accounts>> /\ attempt' \in {attempt, attempt + 1}
    BY <1>4
    DEF NewSession, BeginLinking, LinkConnects, LinkFails, AccountStored,
        LinkWriteRejects, LinkDisconnects
  <2>2. Owner(memory)' = Owner(memory) /\ UNCHANGED repository
    BY <2>1 DEF vars, Owner, AccountAt
  <2>3. FetchesOK'
    BY <1>1, <2>1, <2>2, FetchesKept DEF FetchesOK
  <2> QED
    BY <1>1, <2>1, <2>3, NothingStored
<1> QED
  BY <1>2, <1>3, <1>4 DEF Linking, LinkStep

(* The record with the certificate is of the same linking as without.      *)
LEMMA CachedRecord ==
  ASSUME LinkShape, NEW k \in Keys
  PROVE  LET account == [fetch[k].account EXCEPT !.certificates[k[2]] = k]
         IN  /\ account \in AccountRecord /\ fetch[k].account \in AccountRecord
             /\ account.owner = fetch[k].account.owner
             /\ \A m \in Modes : account.certificates[m] =
                  IF m = k[2] THEN k ELSE fetch[k].account.certificates[m]
<1>1. fetch[k].account \in AccountRecord
  BY DEF LinkShape, Fetch
<1>2. k \in (0 .. MaxLinks) \X Modes
  BY CallsAndSlots DEF Keys
<1> QED
  BY <1>1, <1>2 DEF AccountRecord

LEMMA CacheWritten ==
  ASSUME OwnersInv, NEW k \in Keys, CachesCertificate(k)
  PROVE  /\ AccountsOK' /\ OwnersOK' /\ (~overlapped' => OwnersGoForward)
         /\ memory'["account"] = clock' /\ clock' \in 0 .. MaxChanges
         /\ Owner(memory)' = fetch[k].account.owner /\ repository' = "open"
<1> DEFINE account == [fetch[k].account EXCEPT !.certificates[k[2]] = k]
<1>0. LinkShape /\ OwnersOK /\ FetchesOK /\ TypeOK /\ ClockInv /\ AccountsOK
  BY DEF OwnersInv, StoreInv
<1>1. /\ Write(CertificateCall(fetch[k].by), "account")
      /\ UNCHANGED <<attempt, overlapped>> /\ fetch[k].pc = "cache"
      /\ accounts' = [accounts EXCEPT ![clock'] = account]
  BY DEF CachesCertificate, historyVars
<1>2. CertificateCall(fetch[k].by) \in Calls
  BY <1>0, <1>1, CallsAndSlots DEF LinkShape
<1>3. account \in AccountRecord /\ account.owner = fetch[k].account.owner
  BY <1>0, CachedRecord
<1>4. account.owner <= attempt /\ (~overlapped => Owner(memory) <= account.owner)
  BY <1>0, <1>1, <1>3, OwnerTypes DEF FetchesOK
<1> HIDE DEF account
<1> QED
  BY <1>1, <1>2, <1>3, <1>4, AccountWritten

LEMMA FetchOwners ==
  ASSUME OwnersInv, NEW k \in Keys, FetchStep(k)
  PROVE  AccountsOK' /\ OwnersOK' /\ FetchesOK' /\ (~overlapped' => OwnersGoForward)
<1>0. LinkShape /\ OwnersOK /\ FetchesOK /\ TypeOK /\ ClockInv /\ AccountsOK
  BY DEF OwnersInv, StoreInv
<1>1. /\ UNCHANGED <<attempt, overlapped>> /\ fetch[k].pc # "none"
      /\ \A l \in Keys : l # k => fetch'[l] = fetch[l]
  BY <1>0, FetchChanges
  DEF FetchStep, CertificateConnects, CertificateArrives, CachesCertificate,
      CertificateFails, CachePersisted, CertificateDisconnects, linkVars, historyVars
<1>2. CASE CachesCertificate(k)
  <2>1. fetch'[k].pc = "persist" /\ fetch[k].pc = "cache"
    BY <1>0, <1>2 DEF CachesCertificate, LinkShape, Fetch
  <2>2. ~overlapped => Owner(memory)' = Owner(memory)
    BY <1>0, <1>2, <2>1, CacheWritten DEF FetchesOK
  <2>3. FetchesOK'
    BY <1>1, <1>2, <2>1, <2>2, CacheWritten, FetchesKept
  <2> QED
    BY <1>2, <2>3, CacheWritten
<1>3. CASE CertificateArrives(k)
  <2>1. /\ UNCHANGED <<vars, accounts>> /\ fetch'[k].account = AccountAt(memory)
        /\ fetch'[k].pc = "cache"
    BY <1>0, <1>3 DEF CertificateArrives, LinkShape, Fetch, linkVars
  <2>2. Owner(memory)' = Owner(memory) /\ UNCHANGED repository
    BY <2>1 DEF Owner, AccountAt, vars
  <2>3. FetchesOK'
    BY <1>0, <1>1, <2>1, <2>2 DEF FetchesOK, OwnersOK, Owner
  <2> QED
    BY <1>1, <2>1, <2>3, NothingStored
<1>4. CASE CertificateConnects(k) \/ CertificateFails(k) \/ CachePersisted(k)
             \/ CertificateDisconnects(k)
  <2>1. UNCHANGED <<vars, accounts>> /\ fetch'[k].pc # "cache"
    BY <1>0, <1>4, FetchGoesTo
    DEF CertificateConnects, CertificateFails, CachePersisted, CertificateDisconnects,
        linkVars
  <2>2. Owner(memory)' = Owner(memory) /\ UNCHANGED repository
    BY <2>1 DEF Owner, AccountAt, vars
  <2>3. FetchesOK'
    BY <1>0, <1>1, <2>1, <2>2 DEF FetchesOK
  <2> QED
    BY <1>1, <2>1, <2>3, NothingStored
<1> QED
  BY <1>2, <1>3, <1>4 DEF FetchStep

LEMMA GetOwners ==
  ASSUME OwnersInv, NEW r \in Requests, NEW m \in Modes, Get(r, m)
  PROVE  AccountsOK' /\ OwnersOK' /\ FetchesOK' /\ (~overlapped' => OwnersGoForward)
<1>1. UNCHANGED <<vars, accounts, attempt, overlapped>> /\ repository = "open"
  BY DEF Get, linkVars, historyVars
<1>2. \A k \in Keys : fetch'[k] = fetch[k] \/ fetch'[k].pc = "connect"
  BY DEF Get, OwnersInv, LinkShape, Fetch
<1>3. Owner(memory)' = Owner(memory) /\ repository' = "open"
  BY <1>1 DEF Owner, AccountAt, vars
<1>4. FetchesOK'
  BY <1>1, <1>2, <1>3 DEF OwnersInv, FetchesOK
<1> QED
  BY <1>1, <1>4, NothingStored

LEMMA StoreOwners ==
  ASSUME OwnersInv, StoreStep, UNCHANGED certificateVars
  PROVE  AccountsOK' /\ OwnersOK' /\ FetchesOK' /\ (~overlapped' => OwnersGoForward)
<1>1. UNCHANGED <<accounts, attempt, overlapped, fetch>>
  BY DEF StoreStep, linkVars, certificateVars, historyVars
<1>2. AccountsOK' /\ OwnersOK' /\ (~overlapped' => OwnersGoForward)
  <2>1. CASE \E b \in BOOLEAN : Open(b)
    BY <1>1, <2>1, OpenKeepsOwners
  <2>2. CASE BeginWrite \/ EndWrite \/ Rename \/ Settle \/ Fail
    BY <1>1, <2>2, PersistKeepsOwners
  <2> QED
    BY <2>1, <2>2 DEF StoreStep, Persisting
<1>3. repository = "open" => UNCHANGED <<memory, repository>>
  BY DEF StoreStep, Open, Persisting, BeginWrite, EndWrite, Rename, Settle, Fail
<1>4. FetchesOK'
  BY <1>1, <1>3 DEF OwnersInv, FetchesOK, Owner, AccountAt
<1> QED
  BY <1>2, <1>4

LEMMA OwnersStep ==
  OwnersInv /\ [DeviceNext]_deviceVars
    => AccountsOK' /\ OwnersOK' /\ FetchesOK' /\ [~overlapped' => OwnersGoForward]_deviceVars
<1> SUFFICES ASSUME OwnersInv, [DeviceNext]_deviceVars
             PROVE  AccountsOK' /\ OwnersOK' /\ FetchesOK' /\ (~overlapped' => OwnersGoForward)
  OBVIOUS
<1>1. CASE Linking
  BY <1>1, LinkingOwners
<1>2. CASE \E r \in Requests, m \in Modes : Get(r, m)
  BY <1>2, GetOwners
<1>3. CASE \E k \in Keys : FetchStep(k)
  BY <1>3, FetchOwners
<1>4. CASE (SessionStep /\ UNCHANGED certificateVars) \/ UNCHANGED deviceVars
  <2>1. UNCHANGED <<vars, attempt, accounts, fetch, overlapped>>
    BY <1>4 DEF SessionStep, deviceVars, linkVars, certificateVars, historyVars
  <2>2. FetchesOK'
    BY <2>1 DEF OwnersInv, FetchesOK, Owner, AccountAt, vars
  <2> QED
    BY <2>1, <2>2, NothingStored
<1>5. CASE StoreStep /\ UNCHANGED certificateVars
  BY <1>5, StoreOwners
<1>6. CASE (\E c \in HostCalls : HostSaves(c)) /\ UNCHANGED certificateVars
  <2>1. PICK c \in HostCalls : Write(c, "session") /\ UNCHANGED <<attempt, accounts>>
    BY <1>6 DEF HostSaves, linkVars
  <2>2. "session" \in Slots \ {"account"} /\ UNCHANGED <<fetch, overlapped>>
    BY <1>6, CallsAndSlots DEF certificateVars, historyVars
  <2>3. FetchesOK'
    BY <2>1, <2>2, OtherWritten, FetchesKept
  <2> QED
    BY <2>1, <2>2, <2>3, OtherWritten
<1>7. CASE DeviceStops
  <2>1. /\ UNCHANGED <<file, temporary, clock, accounts, attempt, overlapped>>
        /\ repository' = "closed" /\ memory' = Blank /\ phase' = "idle"
        /\ \A k \in Keys : fetch'[k].pc = "none"
    BY <1>7, NothingFetched DEF DeviceStops, DeviceCrash, Crash, disk, historyVars
  <2>2. clock' \in clock .. MaxChanges
    BY <2>1, OwnerTypes DEF OwnersInv, StoreInv, AccountsOK
  <2>3. FetchesOK'
    BY <2>1 DEF FetchesOK
  <2> QED
    BY <2>1, <2>2, <2>3, AccountKept
<1> QED
  BY <1>1, <1>2, <1>3, <1>4, <1>5, <1>6, <1>7 DEF DeviceNext

LEMMA OwnersInvariant == DeviceSpec => []OwnersInv
<1>1. DeviceInit => OwnersInv
  <2>1. DeviceInit => Init
    BY DEF DeviceInit
  <2> QED
    BY <2>1, InitInv, ShapeInit, OwnersInit DEF OwnersInv
<1>2. OwnersInv /\ [DeviceNext]_deviceVars => OwnersInv'
  BY DeviceStepsStore, InvStep, ShapeStep, OwnersStep DEF OwnersInv, StoreInv
<1> QED
  BY <1>1, <1>2, PTL DEF DeviceSpec

(* Linking and certificate requests use the repository as FileStore says:  *)
(* each call of a setter once, when the repository is open.                *)
THEOREM DeviceRunsStore == DeviceSpec => Spec
<1>1. DeviceInit => Init
  BY DEF DeviceInit
<1> QED
  BY <1>1, OwnersInvariant, DeviceStepsStore, PTL DEF DeviceSpec, Spec, OwnersInv

(* So what a setter of a linking, of a certificate request or of the host  *)
(* has resolved for is on file, with all that was changed before.          *)
THEOREM DeviceKeepsPromises ==
  DeviceSpec => [](PromisedSurvives /\ ResolvedCoversEarlier)
  BY DeviceRunsStore, PromisesKept, EarlierChangesCovered, PTL

(* And it implements the stable store.                                     *)
THEOREM DeviceRefinesStore == DeviceSpec => ImplementsStableStore
  BY DeviceRunsStore, StableRefinement, PTL

(* Whatever linkings, cache writes, failing writes and kills follow each   *)
(* other, neither memory nor the state file goes back to the account of an *)
(* earlier linking, unless one stores its account between the reading and  *)
(* the writing of a cache write.                                           *)
THEOREM AccountsGoForward == DeviceSpec => NeverBackToOldAccount
  BY OwnersInvariant, OwnersStep, PTL DEF DeviceSpec, NeverBackToOldAccount

-----------------------------------------------------------------------------
(* Certificates.                                                           *)

Certificate == (0 .. MaxLinks) \X Modes
Request == [pc : {"idle", "waiting", "done"}, key : Certificate, got : Certificate]

OwnCertificates(account) ==
  \A m \in Modes : account.certificates[m][1] # 0
                    => account.certificates[m] = <<account.owner, m>>

(* Until a linking crosses a fetch, what an account record caches is of    *)
(* that account, also in the record that a cache write has read, and a     *)
(* fetch in flight is for the account in memory.                           *)
CertificatesInv ==
  /\ request \in [Requests -> Request]
  /\ overlapped => crossed
  /\ ~crossed => /\ \A i \in 0 .. MaxChanges : OwnCertificates(accounts[i])
                 /\ \A k \in Keys : fetch[k].pc # "none" => k[1] = Owner(memory)
                 /\ \A k \in Keys : fetch[k].pc = "cache" =>
                                        OwnCertificates(fetch[k].account)
  /\ CertificatesAreOwn

LEMMA CertificatesInit == DeviceInit => CertificatesInv
<1> SUFFICES ASSUME DeviceInit PROVE CertificatesInv
  OBVIOUS
<1>1. MaxLinks \in Nat /\ NoKey \in Certificate /\ NoKey[1] = 0
  BY CallsAndSlots DEF NoKey, Certificate, Modes
<1>2. request = [r \in Requests |-> [pc |-> "idle", key |-> NoKey, got |-> NoKey]]
  BY DEF DeviceInit, CertificateInit
<1>3. request \in [Requests -> Request] /\ CertificatesAreOwn
  BY <1>1, <1>2 DEF Request, CertificatesAreOwn
<1>4. \A i \in 0 .. MaxChanges, m \in Modes : accounts[i].certificates[m][1] = 0
  BY DEF DeviceInit, LinkInit, Account
<1>5. ~overlapped /\ \A k \in Keys : fetch[k].pc = "none"
  BY DEF DeviceInit, CertificateInit, NoFetch
<1> QED
  BY <1>3, <1>4, <1>5 DEF CertificatesInv, OwnCertificates

(* Everybody who waited for the fetch gets its certificate or nothing.     *)
LEMMA FinishOwn ==
  ASSUME CertificatesInv, UNCHANGED crossed, MaxLinks \in Nat,
         NEW k \in Keys, NEW got \in {k, NoKey}, Finish(k, got)
  PROVE  request' \in [Requests -> Request] /\ CertificatesAreOwn'
<1>1. got \in Certificate /\ NoKey[1] = 0
  BY DEF NoKey, Keys, Certificate, Modes
<1>2. request' \in [Requests -> Request]
  BY <1>1 DEF CertificatesInv, Finish, Request
<1>3. \A r \in Requests :
        \/ request'[r] = request[r]
        \/ request[r].key = k /\ request'[r].key = k /\ request'[r].got = got
  BY DEF CertificatesInv, Finish, Request
<1>4. ~crossed => \A r \in Requests :
        request'[r].got[1] # 0 => request'[r].got = request'[r].key
  BY <1>1, <1>3 DEF CertificatesInv, CertificatesAreOwn
<1> QED
  BY <1>2, <1>4 DEF CertificatesAreOwn

LEMMA GetOwn ==
  ASSUME OwnersInv, CertificatesInv, NEW r \in Requests, NEW m \in Modes, Get(r, m)
  PROVE  CertificatesInv'
<1> DEFINE k == <<AccountAt(memory).owner, m>>
<1>0. TypeOK /\ ClockInv /\ LinkShape /\ AccountsOK
  BY DEF OwnersInv, StoreInv
<1>1. /\ UNCHANGED <<memory, accounts, crossed, overlapped>>
      /\ k \in Keys /\ k[1] = Owner(memory)
  BY DEF Get, vars, linkVars, historyVars, Owner
<1>2. /\ memory["account"] \in 0 .. MaxChanges /\ AccountAt(memory) \in AccountRecord
      /\ k \in Certificate /\ NoKey \in Certificate /\ NoKey[1] = 0
  BY <1>0, <1>1, OwnerTypes DEF Keys, Certificate, NoKey, Modes, AccountAt
<1>3. Cached(m) \in Certificate /\ (~crossed /\ Cached(m)[1] # 0 => Cached(m) = k)
  BY <1>2 DEF Cached, AccountRecord, Certificate, AccountAt, CertificatesInv,
               OwnCertificates
<1>4. \E pc \in {"waiting", "done"}, got \in {Cached(m), NoKey} :
        request' = [request EXCEPT ![r] = [pc |-> pc, key |-> k, got |-> got]]
  BY DEF Get
<1> HIDE DEF k
<1>5. request' \in [Requests -> Request]
  BY <1>2, <1>3, <1>4 DEF CertificatesInv, Request
<1>6. \A q \in Requests :
        \/ request'[q] = request[q]
        \/ request'[q].key = k /\ request'[q].got \in {Cached(m), NoKey}
  BY <1>4 DEF CertificatesInv
<1>7. CertificatesAreOwn'
  BY <1>1, <1>2, <1>3, <1>6 DEF CertificatesInv, CertificatesAreOwn
<1>8. \A l \in Keys : \/ fetch'[l] = fetch[l]
                      \/ l = k /\ fetch'[l].pc = "connect"
  <2>1. CASE UNCHANGED fetch
    BY <2>1
  <2>2. CASE fetch' = [fetch EXCEPT ![k].pc = "connect", ![k].by = r]
    BY <1>0, <1>1, <2>2 DEF LinkShape, Fetch
  <2> QED
    BY <2>1, <2>2 DEF Get, k
<1>9. Owner(memory)' = Owner(memory)
  BY <1>1 DEF Owner, AccountAt
<1> QED
  BY <1>1, <1>5, <1>7, <1>8, <1>9 DEF CertificatesInv, OwnCertificates

(* A step that leaves accounts and requests alone, and memory's account    *)
(* under a fetch.                                                          *)
LEMMA FlightsKept ==
  ASSUME CertificatesInv, UNCHANGED <<request, accounts>>, ~crossed' => ~crossed,
         overlapped' => overlapped \/ crossed',
         \A k \in Keys : fetch'[k].pc # "none" =>
           /\ fetch[k].pc # "none" /\ memory'["account"] = memory["account"]
           /\ fetch'[k].pc = "cache" =>
                \/ fetch[k].pc = "cache" /\ fetch'[k].account = fetch[k].account
                \/ \E i \in 0 .. MaxChanges : fetch'[k].account = accounts[i]
  PROVE  CertificatesInv'
<1>1. CertificatesAreOwn'
  BY DEF CertificatesInv, CertificatesAreOwn
<1>2. memory'["account"] = memory["account"] => Owner(memory)' = Owner(memory)
  BY DEF Owner, AccountAt
<1>3. ~crossed' => \A k \in Keys : fetch'[k].pc # "none" => k[1] = Owner(memory)'
  BY <1>2 DEF CertificatesInv
<1>4. ~crossed' => /\ \A i \in 0 .. MaxChanges : OwnCertificates(accounts[i])'
                   /\ \A k \in Keys : fetch'[k].pc = "cache" =>
                                        OwnCertificates(fetch[k].account)'
  BY DEF CertificatesInv, OwnCertificates
<1>5. request' \in [Requests -> Request] /\ (overlapped' => crossed')
  BY DEF CertificatesInv
<1> QED
  BY <1>1, <1>3, <1>4, <1>5 DEF CertificatesInv

LEMMA CacheOwn ==
  ASSUME OwnersInv, CertificatesInv, NEW k \in Keys, CachesCertificate(k)
  PROVE  CertificatesInv'
<1> DEFINE account == [fetch[k].account EXCEPT !.certificates[k[2]] = k]
<1>0. LinkShape /\ AccountsOK /\ FetchesOK
  BY DEF OwnersInv
<1>1. /\ UNCHANGED <<request, crossed, overlapped>> /\ fetch[k].pc = "cache"
      /\ accounts' = [accounts EXCEPT ![clock'] = account]
  BY DEF CachesCertificate, historyVars
<1>2. /\ account.owner = fetch[k].account.owner
      /\ \A m \in Modes : account.certificates[m] =
           IF m = k[2] THEN k ELSE fetch[k].account.certificates[m]
  BY <1>0, CachedRecord
<1>3. memory'["account"] = clock' /\ clock' \in 0 .. MaxChanges
      /\ Owner(memory)' = fetch[k].account.owner
  BY <1>0, CacheWritten
<1>4. ~crossed => Owner(memory)' = Owner(memory)
  BY <1>0, <1>1, <1>3 DEF FetchesOK, CertificatesInv
<1>5. \A l \in Keys : \/ fetch'[l] = fetch[l]
                      \/ l = k /\ fetch'[l].pc = "persist"
  <2>1. fetch'[k].pc = "persist"
    BY <1>0 DEF CachesCertificate, LinkShape, Fetch
  <2>2. \A l \in Keys : l # k => fetch'[l] = fetch[l]
    BY <1>0 DEF CachesCertificate, LinkShape
  <2> QED
    BY <2>1, <2>2
<1>6. ~crossed => OwnCertificates(account)
  <2> SUFFICES ASSUME ~crossed, NEW m \in Modes, account.certificates[m][1] # 0
               PROVE  account.certificates[m] = <<account.owner, m>>
    BY DEF OwnCertificates
  <2>1. CASE m = k[2]
    <3>1. k = <<k[1], k[2]>> /\ k[1] = Owner(memory)
      BY <1>1 DEF Keys, CertificatesInv
    <3> QED
      BY <1>2, <1>3, <1>4, <2>1, <3>1
  <2>2. CASE m # k[2]
    <3>1. OwnCertificates(fetch[k].account)
      BY <1>1 DEF CertificatesInv
    <3> QED
      BY <1>2, <2>2, <3>1 DEF OwnCertificates
  <2> QED
    BY <2>1, <2>2
<1> HIDE DEF account
<1>7. ~crossed => \A i \in 0 .. MaxChanges : OwnCertificates(accounts'[i])
  BY <1>0, <1>1, <1>3, <1>6 DEF CertificatesInv, AccountsOK
<1>8. CertificatesAreOwn'
  BY <1>1 DEF CertificatesInv, CertificatesAreOwn
<1> QED
  BY <1>1, <1>4, <1>5, <1>7, <1>8 DEF CertificatesInv, OwnCertificates

LEMMA FetchOwn ==
  ASSUME OwnersInv, CertificatesInv, NEW k \in Keys, FetchStep(k)
  PROVE  CertificatesInv'
<1>0. LinkShape /\ MaxLinks \in Nat /\ TypeOK /\ ClockInv /\ AccountsOK
  BY CallsAndSlots DEF OwnersInv, StoreInv
<1>1. \A l \in Keys : \/ fetch'[l] = fetch[l]
                      \/ l = k /\ fetch[l].pc # "none"
  BY <1>0, FetchChanges
<1>2. CASE CertificateConnects(k) \/ CertificateDisconnects(k)
  <2>1. UNCHANGED <<memory, accounts, crossed, overlapped>> /\ fetch'[k].pc # "cache"
    BY <1>0, <1>2, NothingFetched
    DEF CertificateConnects, CertificateDisconnects, Finish, vars, linkVars, historyVars,
        LinkShape, Fetch
  <2>2. UNCHANGED request \/ \E got \in {k, NoKey} : Finish(k, got)
    BY <1>2 DEF CertificateConnects, CertificateDisconnects
  <2>3. request' \in [Requests -> Request] /\ CertificatesAreOwn'
    <3>1. CASE UNCHANGED request
      BY <2>1, <3>1 DEF CertificatesInv, CertificatesAreOwn
    <3> QED
      BY <1>0, <2>1, <2>2, <3>1, FinishOwn
  <2>4. Owner(memory)' = Owner(memory)
    BY <2>1 DEF Owner, AccountAt
  <2> QED
    BY <1>1, <2>1, <2>3, <2>4 DEF CertificatesInv, OwnCertificates
<1>3. CASE CertificateArrives(k)
  <2>1. /\ UNCHANGED <<memory, accounts, crossed, overlapped, request>>
        /\ fetch'[k].account = accounts[memory["account"]]
    BY <1>0, <1>3
    DEF CertificateArrives, AccountAt, vars, linkVars, historyVars, LinkShape, Fetch
  <2>2. memory["account"] \in 0 .. MaxChanges
    BY <1>0, OwnerTypes
  <2> QED
    BY <1>1, <2>1, <2>2, FlightsKept
<1>4. CASE CertificateFails(k) \/ CachePersisted(k)
  <2>1. /\ UNCHANGED <<memory, accounts, crossed, overlapped, request>>
        /\ fetch'[k].pc = "disconnect"
    BY <1>0, <1>4
    DEF CertificateFails, CachePersisted, vars, linkVars, historyVars, LinkShape, Fetch
  <2> QED
    BY <1>1, <2>1, FlightsKept
<1> QED
  BY <1>2, <1>3, <1>4, CacheOwn DEF FetchStep

LEMMA LinkingOwn ==
  ASSUME OwnersInv, CertificatesInv, Linking
  PROVE  CertificatesInv'
<1>0. TypeOK /\ ClockInv /\ LinkShape /\ AccountsOK
  BY DEF OwnersInv, StoreInv
<1>1. /\ UNCHANGED <<request, fetch>> /\ (~crossed' => ~crossed)
      /\ overlapped' => overlapped \/ crossed'
  BY DEF Linking
<1>2. CASE KyberPreKeyStored
  <2>1. /\ accounts' = [accounts EXCEPT ![clock'] = Account(attempt)]
        /\ link' = "account" /\ link = "kyberPreKey"
    BY <1>2 DEF KyberPreKeyStored, Resolved
  <2>2. ~crossed' => ~crossed /\ \A k \in Keys : fetch[k].pc = "none"
    BY <2>1 DEF Linking, StoresAccount
  <2>3. \A m \in Modes : Account(attempt).certificates[m][1] = 0
    BY DEF Account
  <2>4. ~crossed' => \A i \in 0 .. MaxChanges : OwnCertificates(accounts'[i])
    BY <1>0, <2>1, <2>2, <2>3 DEF CertificatesInv, AccountsOK, OwnCertificates
  <2>5. CertificatesAreOwn'
    BY <1>1 DEF CertificatesInv, CertificatesAreOwn
  <2> QED
    BY <1>1, <2>2, <2>4, <2>5 DEF CertificatesInv, OwnCertificates
<1>3. CASE LinkAccepted \/ IdentityStored \/ SignedPreKeyStored
  <2>1. PICK s \in LinkSlots \ {"account"} :
          Write(<<"link", attempt, s>>, s) /\ UNCHANGED <<attempt, accounts>>
    BY <1>3 DEF LinkAccepted, IdentityStored, SignedPreKeyStored, StoreNext, LinkSlots
  <2>0. ~overlapped' => ~overlapped
    BY DEF Linking
  <2>2. memory'["account"] = memory["account"]
    BY <2>1, <2>0, OtherWritten, CallsAndSlots
  <2> QED
    BY <1>1, <2>1, <2>2, FlightsKept
<1>4. CASE NewSession \/ BeginLinking \/ LinkConnects \/ LinkFails \/ AccountStored
             \/ LinkWriteRejects \/ LinkDisconnects
  <2>1. UNCHANGED <<memory, accounts>>
    BY <1>4
    DEF NewSession, BeginLinking, LinkConnects, LinkFails, AccountStored,
        LinkWriteRejects, LinkDisconnects, vars
  <2> QED
    BY <1>1, <2>1, FlightsKept
<1> QED
  BY <1>2, <1>3, <1>4 DEF Linking, LinkStep

LEMMA CertificatesStep ==
  OwnersInv /\ CertificatesInv /\ [DeviceNext]_deviceVars => CertificatesInv'
<1> SUFFICES ASSUME OwnersInv, CertificatesInv, [DeviceNext]_deviceVars
             PROVE  CertificatesInv'
  OBVIOUS
<1>1. CASE StoreStep /\ UNCHANGED certificateVars
  <2>1. UNCHANGED <<request, fetch, crossed, overlapped, accounts>>
    BY <1>1 DEF StoreStep, certificateVars, historyVars, linkVars
  <2>2. repository = "open" => UNCHANGED <<memory, repository>>
    BY <1>1
    DEF StoreStep, Open, Persisting, BeginWrite, EndWrite, Rename, Settle, Fail
  <2> QED
    BY <2>1, <2>2, FlightsKept DEF OwnersInv, FetchesOK
<1>2. CASE SessionStep /\ UNCHANGED certificateVars
  <2>1. UNCHANGED <<request, fetch, crossed, overlapped, accounts, memory>>
    BY <1>2 DEF SessionStep, certificateVars, historyVars, linkVars, vars
  <2> QED
    BY <2>1, FlightsKept
<1>3. CASE (\E c \in HostCalls : HostSaves(c)) /\ UNCHANGED certificateVars
  <2>1. PICK c \in HostCalls : Write(c, "session") /\ UNCHANGED <<attempt, accounts>>
    BY <1>3 DEF HostSaves, linkVars
  <2>2. UNCHANGED <<request, fetch, crossed, overlapped>>
    BY <1>3 DEF certificateVars, historyVars
  <2>3. memory'["account"] = memory["account"]
    BY <2>1, <2>2, OtherWritten, CallsAndSlots
  <2> QED
    BY <2>1, <2>2, <2>3, FlightsKept
<1>4. CASE DeviceStops
  <2>1. /\ UNCHANGED <<accounts, crossed, overlapped>> /\ \A k \in Keys : fetch'[k].pc = "none"
        /\ request' = [r \in Requests |-> IF request[r].pc = "waiting"
                         THEN [request[r] EXCEPT !.pc = "done"] ELSE request[r]]
    BY <1>4 DEF DeviceStops, DeviceCrash, NoFetch, historyVars
  <2>2. /\ request' \in [Requests -> Request]
        /\ \A r \in Requests : request'[r].key = request[r].key /\ request'[r].got = request[r].got
    BY <2>1 DEF CertificatesInv, Request
  <2>3. CertificatesAreOwn'
    BY <2>1, <2>2 DEF CertificatesInv, CertificatesAreOwn
  <2> QED
    BY <2>1, <2>2, <2>3 DEF CertificatesInv, OwnCertificates
<1>5. CASE UNCHANGED deviceVars
  <2>1. UNCHANGED <<request, fetch, crossed, overlapped, accounts, memory>>
    BY <1>5 DEF deviceVars, certificateVars, historyVars, linkVars, vars
  <2> QED
    BY <2>1, FlightsKept
<1> QED
  BY <1>1, <1>2, <1>3, <1>4, <1>5, LinkingOwn, GetOwn, FetchOwn DEF DeviceNext

(* Unless a linking crosses a fetch, nobody is given the certificate of    *)
(* another account or mode.                                                *)
THEOREM CertificatesOwn == DeviceSpec => []CertificatesAreOwn
<1>1. CertificatesInv => CertificatesAreOwn
  BY DEF CertificatesInv
<1> QED
  BY <1>1, CertificatesInit, CertificatesStep, OwnersInvariant, PTL DEF DeviceSpec

-----------------------------------------------------------------------------
(* The keys beside the account.                                            *)

KeySlots == {"signedPreKey", "kyberPreKey"}

(* Contents have the keys of a linking, or newer ones.                     *)
KeyedFor(owner, contents) ==
  owner # 0 =>
    /\ owner \in linked
    /\ \E k \in linked : /\ k >= owner /\ Stamp(k, "identity") > 0
                         /\ contents["identity"] = Stamp(k, "identity")
    /\ \A slot \in KeySlots : /\ Stamp(owner, slot) > 0
                              /\ contents[slot] >= Stamp(owner, slot)

Keyed(contents) == KeyedFor(Owner(contents), contents)

Held(slot) == Stamp(attempt, slot) > 0 /\ memory[slot] >= Stamp(attempt, slot)

(* Memory, the file and a snapshot have the keys of their accounts, memory *)
(* also those of the account that a cache write has read; and a linking    *)
(* that is storing has in memory what it has stored so far.                *)
KeysInv ==
  /\ linked \subseteq Attempts
  /\ \A c \in Calls : call[c].pc = "idle" => call[c].stamp = 0
  /\ Keyed(memory) /\ Keyed(file.of)
  /\ phase \in {"write", "rename"} => Keyed(temporary.of)
  /\ \A k \in Keys : fetch[k].pc = "cache" => KeyedFor(fetch[k].account.owner, memory)
  /\ link \in LinkSlots =>
       /\ repository = "open" /\ attempt \in linked
       /\ Stamp(attempt, "identity") > 0 /\ memory["identity"] = Stamp(attempt, "identity")
  /\ link \in {"signedPreKey", "kyberPreKey", "account"} => Held("signedPreKey")
  /\ link \in {"kyberPreKey", "account"} => Held("kyberPreKey")

(* What every step keeps: stamps of calls made, linkings accepted, records *)
(* of accounts written.                                                    *)
Carried ==
  /\ \A c \in Calls : call[c].stamp > 0 => call'[c].stamp = call[c].stamp
  /\ \A c \in Calls : call'[c].pc = "idle" => call[c].pc = "idle" /\ call'[c].stamp = call[c].stamp
  /\ linked \subseteq linked' /\ linked' \subseteq Attempts
  /\ \A i \in 0 .. clock : accounts'[i] = accounts[i]

LEMMA StampsCarried ==
  ASSUME StoreInv, [Next]_vars
  PROVE  /\ \A c \in Calls : call[c].pc # "idle" => call'[c].stamp = call[c].stamp
         /\ \A c \in Calls : call'[c].pc = "idle" => call[c] = call'[c]
<1>0. TypeOK /\ ChainInv /\ OpeningInv
  BY DEF StoreInv
<1> USE <1>0, PersistsAre
<1>1. CASE Settle \/ Fail
  <2>1. call'[Head(queue)].pc # "idle" /\ Head(queue) \in Persists
    BY <1>1, HeadLeaves, HeadRuns DEF Settle, Fail, TypeOK, Call
  <2> QED
    BY <1>1, <2>1, HeadKeepsChange, HeadLeaves
<1>2. CASE Crash
  BY <1>2 DEF Crash, TypeOK, Call
<1>3. ASSUME NEW c \in Calls, NEW s \in Slots, Write(c, s)
      PROVE  /\ \A d \in Calls : call[d].pc # "idle" => call'[d].stamp = call[d].stamp
             /\ \A d \in Calls : call'[d].pc = "idle" => call[d] = call'[d]
  <2>1. call[c].pc = "idle" /\ call'[c].pc = "waiting"
    BY <1>3, WriteEnters
  <2> QED
    BY <1>3, <2>1, WriteEnters
<1>4. CASE Open(TRUE)
  BY <1>4, OpenEnters
<1>5. CASE Open(FALSE) \/ BeginWrite \/ EndWrite \/ Rename \/ UNCHANGED vars
  BY <1>5 DEF Open, BeginWrite, EndWrite, Rename, vars
<1> QED
  BY <1>1, <1>2, <1>3, <1>4, <1>5 DEF Next, Persisting

LEMMA KeyedStays ==
  ASSUME Carried, OwnersInv, KeysInv, NEW X, X["account"] \in 0 .. clock, Keyed(X)
  PROVE  Keyed(X)'
<1>1. Owner(X)' = Owner(X)
  BY DEF Owner, AccountAt, Carried
<1>2. \A k \in linked, slot \in LinkSlots :
        Stamp(k, slot) > 0 => Stamp(k, slot)' = Stamp(k, slot)
  BY CallsAndSlots DEF Carried, KeysInv, Stamp
<1> QED
  BY <1>1, <1>2 DEF Keyed, KeyedFor, Carried, KeySlots, LinkSlots

LEMMA StepCarries ==
  ASSUME OwnersInv, KeysInv, [DeviceNext]_deviceVars
  PROVE  Carried
<1>0. StoreInv /\ TypeOK /\ ClockInv /\ LinkShape /\ AccountsOK
  BY DEF OwnersInv, StoreInv
<1>1. /\ \A c \in Calls : call[c].pc # "idle" => call'[c].stamp = call[c].stamp
      /\ \A c \in Calls : call'[c].pc = "idle" => call[c] = call'[c]
  BY <1>0, DeviceStepsStore, StampsCarried
<1>2. \/ UNCHANGED accounts
      \/ \E account : accounts' = [accounts EXCEPT ![clock'] = account] /\ clock' = clock + 1
  BY DEF DeviceNext, Linking, NewSession, BeginLinking, LinkStep, LinkConnects, LinkAccepted,
         LinkFails, IdentityStored, SignedPreKeyStored, KyberPreKeyStored, AccountStored,
         LinkWriteRejects, LinkDisconnects, StoreNext, Get, FetchStep, CertificateConnects,
         CertificateArrives, CachesCertificate, CertificateFails, CachePersisted,
         CertificateDisconnects, SessionStep, StoreStep, HostSaves, DeviceStops, DeviceCrash,
         Write, deviceVars, linkVars
<1>3. \A i \in 0 .. clock : accounts'[i] = accounts[i]
  BY <1>0, <1>2, OwnerTypes DEF AccountsOK
<1>4. \/ UNCHANGED linked
      \/ linked' = linked \cup {attempt} /\ attempt \in Attempts
  <2>1. CASE LinkAccepted \/ LinkFails
    <3>1. attempt \in Attempts
      BY <1>0, <2>1, CallsAndSlots DEF LinkAccepted, LinkFails, LinkShape, Attempts
    <3> QED
      BY <2>1, <3>1 DEF LinkAccepted, LinkFails
  <2>2. CASE ~(LinkAccepted \/ LinkFails)
    BY <2>2
    DEF DeviceNext, Linking, NewSession, BeginLinking, LinkStep, LinkConnects,
        IdentityStored, SignedPreKeyStored, KyberPreKeyStored, AccountStored,
        LinkWriteRejects, LinkDisconnects, Get, FetchStep, CertificateConnects,
        CertificateArrives, CachesCertificate, CertificateFails, CachePersisted,
        CertificateDisconnects, SessionStep, StoreStep, HostSaves, DeviceStops, DeviceCrash,
        deviceVars, linkVars
  <2> QED
    BY <2>1, <2>2
<1> QED
  BY <1>1, <1>3, <1>4 DEF Carried, KeysInv

LEMMA DiskKeyed ==
  ASSUME Carried, OwnersInv, KeysInv, UNCHANGED <<file, temporary>>,
         phase' \in {"write", "rename"} => phase \in {"write", "rename"}
  PROVE  /\ Keyed(file.of)'
         /\ phase' \in {"write", "rename"} => Keyed(temporary.of)'
<1>1. file.of["account"] \in 0 .. clock /\ temporary.of["account"] \in 0 .. clock
  BY OwnerTypes DEF OwnersInv, StoreInv
<1>2. Keyed(file.of)'
  BY <1>1, KeyedStays DEF KeysInv, Keyed, KeyedFor, Owner, AccountAt
<1>3. phase' \in {"write", "rename"} => Keyed(temporary.of)'
  BY <1>1, KeyedStays DEF KeysInv, Keyed, KeyedFor, Owner, AccountAt
<1> QED
  BY <1>2, <1>3

(* A change of a key, or of something else than key and identity.          *)
LEMMA KeysGrow ==
  ASSUME Carried, OwnersInv, KeysInv, NEW n, KeyedFor(n, memory),
         memory'["identity"] = memory["identity"],
         \A slot \in KeySlots : memory'[slot] \in Nat /\ memory'[slot] >= memory[slot]
  PROVE  KeyedFor(n, memory)'
<1>0. TypeOK
  BY DEF OwnersInv, StoreInv
<1>1. KeySlots \subseteq Slots /\ KeySlots \subseteq LinkSlots
  BY CallsAndSlots DEF KeySlots, LinkSlots
<1>2. \A k \in linked, slot \in LinkSlots :
        Stamp(k, slot) > 0 => Stamp(k, slot)' = Stamp(k, slot)
  BY CallsAndSlots DEF Carried, KeysInv, Stamp
<1>3. \A k \in linked, slot \in LinkSlots : Stamp(k, slot) \in Nat
  BY <1>0, Types, CallsAndSlots, PersistsAre DEF KeysInv, Stamp
<1>4. \A slot \in KeySlots : memory[slot] \in Nat
  BY <1>0, <1>1, Types
<1> SUFFICES ASSUME n # 0
             PROVE  KeyedFor(n, memory)'
  BY DEF KeyedFor
<1>5. /\ n \in linked
      /\ \A slot \in KeySlots : Stamp(n, slot) > 0 /\ memory[slot] >= Stamp(n, slot)
  BY DEF KeyedFor
<1>6. \A slot \in KeySlots : Stamp(n, slot)' > 0 /\ memory'[slot] >= Stamp(n, slot)'
  BY <1>1, <1>2, <1>3, <1>4, <1>5
<1>7. PICK k \in linked : /\ k >= n /\ Stamp(k, "identity") > 0
                          /\ memory["identity"] = Stamp(k, "identity")
  BY DEF KeyedFor
<1>8. Stamp(k, "identity")' = Stamp(k, "identity")
  BY <1>2, <1>7 DEF LinkSlots
<1> QED
  BY <1>5, <1>6, <1>7, <1>8 DEF KeyedFor, Carried

LEMMA MemoryKeyed ==
  ASSUME Carried, OwnersInv, KeysInv, Owner(memory)' = Owner(memory),
         memory'["identity"] = memory["identity"],
         \A slot \in KeySlots : memory'[slot] \in Nat /\ memory'[slot] >= memory[slot]
  PROVE  Keyed(memory)'
<1>1. KeyedFor(Owner(memory), memory)
  BY DEF KeysInv, Keyed
<1> QED
  BY <1>1, KeysGrow DEF Keyed, KeyedFor

(* The same of the accounts that cache writes have read.                   *)
LEMMA ReadKeyed ==
  ASSUME Carried, OwnersInv, KeysInv,
         \A k \in Keys : fetch'[k].pc = "cache" =>
           fetch[k].pc = "cache" /\ fetch'[k].account = fetch[k].account,
         repository = "open" =>
           /\ memory'["identity"] = memory["identity"]
           /\ \A slot \in KeySlots : memory'[slot] \in Nat /\ memory'[slot] >= memory[slot]
  PROVE  \A k \in Keys : fetch'[k].pc = "cache" =>
           KeyedFor(fetch[k].account.owner, memory)'
<1> SUFFICES ASSUME NEW k \in Keys, fetch'[k].pc = "cache"
             PROVE  KeyedFor(fetch[k].account.owner, memory)'
  OBVIOUS
<1>1. /\ fetch[k].pc = "cache" /\ fetch'[k].account = fetch[k].account
      /\ KeyedFor(fetch[k].account.owner, memory) /\ repository = "open"
  BY DEF KeysInv, OwnersInv, FetchesOK
<1> QED
  BY <1>1, KeysGrow DEF KeyedFor

LEMMA BlankKeyed == ASSUME Carried, OwnersInv, memory'["account"] = 0 PROVE Keyed(memory)'
<1>1. Owner(memory)' = 0
  BY OwnerTypes DEF OwnersInv, StoreInv, AccountsOK, Carried, Owner, AccountAt
<1> QED
  BY <1>1 DEF Keyed, KeyedFor

(* A linking that is storing goes on while others change what is theirs.   *)
LEMMA ProgressKept ==
  ASSUME Carried, OwnersInv, KeysInv, link' \notin LinkSlots \/ UNCHANGED <<link, attempt>>,
         repository = "open" /\ link' \in LinkSlots =>
           /\ repository' = "open" /\ memory'["identity"] = memory["identity"]
           /\ \A slot \in KeySlots : memory'[slot] \in Nat /\ memory'[slot] >= memory[slot]
  PROVE  /\ link' \in LinkSlots =>
              /\ repository' = "open" /\ attempt' \in linked'
              /\ Stamp(attempt, "identity")' > 0
              /\ memory'["identity"] = Stamp(attempt, "identity")'
         /\ link' \in {"signedPreKey", "kyberPreKey", "account"} => Held("signedPreKey")'
         /\ link' \in {"kyberPreKey", "account"} => Held("kyberPreKey")'
<1>0. TypeOK
  BY DEF OwnersInv, StoreInv
<1> SUFFICES ASSUME link \in LinkSlots, link' \in LinkSlots, UNCHANGED <<link, attempt>>
             PROVE  /\ repository' = "open" /\ attempt' \in linked'
                    /\ Stamp(attempt, "identity")' > 0
                    /\ memory'["identity"] = Stamp(attempt, "identity")'
                    /\ link' \in {"signedPreKey", "kyberPreKey", "account"}
                         => Held("signedPreKey")'
                    /\ link' \in {"kyberPreKey", "account"} => Held("kyberPreKey")'
  BY DEF LinkSlots
<1>1. /\ repository' = "open" /\ attempt \in linked /\ attempt' \in linked'
      /\ Stamp(attempt, "identity") > 0 /\ memory["identity"] = Stamp(attempt, "identity")
      /\ memory'["identity"] = memory["identity"]
  BY DEF KeysInv, Carried
<1>2. \A slot \in LinkSlots :
        /\ Stamp(attempt, slot) \in Nat
        /\ Stamp(attempt, slot) > 0 => Stamp(attempt, slot)' = Stamp(attempt, slot)
  BY <1>0, <1>1, Types, CallsAndSlots, PersistsAre DEF Carried, KeysInv, Stamp
<1>3. \A slot \in KeySlots : /\ memory[slot] \in Nat /\ memory'[slot] \in Nat
                             /\ memory'[slot] >= memory[slot]
  BY <1>0, <1>1, Types, CallsAndSlots DEF KeySlots, LinkSlots, KeysInv
<1>4. \A slot \in KeySlots : Held(slot) => Held(slot)'
  BY <1>2, <1>3 DEF Held, KeySlots, LinkSlots
<1> QED
  BY <1>1, <1>2, <1>4 DEF KeysInv, KeySlots, LinkSlots

LEMMA SameOwner ==
  ASSUME Carried, OwnersInv, memory'["account"] = memory["account"]
  PROVE  Owner(memory)' = Owner(memory)
  BY OwnerTypes DEF OwnersInv, StoreInv, Owner, AccountAt, Carried

(* The parts that are about single calls and attempts.                     *)
LEMMA CallsKept ==
  ASSUME Carried, KeysInv
  PROVE  linked' \subseteq Attempts /\ \A c \in Calls : call'[c].pc = "idle" => call'[c].stamp = 0
  BY DEF Carried, KeysInv

LEMMA PersistKeys ==
  ASSUME Carried, OwnersInv, KeysInv, UNCHANGED <<link, attempt, fetch>>,
         BeginWrite \/ EndWrite \/ Rename \/ Settle \/ Fail
  PROVE  KeysInv'
<1>0. /\ TypeOK /\ ChainInv /\ OpeningInv /\ ClockInv /\ SnapshotInv /\ LinkShape /\ AccountsOK
      /\ Keyed(memory) /\ Keyed(file.of)
      /\ phase \in {"write", "rename"} => Keyed(temporary.of)
  BY DEF OwnersInv, StoreInv, KeysInv
<1>1. /\ memory["account"] \in 0 .. clock /\ file.of["account"] \in 0 .. clock
      /\ temporary.of["account"] \in 0 .. clock
      /\ \A slot \in KeySlots : memory[slot] \in Nat
  BY <1>0, OwnerTypes, Types, CallsAndSlots DEF KeySlots, LinkSlots
<1>2. Keyed(memory)' /\ (repository = "open" => UNCHANGED <<repository, memory>>)
  <2>1. CASE UNCHANGED memory
    <3>1. Keyed(memory)'
      BY <1>1, <2>1, SameOwner, MemoryKeyed
    <3>2. repository = "open" => UNCHANGED repository
      BY DEF BeginWrite, EndWrite, Rename, Settle, Fail
    <3> QED
      BY <2>1, <3>1, <3>2
  <2>2. CASE memory' = Blank /\ repository # "open"
    BY <1>0, <2>2, BlankKeyed, OwnerTypes DEF Blank
  <2> QED
    BY <2>1, <2>2 DEF BeginWrite, EndWrite, Rename, Settle, Fail
<1>3. Keyed(file.of)' /\ (phase' \in {"write", "rename"} => Keyed(temporary.of)')
  <2>1. CASE BeginWrite
    <3>1. temporary'.of = memory /\ UNCHANGED file
      BY <2>1 DEF BeginWrite, Snapshot
    <3>2. Keyed(file.of)'
      BY <1>0, <1>1, <3>1, KeyedStays DEF Keyed, KeyedFor, Owner, AccountAt
    <3>3. Keyed(temporary.of)'
      BY <1>0, <1>1, <3>1, KeyedStays DEF Keyed, KeyedFor, Owner, AccountAt
    <3> QED
      BY <3>2, <3>3
  <2>2. CASE EndWrite
    <3>1. temporary'.of = temporary.of /\ UNCHANGED file /\ phase = "write"
      BY <1>0, <2>2 DEF EndWrite, TypeOK, Disk
    <3>2. Keyed(file.of)'
      BY <1>0, <1>1, <3>1, KeyedStays DEF Keyed, KeyedFor, Owner, AccountAt
    <3>3. Keyed(temporary.of)'
      BY <1>0, <1>1, <3>1, KeyedStays DEF Keyed, KeyedFor, Owner, AccountAt
    <3> QED
      BY <3>2, <3>3
  <2>3. CASE Rename
    <3>1. file' = temporary /\ phase = "rename" /\ phase' = "settle"
      BY <2>3 DEF Rename
    <3>2. Keyed(file.of)'
      BY <1>0, <1>1, <3>1, KeyedStays DEF Keyed, KeyedFor, Owner, AccountAt
    <3> QED
      BY <3>1, <3>2
  <2>4. CASE Settle \/ Fail
    BY <2>4, DiskKeyed DEF Settle, Fail, Dequeue, disk
  <2> QED
    BY <2>1, <2>2, <2>3, <2>4
<1>4. /\ link' \in LinkSlots =>
           /\ repository' = "open" /\ attempt' \in linked'
           /\ Stamp(attempt, "identity")' > 0
           /\ memory'["identity"] = Stamp(attempt, "identity")'
      /\ link' \in {"signedPreKey", "kyberPreKey", "account"} => Held("signedPreKey")'
      /\ link' \in {"kyberPreKey", "account"} => Held("kyberPreKey")'
  BY <1>1, <1>2, ProgressKept
<1>5. \A k \in Keys : fetch'[k].pc = "cache" => KeyedFor(fetch[k].account.owner, memory)'
  BY <1>1, <1>2, ReadKeyed
<1> QED
  BY <1>2, <1>3, <1>4, <1>5, CallsKept DEF KeysInv

(* A setter of something else than the identity.                           *)
LEMMA WriteKeys ==
  ASSUME Carried, OwnersInv, KeysInv, NEW c, NEW s \in Slots \ {"identity"}, Write(c, s),
         Keyed(memory)',
         \A k \in Keys : fetch'[k].pc = "cache" =>
           fetch[k].pc = "cache" /\ fetch'[k].account = fetch[k].account,
         link' \notin LinkSlots \/ UNCHANGED <<link, attempt>>
  PROVE  KeysInv'
<1>0. TypeOK /\ ClockInv /\ ChainInv
  BY DEF OwnersInv, StoreInv
<1>1. /\ repository = "open" /\ repository' = "open" /\ UNCHANGED <<file, temporary>>
      /\ memory' = [memory EXCEPT ![s] = clock + 1]
      /\ phase' \in {"write", "rename"} => phase \in {"write", "rename"}
  BY DEF Write, Enqueue, disk
<1>2. /\ memory'["identity"] = memory["identity"]
      /\ \A slot \in KeySlots : memory'[slot] \in Nat /\ memory'[slot] >= memory[slot]
  BY <1>0, <1>1, Types, CallsAndSlots DEF KeySlots, LinkSlots, ClockInv
<1>3. Keyed(memory)'
  OBVIOUS
<1>4. Keyed(file.of)' /\ (phase' \in {"write", "rename"} => Keyed(temporary.of)')
  BY <1>1, DiskKeyed
<1>5. /\ link' \in LinkSlots =>
           /\ repository' = "open" /\ attempt' \in linked'
           /\ Stamp(attempt, "identity")' > 0
           /\ memory'["identity"] = Stamp(attempt, "identity")'
      /\ link' \in {"signedPreKey", "kyberPreKey", "account"} => Held("signedPreKey")'
      /\ link' \in {"kyberPreKey", "account"} => Held("kyberPreKey")'
  BY <1>1, <1>2, ProgressKept
<1>6. \A k \in Keys : fetch'[k].pc = "cache" => KeyedFor(fetch[k].account.owner, memory)'
  BY <1>2, ReadKeyed
<1> QED
  BY <1>3, <1>4, <1>5, <1>6, CallsKept DEF KeysInv

(* A step that leaves the repository alone.                                *)
LEMMA QuietKeys ==
  ASSUME Carried, OwnersInv, KeysInv, UNCHANGED vars,
         \A k \in Keys : fetch'[k].pc = "cache" =>
           fetch[k].pc = "cache" /\ fetch'[k].account = fetch[k].account,
         link' \notin LinkSlots \/ UNCHANGED <<link, attempt>>
  PROVE  KeysInv'
<1>0. TypeOK
  BY DEF OwnersInv, StoreInv
<1>1. UNCHANGED <<repository, memory, file, temporary, phase>>
  BY DEF vars
<1>2. \A slot \in KeySlots : memory[slot] \in Nat
  BY <1>0, Types, CallsAndSlots DEF KeySlots, LinkSlots
<1>3. Keyed(memory)'
  BY <1>1, <1>2, SameOwner, MemoryKeyed
<1>4. Keyed(file.of)' /\ (phase' \in {"write", "rename"} => Keyed(temporary.of)')
  BY <1>1, DiskKeyed
<1>5. /\ link' \in LinkSlots =>
           /\ repository' = "open" /\ attempt' \in linked'
           /\ Stamp(attempt, "identity")' > 0
           /\ memory'["identity"] = Stamp(attempt, "identity")'
      /\ link' \in {"signedPreKey", "kyberPreKey", "account"} => Held("signedPreKey")'
      /\ link' \in {"kyberPreKey", "account"} => Held("kyberPreKey")'
  BY <1>1, <1>2, ProgressKept
<1>6. \A k \in Keys : fetch'[k].pc = "cache" => KeyedFor(fetch[k].account.owner, memory)'
  BY <1>1, <1>2, ReadKeyed
<1> QED
  BY <1>3, <1>4, <1>5, <1>6, CallsKept DEF KeysInv

(* A start reads what is on file, or draws an identity of its own.         *)
LEMMA OpenKeys ==
  ASSUME Carried, OwnersInv, KeysInv, NEW b \in BOOLEAN, Open(b), UNCHANGED <<link, attempt, fetch>>
  PROVE  KeysInv'
<1>0. TypeOK /\ ChainInv /\ OpeningInv /\ ClockInv /\ LinkShape /\ AccountsOK
  BY DEF OwnersInv, StoreInv
<1>1. /\ UNCHANGED <<file, temporary>> /\ repository = "closed"
      /\ phase' \notin {"write", "rename"}
  BY <1>0 DEF Open, Enqueue, ChainInv, OpeningInv, disk
<1>2. link' \notin LinkSlots
  BY <1>1 DEF KeysInv
<1>3. Keyed(file.of)'
  BY <1>1, DiskKeyed
<1>4. Keyed(memory)'
  <2>1. CASE memory' = file.of
    BY <1>1, <1>3, <2>1 DEF Keyed, KeyedFor, Owner, AccountAt
  <2>2. CASE memory' = Initial(clock + 1)
    <3>1. memory'["account"] = 0
      BY <1>0, <2>2, IdentitySlot, OwnerTypes DEF Initial, Blank
    <3> QED
      BY <3>1, BlankKeyed
  <2> QED
    BY <2>1, <2>2 DEF Open, ReadStoreFile
<1>5. \A k \in Keys : fetch'[k].pc # "cache"
  BY <1>1 DEF OwnersInv, FetchesOK
<1> QED
  BY <1>1, <1>2, <1>3, <1>4, <1>5, CallsKept DEF KeysInv, LinkSlots

(* A setter of linkSignalDevice.                                           *)
LEMMA LinkWrites ==
  ASSUME OwnersInv, KeysInv, link \notin {"idle", "done"}, UNCHANGED attempt,
         NEW s \in LinkSlots, Write(<<"link", attempt, s>>, s)
  PROVE  /\ attempt \in Attempts /\ repository' = "open" /\ UNCHANGED <<file, temporary>>
         /\ memory'[s] = clock + 1 /\ Stamp(attempt, s)' = clock + 1 /\ clock' = clock + 1
         /\ \A slot \in Slots : slot # s => memory'[slot] = memory[slot]
         /\ clock \in Nat /\ memory[s] \in Nat /\ memory[s] <= clock
         /\ phase' \in {"write", "rename"} => phase \in {"write", "rename"}
<1>0. TypeOK /\ ChainInv /\ ClockInv /\ LinkShape
  BY DEF OwnersInv, StoreInv
<1>1. attempt \in Attempts
  BY <1>0, CallsAndSlots DEF LinkShape, Attempts
<1>2. <<"link", attempt, s>> \in Calls /\ s \in Slots
  BY <1>1, CallsAndSlots
<1>3. call'[<<"link", attempt, s>>].stamp = clock + 1
  BY <1>0, <1>2, WriteEnters
<1>4. /\ repository' = "open" /\ UNCHANGED <<file, temporary>> /\ clock' = clock + 1
      /\ memory' = [memory EXCEPT ![s] = clock + 1]
      /\ phase' \in {"write", "rename"} => phase \in {"write", "rename"}
  BY DEF Write, Enqueue, disk
<1>5. clock \in Nat /\ memory[s] \in Nat /\ memory[s] <= clock /\ DOMAIN memory = Slots
  BY <1>0, <1>2, Types DEF ClockInv
<1> QED
  BY <1>1, <1>2, <1>3, <1>4, <1>5 DEF Stamp

LEMMA AcceptedKeys ==
  ASSUME Carried, OwnersInv, KeysInv, LinkAccepted, Linking
  PROVE  KeysInv'
<1>0. TypeOK /\ ClockInv /\ LinkShape /\ AccountsOK /\ OwnersOK
  BY DEF OwnersInv, StoreInv
<1>1. /\ link = "put" /\ link' = "identity" /\ UNCHANGED attempt
      /\ attempt \in linked' /\ Write(<<"link", attempt, "identity">>, "identity")
  BY DEF LinkAccepted, StoreNext
<1>2. /\ attempt \in Attempts /\ repository' = "open" /\ UNCHANGED <<file, temporary>>
      /\ memory'["identity"] = clock + 1 /\ Stamp(attempt, "identity")' = clock + 1
      /\ \A slot \in Slots : slot # "identity" => memory'[slot] = memory[slot]
      /\ clock \in Nat
      /\ phase' \in {"write", "rename"} => phase \in {"write", "rename"}
  BY <1>1, LinkWrites DEF LinkSlots
<1>3. Owner(memory)' = Owner(memory)
  BY <1>0, <1>2, SameOwner, OwnerTypes
<1>4. ASSUME NEW n, KeyedFor(n, memory), n <= attempt
      PROVE  KeyedFor(n, memory)'
  <2> SUFFICES ASSUME n # 0 PROVE KeyedFor(n, memory)'
    BY DEF KeyedFor
  <2>1. n \in linked
    BY <1>4 DEF KeyedFor
  <2>2. \A slot \in KeySlots : /\ slot \in LinkSlots /\ memory'[slot] = memory[slot]
                               /\ Stamp(n, slot) > 0 /\ memory[slot] >= Stamp(n, slot)
    BY <1>2, <1>4, CallsAndSlots DEF KeyedFor, KeySlots, LinkSlots
  <2>3. \A slot \in KeySlots : Stamp(n, slot)' = Stamp(n, slot)
    BY <2>1, <2>2, CallsAndSlots DEF Carried, KeysInv, Stamp
  <2>4. n \in linked' /\ attempt' >= n
    BY <1>0, <1>1, <1>4, <2>1, OwnerTypes DEF Carried, KeysInv, Attempts
  <2>5. \A slot \in KeySlots : Stamp(n, slot)' > 0 /\ memory'[slot] >= Stamp(n, slot)'
    BY <2>2, <2>3
  <2>6. Stamp(attempt, "identity")' > 0 /\ memory'["identity"] = Stamp(attempt, "identity")'
    BY <1>2
  <2> QED
    BY <1>1, <2>4, <2>5, <2>6 DEF KeyedFor, Stamp
<1>7. Keyed(memory)'
  <2>1. KeyedFor(Owner(memory), memory) /\ Owner(memory) <= attempt
    BY <1>0 DEF KeysInv, Keyed, OwnersOK
  <2> QED
    BY <1>3, <1>4, <2>1 DEF Keyed, KeyedFor
<1>8. \A k \in Keys : fetch'[k].pc = "cache" => KeyedFor(fetch[k].account.owner, memory)'
  <2>1. UNCHANGED fetch
    BY DEF Linking
  <2>2. \A k \in Keys : fetch[k].pc = "cache" =>
          KeyedFor(fetch[k].account.owner, memory) /\ fetch[k].account.owner <= attempt
    BY DEF KeysInv, OwnersInv, FetchesOK
  <2> QED
    BY <1>4, <2>1, <2>2 DEF KeyedFor
<1>5. Keyed(file.of)' /\ (phase' \in {"write", "rename"} => Keyed(temporary.of)')
  BY <1>2, DiskKeyed
<1>6. Stamp(attempt, "identity")' > 0 /\ memory'["identity"] = Stamp(attempt, "identity")'
  BY <1>2
<1> QED
  BY <1>1, <1>2, <1>5, <1>6, <1>7, <1>8, CallsKept DEF KeysInv

(* The stamps of a linking that is storing stay.                           *)
LEMMA AttemptCarried ==
  ASSUME Carried, OwnersInv, KeysInv, link \in LinkSlots, UNCHANGED attempt
  PROVE  /\ attempt \in linked /\ attempt' \in linked'
         /\ Stamp(attempt, "identity") > 0 /\ memory["identity"] = Stamp(attempt, "identity")
         /\ \A slot \in LinkSlots :
              /\ Stamp(attempt, slot) \in Nat
              /\ Stamp(attempt, slot) > 0 => Stamp(attempt, slot)' = Stamp(attempt, slot)
<1>0. TypeOK
  BY DEF OwnersInv, StoreInv
<1> QED
  BY <1>0, Types, CallsAndSlots, PersistsAre DEF Carried, KeysInv, Stamp

(* The two prekeys.                                                        *)
LEMMA PreKeyKeys ==
  ASSUME Carried, OwnersInv, KeysInv, Linking,
         IdentityStored \/ SignedPreKeyStored
  PROVE  KeysInv'
<1>0. TypeOK /\ ClockInv /\ LinkShape /\ AccountsOK /\ OwnersOK
  BY DEF OwnersInv, StoreInv
<1>1. PICK s \in KeySlots :
        /\ link' = s /\ UNCHANGED attempt /\ Write(<<"link", attempt, s>>, s)
        /\ \/ link = "identity" /\ s = "signedPreKey"
           \/ link = "signedPreKey" /\ s = "kyberPreKey"
  BY DEF IdentityStored, SignedPreKeyStored, Resolved, StoreNext, KeySlots
<1>2. s \in LinkSlots /\ s \in Slots /\ s # "identity" /\ s # "account" /\ link \in LinkSlots
      /\ link \notin {"idle", "done"}
  BY <1>1, CallsAndSlots DEF KeySlots, LinkSlots
<1>3. /\ repository' = "open" /\ UNCHANGED <<file, temporary>>
      /\ memory'[s] = clock + 1 /\ Stamp(attempt, s)' = clock + 1
      /\ \A slot \in Slots : slot # s => memory'[slot] = memory[slot]
      /\ clock \in Nat /\ memory[s] \in Nat /\ memory[s] <= clock
      /\ phase' \in {"write", "rename"} => phase \in {"write", "rename"}
  BY <1>1, <1>2, LinkWrites
<1>4. /\ memory'["identity"] = memory["identity"] /\ memory'["account"] = memory["account"]
      /\ \A slot \in KeySlots : memory[slot] \in Nat /\ memory'[slot] \in Nat
                                /\ memory'[slot] >= memory[slot]
  BY <1>0, <1>2, <1>3, Types, CallsAndSlots DEF KeySlots, LinkSlots
<1>5. Keyed(memory)'
  BY <1>4, SameOwner, MemoryKeyed
<1>6. Keyed(file.of)' /\ (phase' \in {"write", "rename"} => Keyed(temporary.of)')
  BY <1>3, DiskKeyed
<1>7. /\ attempt \in linked /\ attempt' \in linked'
      /\ Stamp(attempt, "identity") > 0 /\ memory["identity"] = Stamp(attempt, "identity")
      /\ \A slot \in LinkSlots :
           /\ Stamp(attempt, slot) \in Nat
           /\ Stamp(attempt, slot) > 0 => Stamp(attempt, slot)' = Stamp(attempt, slot)
  BY <1>1, <1>2, AttemptCarried
<1>8. /\ Stamp(attempt, "identity")' > 0 /\ memory'["identity"] = Stamp(attempt, "identity")'
  BY <1>4, <1>7 DEF LinkSlots
<1>9. Held(s)'
  BY <1>3 DEF Held
<1>10. Held("signedPreKey")'
  <2>1. CASE link = "signedPreKey"
    <3>1. Held("signedPreKey")
      BY <2>1 DEF KeysInv
    <3>2. Stamp(attempt, "signedPreKey")' = Stamp(attempt, "signedPreKey")
      BY <1>7, <3>1 DEF Held, LinkSlots
    <3> QED
      BY <1>4, <1>7, <3>1, <3>2 DEF Held, KeySlots, LinkSlots
  <2> QED
    BY <1>1, <1>9, <2>1
<1>11. \A k \in Keys : fetch'[k].pc = "cache" => KeyedFor(fetch[k].account.owner, memory)'
  BY <1>4, ReadKeyed DEF Linking
<1> QED
  BY <1>1, <1>3, <1>5, <1>6, <1>7, <1>8, <1>9, <1>10, <1>11, CallsKept
  DEF KeysInv, KeySlots, Linking

(* The account comes when identity and prekeys are there.                  *)
LEMMA AccountKeys ==
  ASSUME Carried, OwnersInv, KeysInv, Linking, KyberPreKeyStored
  PROVE  KeysInv'
<1>0. TypeOK /\ ClockInv /\ LinkShape /\ AccountsOK /\ OwnersOK
  BY DEF OwnersInv, StoreInv
<1>1. /\ link = "kyberPreKey" /\ link' = "account" /\ UNCHANGED attempt
      /\ Write(<<"link", attempt, "account">>, "account")
      /\ accounts' = [accounts EXCEPT ![clock'] = Account(attempt)]
  BY DEF KyberPreKeyStored, Resolved
<1>2. /\ attempt \in Attempts /\ repository' = "open" /\ UNCHANGED <<file, temporary>>
      /\ memory'["account"] = clock + 1 /\ clock' = clock + 1
      /\ \A slot \in Slots : slot # "account" => memory'[slot] = memory[slot]
      /\ clock \in Nat
      /\ phase' \in {"write", "rename"} => phase \in {"write", "rename"}
  BY <1>1, LinkWrites DEF LinkSlots
<1>3. clock' \in 0 .. MaxChanges
  BY <1>0, <1>1, <1>2, OwnerTypes DEF Write
<1>4. Owner(memory)' = attempt
  BY <1>0, <1>1, <1>2, <1>3 DEF Owner, AccountAt, AccountsOK, Account
<1>5. /\ attempt \in linked /\ attempt' \in linked'
      /\ Stamp(attempt, "identity") > 0 /\ memory["identity"] = Stamp(attempt, "identity")
      /\ \A slot \in LinkSlots :
           /\ Stamp(attempt, slot) \in Nat
           /\ Stamp(attempt, slot) > 0 => Stamp(attempt, slot)' = Stamp(attempt, slot)
  BY <1>1, AttemptCarried DEF LinkSlots
<1>6. /\ Stamp(attempt, "identity")' > 0 /\ memory'["identity"] = Stamp(attempt, "identity")'
  BY <1>2, <1>5, CallsAndSlots DEF LinkSlots
<1>7. \A slot \in KeySlots :
        /\ Stamp(attempt, slot)' > 0 /\ memory'[slot] >= Stamp(attempt, slot)'
  <2>1. \A slot \in KeySlots : Held(slot)
    BY <1>1 DEF KeysInv, KeySlots
  <2>2. \A slot \in KeySlots :
          /\ slot \in LinkSlots /\ memory'[slot] = memory[slot]
          /\ Stamp(attempt, slot)' = Stamp(attempt, slot)
    BY <1>2, <1>5, <2>1, CallsAndSlots DEF Held, KeySlots, LinkSlots
  <2> QED
    BY <2>1, <2>2 DEF Held
<1>8. Keyed(memory)'
  BY <1>1, <1>2, <1>4, <1>5, <1>6, <1>7 DEF Keyed, KeyedFor, Stamp, Attempts
<1>9. Keyed(file.of)' /\ (phase' \in {"write", "rename"} => Keyed(temporary.of)')
  BY <1>2, DiskKeyed
<1>10. Held("signedPreKey")' /\ Held("kyberPreKey")'
  BY <1>7 DEF Held, KeySlots
<1>11. \A k \in Keys : fetch'[k].pc = "cache" => KeyedFor(fetch[k].account.owner, memory)'
  <2>1. /\ memory'["identity"] = memory["identity"]
        /\ \A slot \in KeySlots : memory'[slot] \in Nat /\ memory'[slot] >= memory[slot]
    BY <1>0, <1>2, Types, CallsAndSlots DEF KeySlots, LinkSlots
  <2> QED
    BY <2>1, ReadKeyed DEF Linking
<1> QED
  BY <1>1, <1>2, <1>5, <1>6, <1>8, <1>9, <1>10, <1>11, CallsKept DEF KeysInv, Linking

LEMMA LinkingKeys ==
  ASSUME Carried, OwnersInv, KeysInv, Linking
  PROVE  KeysInv'
<1>1. CASE NewSession \/ BeginLinking \/ LinkConnects \/ LinkFails \/ AccountStored
             \/ LinkWriteRejects \/ LinkDisconnects
  <2>1. UNCHANGED <<vars, fetch>> /\ link' \notin LinkSlots
    BY <1>1
    DEF Linking, NewSession, BeginLinking, LinkConnects, LinkFails, AccountStored,
        LinkWriteRejects, LinkDisconnects, LinkSlots
  <2> QED
    BY <2>1, QuietKeys
<1> QED
  BY <1>1, AcceptedKeys, PreKeyKeys, AccountKeys DEF Linking, LinkStep

(* The account that a cache write writes back finds its keys in memory.    *)
LEMMA FetchKeys ==
  ASSUME Carried, OwnersInv, KeysInv, NEW k \in Keys, FetchStep(k)
  PROVE  KeysInv'
<1>0. TypeOK /\ ClockInv /\ LinkShape /\ AccountsOK
  BY DEF OwnersInv, StoreInv
<1>1. \A l \in Keys : l # k => fetch'[l] = fetch[l]
  BY <1>0, FetchChanges
<1>2. CASE CachesCertificate(k)
  <2>1. /\ Write(CertificateCall(fetch[k].by), "account") /\ UNCHANGED <<link, attempt>>
        /\ fetch[k].pc = "cache" /\ fetch'[k].pc = "persist"
    BY <1>0, <1>2 DEF CachesCertificate, LinkShape, Fetch
  <2>2. "account" \in Slots \ {"identity"}
    BY CallsAndSlots DEF LinkSlots
  <2>3. memory' = [memory EXCEPT !["account"] = clock + 1]
    BY <2>1 DEF Write
  <2>4. /\ memory'["identity"] = memory["identity"]
        /\ \A slot \in KeySlots : memory'[slot] \in Nat /\ memory'[slot] >= memory[slot]
    BY <1>0, <2>3, Types, CallsAndSlots DEF KeySlots, LinkSlots
  <2>5. KeyedFor(fetch[k].account.owner, memory)
    BY <2>1 DEF KeysInv
  <2>6. Keyed(memory)'
    BY <1>2, <2>4, <2>5, KeysGrow, CacheWritten DEF Keyed, KeyedFor
  <2> QED
    BY <1>1, <2>1, <2>2, <2>6, WriteKeys
<1>3. CASE CertificateArrives(k)
  <2>1. /\ UNCHANGED <<vars, link, attempt, linked, accounts>>
        /\ fetch'[k].account = AccountAt(memory)
    BY <1>0, <1>3 DEF CertificateArrives, linkVars, LinkShape, Fetch
  <2>2. /\ UNCHANGED <<repository, memory, file, temporary, phase, call>>
        /\ fetch'[k].account.owner = Owner(memory)
    BY <2>1 DEF vars, Owner
  <2>3. \A l \in Keys : fetch'[l].pc = "cache" =>
          KeyedFor(fetch'[l].account.owner, memory)
    BY <1>1, <2>2 DEF KeysInv, Keyed
  <2> QED
    BY <2>1, <2>2, <2>3
    DEF KeysInv, Keyed, KeyedFor, Held, Stamp, Owner, AccountAt
<1>4. CASE CertificateConnects(k) \/ CertificateFails(k) \/ CachePersisted(k)
             \/ CertificateDisconnects(k)
  <2>1. UNCHANGED <<vars, link, attempt>> /\ fetch'[k].pc # "cache"
    BY <1>0, <1>4, FetchGoesTo
    DEF CertificateConnects, CertificateFails, CachePersisted, CertificateDisconnects,
        linkVars
  <2> QED
    BY <1>1, <2>1, QuietKeys
<1> QED
  BY <1>2, <1>3, <1>4 DEF FetchStep

LEMMA StopKeys ==
  ASSUME Carried, OwnersInv, KeysInv, DeviceStops
  PROVE  KeysInv'
<1>1. /\ UNCHANGED <<file, temporary>> /\ memory' = Blank /\ phase' = "idle" /\ link' = "idle"
      /\ \A k \in Keys : fetch'[k].pc = "none"
  BY NothingFetched DEF DeviceStops, DeviceCrash, Crash, disk
<1>2. memory'["account"] = 0
  BY <1>1, CallsAndSlots DEF Blank, LinkSlots
<1>3. Keyed(memory)' /\ Keyed(file.of)'
  BY <1>1, <1>2, BlankKeyed, DiskKeyed
<1> QED
  BY <1>1, <1>3, CallsKept DEF KeysInv, LinkSlots

LEMMA KeysStep == OwnersInv /\ KeysInv /\ [DeviceNext]_deviceVars => KeysInv'
<1> SUFFICES ASSUME OwnersInv, KeysInv, [DeviceNext]_deviceVars, Carried PROVE KeysInv'
  BY StepCarries
<1>1. CASE \E r \in Requests, m \in Modes : Get(r, m)
  <2>1. UNCHANGED <<vars, link, attempt>>
    BY <1>1 DEF Get, linkVars
  <2>2. \A k \in Keys : fetch'[k].pc = "cache" => fetch'[k] = fetch[k]
    BY <1>1 DEF Get, OwnersInv, LinkShape, Fetch
  <2> QED
    BY <2>1, <2>2, QuietKeys
<1>2. CASE StoreStep /\ UNCHANGED certificateVars
  BY <1>2, OpenKeys, PersistKeys DEF StoreStep, Persisting, linkVars, certificateVars
<1>3. CASE SessionStep /\ UNCHANGED certificateVars
  BY <1>3, QuietKeys DEF SessionStep, linkVars, certificateVars
<1>4. CASE (\E c \in HostCalls : HostSaves(c)) /\ UNCHANGED certificateVars
  <2>1. PICK c \in HostCalls : Write(c, "session") /\ UNCHANGED <<link, attempt, accounts>>
    BY <1>4 DEF HostSaves, linkVars
  <2>2. "session" \in Slots \ {"account"} /\ "session" \in Slots \ {"identity"}
    BY CallsAndSlots
  <2>3. UNCHANGED <<fetch, overlapped>>
    BY <1>4 DEF certificateVars, historyVars
  <2>4. Keyed(memory)'
    <3>0. TypeOK
      BY DEF OwnersInv, StoreInv
    <3>1. memory' = [memory EXCEPT !["session"] = clock + 1]
      BY <2>1 DEF Write
    <3>2. /\ memory'["identity"] = memory["identity"]
          /\ \A slot \in KeySlots : memory'[slot] \in Nat /\ memory'[slot] >= memory[slot]
      BY <3>0, <3>1, Types, CallsAndSlots DEF KeySlots, LinkSlots
    <3> QED
      BY <2>1, <2>2, <2>3, <3>2, OtherWritten, MemoryKeyed
  <2> QED
    BY <2>1, <2>2, <2>3, <2>4, WriteKeys
<1>5. CASE UNCHANGED deviceVars
  BY <1>5, QuietKeys DEF deviceVars, linkVars, certificateVars
<1> QED
  BY <1>1, <1>2, <1>3, <1>4, <1>5, LinkingKeys, FetchKeys, StopKeys DEF DeviceNext

LEMMA KeysInit == DeviceInit => KeysInv
<1> SUFFICES ASSUME DeviceInit PROVE KeysInv
  OBVIOUS
<1>1. linked = {} /\ link = "idle" /\ phase = "idle" /\ repository = "closed"
  BY DEF DeviceInit, Init, LinkInit
<1>2. \A c \in Calls : call[c].stamp = 0
  BY PersistsAre DEF DeviceInit, Init
<1>3. Owner(memory) = 0 /\ Owner(file.of) = 0
  BY CallsAndSlots, StoreAssumption
  DEF DeviceInit, Init, LinkInit, Owner, AccountAt, Account, Blank, Nothing, LinkSlots,
      StoreAssumption
<1>4. \A k \in Keys : fetch[k].pc = "none"
  BY NothingFetched DEF DeviceInit, CertificateInit
<1> QED
  BY <1>1, <1>2, <1>3, <1>4 DEF KeysInv, Keyed, KeyedFor, LinkSlots

(* Whenever the process is killed, the account on file is of a linking     *)
(* that the server has accepted, with the identity of that or a later one  *)
(* and the prekeys beside it.                                              *)
THEOREM CompleteAccounts == DeviceSpec => []AccountIsComplete
<1>1. OwnersInv /\ KeysInv => AccountIsComplete
  BY DEF KeysInv, Keyed, KeyedFor, KeySlots, AccountIsComplete, OnFile, Owner
<1> QED
  BY <1>1, KeysInit, KeysStep, OwnersInvariant, PTL DEF DeviceSpec

-----------------------------------------------------------------------------
(* Nothing is awaited in vain and nothing is left open.                    *)

(* A setter that has been called and that no kill has ended.               *)
Called(c) == call[c].pc \in {"waiting", "resolved", "rejected"}

(* Whoever waits for a certificate waits for a fetch of its own account    *)
(* and mode that is in flight; each fetch is that of a caller who waits    *)
(* for it, so no two fetches use the same setter call, and the cache write *)
(* that a fetch awaits has been called.                                    *)
ServedInv ==
  /\ \A r \in Requests : request[r].pc = "waiting" =>
       request[r].key \in Keys /\ fetch[request[r].key].pc # "none"
  /\ \A k \in Keys : fetch[k].pc # "none" =>
       /\ request[fetch[k].by].pc = "waiting" /\ request[fetch[k].by].key = k
       /\ fetch[k].pc = "persist" => Called(CertificateCall(fetch[k].by))

(* A connection is open only as long as there is a call or a session to    *)
(* close it, the timer is armed only as long as it may abort something, an *)
(* attempt to connect has its timer or has been aborted, and the setter    *)
(* that a linking awaits has been called.                                  *)
OpenInv ==
  /\ linkSocket <=> link \in {"put", "disconnect"} \cup LinkSlots
  /\ provisioningSocket => session \in {"address", "ready"}
  /\ timer => session \in {"connecting", "address"}
  /\ session = "connecting" => timer \/ aborted
  /\ link \in LinkSlots => Called(<<"link", attempt, link>>)

(* A setter that has been called stays called until a kill.                *)
LEMMA StaysCalled ==
  ASSUME StoreInv, NEW c \in Calls, Called(c),
         \/ \E initialData \in BOOLEAN : Open(initialData)
         \/ Persisting \/ Fail \/ UNCHANGED vars
         \/ \E d \in Calls, s \in Slots : Write(d, s)
  PROVE  Called(c)'
<1> USE DEF StoreInv
<1>1. c \in Persists /\ c # Opener
  BY PersistsAre
<1>2. CASE UNCHANGED call
  BY <1>2 DEF Called
<1>3. CASE Open(TRUE)
  BY <1>1, <1>3, OpenEnters DEF Called
<1>4. CASE Open(FALSE)
  BY <1>2, <1>4, OpenQuietly
<1>5. CASE BeginWrite \/ EndWrite \/ Rename
  BY <1>2, <1>5 DEF BeginWrite, EndWrite, Rename
<1>6. CASE Settle \/ Fail
  <2>1. CASE c # Head(queue)
    BY <1>1, <1>6, <2>1, HeadLeaves DEF Called
  <2>2. CASE c = Head(queue)
    <3>1. repository # "opening"
      BY <1>1, <2>2 DEF OpeningInv
    <3>2. \E pc \in {"resolved", "rejected"} : call' = [call EXCEPT ![c].pc = pc]
      BY <1>6, <2>2, <3>1 DEF Settle, Fail
    <3> QED
      BY <1>1, <3>2 DEF Called, TypeOK, Call
  <2> QED BY <2>1, <2>2
<1>7. ASSUME NEW d \in Calls, NEW s \in Slots, Write(d, s) PROVE Called(c)'
  <2>1. c # d
    BY <1>7, WriteEnters DEF Called
  <2> QED
    BY <1>1, <1>7, <2>1, WriteEnters DEF Called
<1>8. CASE UNCHANGED vars
  BY <1>2, <1>8 DEF vars
<1> QED
  BY <1>3, <1>4, <1>5, <1>6, <1>7, <1>8 DEF Persisting

LEMMA DeviceStaysCalled ==
  ASSUME StoreInv, LinkShape, [DeviceNext]_deviceVars, ~DeviceStops,
         NEW c \in Calls, Called(c)
  PROVE  Called(c)'
<1>1. CASE Linking
  BY <1>1, LinkCallsStore, StaysCalled
<1>2. CASE \E r \in Requests, m \in Modes : Get(r, m)
  BY <1>2, StaysCalled DEF Get
<1>3. CASE \E k \in Keys : FetchStep(k)
  BY <1>3, FetchCallsStore, StaysCalled
<1>4. CASE SessionStep
  BY <1>4, StaysCalled DEF SessionStep
<1>5. CASE StoreStep
  BY <1>5, StaysCalled DEF StoreStep
<1>6. CASE \E d \in HostCalls : HostSaves(d)
  BY <1>6, CallsAndSlots, StaysCalled DEF HostSaves
<1>7. CASE UNCHANGED deviceVars
  BY <1>7, StaysCalled DEF deviceVars
<1> QED
  BY <1>1, <1>2, <1>3, <1>4, <1>5, <1>6, <1>7 DEF DeviceNext

LEMMA ServedUntouched ==
  ASSUME StoreInv, LinkShape, ServedInv, [DeviceNext]_deviceVars, ~DeviceStops,
         UNCHANGED <<request, fetch>>
  PROVE  ServedInv'
<1>1. \A k \in Keys : fetch[k].pc = "persist" => Called(CertificateCall(fetch[k].by))'
  BY DeviceStaysCalled, CallsAndSlots DEF ServedInv, LinkShape
<1> QED
  BY <1>1 DEF ServedInv

(* get() joins a fetch, has its answer, or becomes the caller of a fetch.  *)
LEMMA GetServed ==
  ASSUME StoreInv, LinkShape, CertificatesInv, ServedInv,
         NEW r \in Requests, NEW m \in Modes, Get(r, m)
  PROVE  ServedInv'
<1> DEFINE k == <<AccountAt(memory).owner, m>>
<1>1. request[r].pc = "idle" /\ k \in Keys /\ UNCHANGED call
  BY DEF Get, vars
<1>2. \A l \in Keys : fetch[l].pc # "none" => fetch[l].by # r
  BY <1>1 DEF ServedInv
<1>3. \E pc \in {"waiting", "done"}, got \in {Cached(m), NoKey} :
        request' = [request EXCEPT ![r] = [pc |-> pc, key |-> k, got |-> got]]
  BY DEF Get
<1>4. /\ request'[r].key = k
      /\ \A q \in Requests : q # r => request'[q] = request[q]
  BY <1>3 DEF CertificatesInv
<1>5. CASE UNCHANGED fetch
  <2>1. request'[r].pc = "waiting" => fetch[k].pc # "none"
    BY <1>5, <1>1 DEF Get, CertificatesInv, LinkShape, Fetch
  <2>2. \A l \in Keys : fetch[l].pc # "none" => fetch[l].by \in Requests
    BY DEF LinkShape
  <2> QED
    BY <1>1, <1>2, <1>4, <1>5, <2>1, <2>2 DEF ServedInv, Called
<1>6. CASE /\ fetch[k].pc = "none"
           /\ request' = [request EXCEPT ![r] = [pc |-> "waiting", key |-> k, got |-> NoKey]]
           /\ fetch' = [fetch EXCEPT ![k].pc = "connect", ![k].by = r]
  <2>1. request'[r].pc = "waiting"
    BY <1>6 DEF CertificatesInv
  <2>2. /\ fetch'[k].pc = "connect" /\ fetch'[k].by = r
        /\ \A l \in Keys : l # k => fetch'[l] = fetch[l]
    BY <1>1, <1>6 DEF LinkShape, Fetch
  <2>3. \A l \in Keys : fetch[l].pc # "none" => fetch[l].by \in Requests
    BY DEF LinkShape
  <2> QED
    BY <1>1, <1>2, <1>4, <2>1, <2>2, <2>3 DEF ServedInv, Called
<1> QED
  BY <1>5, <1>6 DEF Get

(* The end of a fetch is the end of all who wait for it.                   *)
LEMMA FinishServes ==
  ASSUME LinkShape, CertificatesInv, ServedInv, UNCHANGED call,
         NEW k \in Keys, NEW got \in {k, NoKey}, Finish(k, got), MaxLinks \in Nat
  PROVE  ServedInv'
<1>1. got \in Certificate
  BY DEF NoKey, Keys, Certificate, Modes
<1>2. request' = [q \in Requests |->
         IF request[q].pc = "waiting" /\ request[q].key = k
           THEN [request[q] EXCEPT !.pc = "done", !.got = got] ELSE request[q]]
  BY DEF Finish
<1>3. ASSUME NEW q \in Requests
      PROVE  \/ request'[q] = request[q] /\ (request[q].pc = "waiting" => request[q].key # k)
             \/ request[q].key = k /\ request'[q].pc = "done"
  <2>1. request[q] \in Request
    BY DEF CertificatesInv
  <2>2. [request[q] EXCEPT !.pc = "done", !.got = got].pc = "done"
    BY <1>1, <2>1 DEF Request
  <2> QED
    BY <1>2, <2>2
<1>4. fetch'[k].pc = "none" /\ \A l \in Keys : l # k => fetch'[l] = fetch[l]
  <2>1. fetch' = [fetch EXCEPT ![k] = NoFetch]
    BY DEF Finish
  <2>2. fetch = [l \in Keys |-> fetch[l]]
    BY DEF LinkShape
  <2>3. NoFetch.pc = "none"
    BY DEF NoFetch
  <2> QED
    BY <2>1, <2>3, <2>2
<1>5. \A l \in Keys : fetch[l].pc # "none" => fetch[l].by \in Requests
  BY DEF LinkShape
<1> QED
  BY <1>3, <1>4, <1>5 DEF ServedInv, Called

LEMMA FetchServed ==
  ASSUME StoreInv, LinkShape, AccountsOK, CertificatesInv, ServedInv, NEW k \in Keys, FetchStep(k)
  PROVE  ServedInv'
<1>1. /\ fetch[k].pc # "none" /\ fetch[k].by \in Requests
      /\ \A l \in Keys : l # k => fetch'[l] = fetch[l]
      /\ fetch'[k].pc = "none" \/ fetch'[k].by = fetch[k].by
  BY FetchChanges DEF LinkShape, StoreInv
<1>2. CASE UNCHANGED call /\ \E got \in {k, NoKey} : Finish(k, got)
  BY <1>2, FinishServes, CallsAndSlots
<1>3. \A q \in Requests : Called(CertificateCall(q)) => Called(CertificateCall(q))'
  BY FetchCallsStore, StaysCalled, CallsAndSlots
<1>4. CASE UNCHANGED request /\ fetch'[k].pc \in {"get", "cache", "disconnect"}
  <2>1. \A l \in Keys : fetch[l].pc # "none" => fetch[l].by \in Requests
    BY DEF LinkShape
  <2> QED
    BY <1>1, <1>3, <1>4, <2>1 DEF ServedInv, Called
<1>5. CASE CachesCertificate(k)
  <2>1. UNCHANGED request /\ fetch'[k].pc = "persist" /\ fetch'[k].by = fetch[k].by
    BY <1>1, <1>5 DEF CachesCertificate, LinkShape, Fetch
  <2>2. Called(CertificateCall(fetch[k].by))'
    <3>1. call'[CertificateCall(fetch[k].by)].pc = "waiting"
      BY <1>1, <1>5, CallsAndSlots, WriteEnters DEF CachesCertificate, StoreInv, LinkSlots
    <3> QED
      BY <2>1, <3>1 DEF Called
  <2>3. \A l \in Keys : fetch[l].pc # "none" => fetch[l].by \in Requests
    BY DEF LinkShape
  <2> QED
    BY <1>1, <1>3, <2>1, <2>2, <2>3 DEF ServedInv, Called
<1>6. CASE CertificateConnects(k)
  <2>1. CASE fetch' = [fetch EXCEPT ![k].pc = "get"] /\ UNCHANGED request
    BY <1>4, <2>1 DEF LinkShape, Fetch
  <2> QED
    BY <1>2, <1>6, <2>1 DEF CertificateConnects, vars
<1>7. CASE CertificateFails(k) \/ CachePersisted(k)
  <2>1. PICK ok : fetch' = [fetch EXCEPT ![k].pc = "disconnect", ![k].ok = ok]
    BY <1>7 DEF CertificateFails, CachePersisted
  <2>2. fetch'[k].pc = "disconnect"
    BY <2>1 DEF LinkShape, Fetch
  <2> QED
    BY <1>7, <1>4, <2>2 DEF CertificateFails, CachePersisted
<1>8. CASE CertificateDisconnects(k)
  BY <1>2, <1>8 DEF CertificateDisconnects, vars
<1>9. CASE CertificateArrives(k)
  <2>1. fetch'[k].pc = "cache"
    BY <1>9 DEF CertificateArrives, LinkShape, Fetch
  <2> QED
    BY <1>4, <1>9, <2>1 DEF CertificateArrives
<1> QED
  BY <1>5, <1>6, <1>7, <1>8, <1>9 DEF FetchStep

LEMMA ServedStep ==
  OwnersInv /\ CertificatesInv /\ ServedInv /\ [DeviceNext]_deviceVars => ServedInv'
<1> SUFFICES ASSUME StoreInv, LinkShape, AccountsOK, CertificatesInv, ServedInv, [DeviceNext]_deviceVars
             PROVE  ServedInv'
  BY DEF OwnersInv
<1>1. CASE \E r \in Requests, m \in Modes : Get(r, m)
  BY <1>1, GetServed
<1>2. CASE \E k \in Keys : FetchStep(k)
  BY <1>2, FetchServed
<1>3. CASE DeviceStops
  <2>1. /\ \A k \in Keys : fetch'[k].pc = "none"
        /\ \A r \in Requests : request'[r].pc # "waiting"
    BY <1>3 DEF DeviceStops, NoFetch, CertificatesInv, Request
  <2> QED
    BY <2>1 DEF ServedInv
<1>4. CASE UNCHANGED <<request, fetch>> /\ ~DeviceStops
  BY <1>4, ServedUntouched
<1> QED
  BY <1>1, <1>2, <1>3, <1>4 DEF DeviceNext, Linking, certificateVars, deviceVars

(* No caller of get() is forgotten: whoever waits has a fetch in flight    *)
(* for its account and mode, also who has joined it, also when it fails or *)
(* a linking crosses it (inFlight of SignalSenderCertificateService).      *)
THEOREM EveryCallerIsServed == DeviceSpec => []ServedInv
<1>1. DeviceInit => ServedInv
  BY DEF DeviceInit, CertificateInit, NoFetch, ServedInv
<1>2. DeviceInit => CertificatesInv
  BY CertificatesInit
<1> QED
  BY <1>1, <1>2, CertificatesStep, ServedStep, OwnersInvariant, PTL DEF DeviceSpec

LEMMA SessionOpen ==
  ASSUME OpenInv, SessionNext
  PROVE  /\ provisioningSocket' => session' \in {"address", "ready"}
         /\ timer' => session' \in {"connecting", "address"}
         /\ session' = "connecting" => timer' \/ aborted'
BY DEF OpenInv, SessionNext, LinkTimeout, HostAborts, ProvisioningConnects,
       ProvisioningConnectFails, ReceiveAddress, ReceiveEnvelope,
       ProvisioningInterrupted, SessionRejects, HostDisconnects

LEMMA LinkingOpen ==
  ASSUME StoreInv, LinkShape, OpenInv, Linking
  PROVE  OpenInv'
<1>1. CASE NewSession
  BY <1>1 DEF NewSession, StartSession, OpenInv, LinkSlots
<1>2. CASE BeginLinking
  BY <1>2 DEF BeginLinking, SessionGone, OpenInv, LinkSlots
<1>3. CASE LinkConnects \/ LinkFails \/ AccountStored \/ LinkWriteRejects \/ LinkDisconnects
  BY <1>3 DEF LinkConnects, LinkFails, AccountStored, LinkWriteRejects, LinkDisconnects,
              Resolved, sessionVars, OpenInv, LinkSlots
<1>4. CASE \E s \in LinkSlots : /\ Write(<<"link", attempt, s>>, s) /\ link' = s
                                /\ link \in {"put"} \cup LinkSlots
                                /\ UNCHANGED <<attempt, linkSocket, sessionVars>>
  <2>1. PICK s \in LinkSlots : /\ Write(<<"link", attempt, s>>, s) /\ link' = s
                               /\ link \in {"put"} \cup LinkSlots
                               /\ UNCHANGED <<attempt, linkSocket, sessionVars>>
    BY <1>4
  <2>2. attempt \in Attempts
    BY <2>1, CallsAndSlots DEF LinkShape, Attempts, LinkSlots
  <2>3. Called(<<"link", attempt, s>>)'
    BY <2>1, <2>2, CallsAndSlots, WriteEnters DEF StoreInv, Called
  <2> QED
    BY <2>1, <2>3 DEF OpenInv, Called, sessionVars
<1>5. CASE LinkAccepted \/ IdentityStored \/ SignedPreKeyStored
  BY <1>4, <1>5
     DEF LinkAccepted, IdentityStored, SignedPreKeyStored, StoreNext, Resolved, LinkSlots
<1>6. CASE KyberPreKeyStored
  BY <1>4, <1>6 DEF KyberPreKeyStored, Resolved, LinkSlots
<1> QED
  BY <1>1, <1>2, <1>3, <1>5, <1>6 DEF Linking, LinkStep

LEMMA OpenStep == OwnersInv /\ OpenInv /\ [DeviceNext]_deviceVars => OpenInv'
<1> SUFFICES ASSUME StoreInv, LinkShape, OpenInv, [DeviceNext]_deviceVars
             PROVE  OpenInv'
  BY DEF OwnersInv
<1>1. CASE Linking
  BY <1>1, LinkingOpen
<1>2. CASE DeviceStops
  BY <1>2 DEF DeviceStops, DeviceCrash, SessionGone, OpenInv, LinkSlots
<1>3. CASE UNCHANGED linkVars /\ ~DeviceStops
  <2>1. link \in LinkSlots => attempt \in Attempts
    BY CallsAndSlots DEF LinkShape, Attempts, LinkSlots
  <2>2. UNCHANGED <<attempt, link, linkSocket>>
    BY <1>3 DEF linkVars
  <2>3. link \in LinkSlots => Called(<<"link", attempt, link>>)'
    <3>1. \A n \in Attempts, s \in LinkSlots :
            Called(<<"link", n, s>>) => Called(<<"link", n, s>>)'
      BY <1>3, DeviceStaysCalled, CallsAndSlots
    <3> QED
      BY <2>1, <2>2, <3>1 DEF OpenInv, Called
  <2>4. SessionNext \/ UNCHANGED sessionVars \/ Linking
    BY <1>3 DEF DeviceNext, SessionStep, StoreStep, HostSaves, Get, FetchStep,
                CertificateConnects, CertificateArrives, CachesCertificate,
                CertificateFails, CachePersisted, CertificateDisconnects, deviceVars
  <2>5. CASE SessionNext
    BY <2>3, <2>2, <2>5, SessionOpen DEF OpenInv, Called
  <2>6. CASE UNCHANGED sessionVars
    BY <2>3, <2>2, <2>6 DEF OpenInv, Called, sessionVars
  <2> QED
    BY <1>1, <2>4, <2>5, <2>6
<1>4. CASE \E k \in Keys : CachesCertificate(k)
  <2>1. UNCHANGED <<attempt, link, linkSocket, sessionVars>>
    BY <1>4 DEF CachesCertificate
  <2>2. link \in LinkSlots => attempt \in Attempts
    BY CallsAndSlots DEF LinkShape, Attempts, LinkSlots
  <2>3. \A n \in Attempts, s \in LinkSlots :
          Called(<<"link", n, s>>) => Called(<<"link", n, s>>)'
    BY <1>4, FetchCallsStore, StaysCalled, CallsAndSlots DEF FetchStep
  <2>4. link \in LinkSlots => Called(<<"link", attempt, link>>)'
    BY <2>1, <2>2, <2>3 DEF OpenInv, Called
  <2> QED
    BY <2>1, <2>4 DEF OpenInv, Called, sessionVars
<1>5. CASE (StoreStep \/ \E c \in HostCalls : HostSaves(c)) /\ ~DeviceStops
  <2>1. UNCHANGED <<attempt, link, linkSocket, sessionVars>>
    BY <1>5 DEF StoreStep, HostSaves, linkVars
  <2>2. link \in LinkSlots => attempt \in Attempts
    BY CallsAndSlots DEF LinkShape, Attempts, LinkSlots
  <2>3. link \in LinkSlots => Called(<<"link", attempt, link>>)'
    <3>1. \A n \in Attempts, s \in LinkSlots :
            Called(<<"link", n, s>>) => Called(<<"link", n, s>>)'
      BY <1>5, DeviceStaysCalled, CallsAndSlots
    <3> QED
      BY <2>1, <2>2, <3>1 DEF OpenInv, Called
  <2> QED
    BY <2>1, <2>3 DEF OpenInv, Called, sessionVars
<1> QED
  BY <1>1, <1>2, <1>3, <1>4, <1>5
     DEF DeviceNext, SessionStep, Get, FetchStep, CertificateConnects, CertificateArrives,
         CertificateFails, CachePersisted, CertificateDisconnects, deviceVars

(* The safety half of ConnectingEnds and LinkingSettles: an attempt to     *)
(* connect that has not been aborted has its timer running, a timer stops  *)
(* with what it limits, each socket has a call or a session that will      *)
(* close it, and a linking awaits a setter that it has called              *)
(* (startSignalDeviceLinkSession, linkSignalDevice).                       *)
THEOREM NothingLeftOpen == DeviceSpec => []OpenInv
<1>1. DeviceInit => OpenInv
  BY DEF DeviceInit, LinkInit, SessionInit, OpenInv, LinkSlots
<1> QED
  BY <1>1, OpenStep, OwnersInvariant, PTL DEF DeviceSpec
=============================================================================
