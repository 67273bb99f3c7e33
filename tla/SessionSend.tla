---------------------------- MODULE SessionSend ----------------------------
(***************************************************************************)
(* How SignalTsClient uses the libsignal sessions of one peer: the         *)
(* session-state lock, the sends that encrypt under it, the repair of a    *)
(* send the server rejects for its devices, the decryption of an inbound   *)
(* envelope, and the archiving and recovery of sessions (src/client.ts).   *)
(*                                                                         *)
(* The peer is one account with a few devices; its own account is the peer *)
(* of a sync message.  A session is reduced to the registration it was set *)
(* up with and to whether it has a current state: that is what the code    *)
(* branches on (getSession, hasCurrentState, remoteRegistrationId).  One   *)
(* step of an operation is what it does between two awaits; encryption is  *)
(* split where libsignal's own awaits split it, into the load of the       *)
(* record and its save.                                                    *)
(***************************************************************************)
EXTENDS Naturals, FiniteSets, Sequences

CONSTANTS
    Task,         \* calls of the client's API by its host
    Device,       \* device ids of the peer
    Primary,      \* the device the account cannot lose
    Senders,      \* devices whose messages and reports the host handles
    Operations,   \* which calls the host makes
    MaxChanges,   \* bound on devices linked, relinked and unlinked
    MaxFailures,  \* bound on failing requests and store writes
    MaxAborts,    \* bound on callers that give up
    MaxTrouble    \* bound on all of these together

AllOperations ==
    {"content", "given", "group", "sealed", "sync", "receipt",
     "decrypt", "archive", "renew", "recover"}

ASSUME SendAssumption ==
    /\ Device \subseteq Nat \ {0} /\ IsFiniteSet(Device) /\ Primary \in Device
    /\ Senders \subseteq Device
    /\ Operations \subseteq AllOperations
    /\ MaxChanges \in Nat /\ MaxFailures \in Nat /\ MaxAborts \in Nat
    /\ MaxTrouble \in Nat

VARIABLES
    session,     \* session[d]: the record stored for device d
    queue,       \* signalStateMutationQueue: who holds the lock and who waits
    op,          \* op[t]: where call t is
    cachedPreKeys,  \* bundles of the peer that the call manager keeps
    registered,  \* registered[d]: registration id at the server, 0 if not linked
    overtaken,   \* history: calls whose loaded record another call has replaced
    unreadable,  \* history: accepted ciphertexts of a registration that is gone
    moved,       \* history: a device changed while a call was under way
    budget       \* what is left of changes, failures and aborts

vars == <<session, queue, op, cachedPreKeys, registered, overtaken, unreadable, moved, budget>>

-----------------------------------------------------------------------------
(* Records, bundles and calls.                                             *)

\* Sessions of earlier runs are of registration 1; 2 and on are newer ones.
Registration == 0 .. MaxChanges + 2

NoSession == [state |-> "none", reg |-> 0]
Current(r) == [state |-> "current", reg |-> r]
Archived(r) == [state |-> "archived", reg |-> r]
Record ==
    {NoSession} \cup {Current(r) : r \in Registration} \cup {Archived(r) : r \in Registration}

Linked == {d \in Device : registered[d] # 0}

\* What fetchRecipientPreKeys returns: a bundle for every linked device.
Bundles == [d \in Linked |-> registered[d]]

\* preKeyBundles === undefined
NoBundles == [d \in {} |-> 0]

\* listSessionDeviceIds: archived records have no current state and are left out.
listSessionDeviceIds == {d \in Device : session[d].state = "current"}

\* One entry of `contents`: the device, the registration id the entry is
\* labelled with, and the registration of the session that encrypted it.
Entry(d, label, reg) == [device |-> d, label |-> label, reg |-> reg]

Idle ==
    [act |-> "none", pc |-> "idle", parts |-> <<>>, device |-> Primary, reg |-> 0,
     given |-> NoBundles, bundles |-> NoBundles, todo |-> {}, refresh |-> {},
     contents |-> {}, retried |-> FALSE, warm |-> FALSE, repairing |-> FALSE,
     abort |-> FALSE, loaded |-> NoSession, result |-> "none"]

NextDevice(o) == CHOOSE d \in o.todo : \A e \in o.todo : d <= e

\* The caller has given up and the code passes its signal on.
Aborted(o) == o.abort /\ ~o.repairing /\ o.act \notin {"decrypt", "archive"}

InFlight(t) == op[t].pc \notin {"idle", "done"}

-----------------------------------------------------------------------------
Init ==
    /\ registered \in {r \in [Device -> {0, 1}] : r[Primary] = 1}
    /\ session \in [Device -> {NoSession, Current(1)}]
    /\ queue = <<>>
    /\ op = [t \in Task |-> Idle]
    /\ cachedPreKeys = NoBundles
    /\ overtaken = {} /\ unreadable = {} /\ moved = FALSE
    /\ budget = [changes |-> MaxChanges, failures |-> MaxFailures, aborts |-> MaxAborts,
                  any |-> MaxTrouble]

\* Trouble of each kind is bounded, and so is all of it together.
CanSpend(kind) == budget[kind] > 0 /\ budget.any > 0
Spend(kind) == budget' = [budget EXCEPT ![kind] = @ - 1, !.any = @ - 1]

\* Where a part of a call begins: outside the lock, or at its tail.
FirstStep(act) ==
    CASE act \in {"content", "group", "given"} -> "peek"
      [] act = "sealed" -> "fetch"
      [] OTHER -> "queued"

\* Call t goes on as o; runSerializedSignalStateMutation appends it to the chain.
Continue(t, o, chain) ==
    /\ op' = [op EXCEPT ![t] = o]
    /\ queue' = IF o.pc = "queued" THEN Append(chain, t) ELSE chain

\* Seeded fault: a call that has left the lock releases it once more.
ReleasedTwice(t) == IF queue # <<>> THEN Tail(queue) ELSE queue

\* The finally of runSerializedSignalStateMutation, whatever the outcome.
Released(t) == IF queue # <<>> /\ Head(queue) = t THEN Tail(queue) ELSE queue

Goes(t, pc) == Continue(t, [op[t] EXCEPT !.pc = pc], queue)

\* The next part of a recovery; from the second part on it no longer passes
\* the caller's signal on.
NextPart(o) ==
    [Idle EXCEPT !.act = Head(o.parts), !.pc = FirstStep(Head(o.parts)), !.parts = Tail(o.parts),
                 !.device = o.device, !.repairing = TRUE, !.abort = o.abort]

\* A part ends: the recovery goes on to its next part, any other call is over.
Ends(t, result) ==
    LET o == op[t] IN
    Continue(t, IF result = "ok" /\ o.parts # <<>> THEN NextPart(o)
                ELSE [Idle EXCEPT !.act = o.act, !.pc = "done", !.repairing = o.repairing,
                                  !.result = result],
             Released(t))

Fails(t) ==
    LET o == op[t] IN
    \/ /\ Aborted(o) /\ Ends(t, "aborted") /\ UNCHANGED budget
    \/ /\ CanSpend("failures") /\ Ends(t, "failed")
       /\ Spend("failures")

\* A write of the record of d overtakes every other call that has loaded it.
Write(t, d, record) ==
    /\ session' = [session EXCEPT ![d] = record]
    /\ overtaken' = overtaken \cup
                    {u \in Task \ {t} : op[u].pc = "save" /\ NextDevice(op[u]) = d}

SameSessions == UNCHANGED <<session, overtaken>>
SameWorld == UNCHANGED <<registered, moved, cachedPreKeys>>

-----------------------------------------------------------------------------
(* Before the lock.                                                        *)

\* A call begins.  `given` is a content send with its caller's own prekey
\* bundles, as the call manager makes it for its signaling; sync content always
\* takes them from the caller.  A recovery begins with its first part.
Started(act, d, r) ==
    LET first == IF act = "recover" THEN "renew" ELSE act IN
    [Idle EXCEPT !.act = first, !.pc = FirstStep(first), !.device = d, !.reg = r,
                 !.parts = IF act = "recover" THEN <<"content", "receipt">> ELSE <<>>,
                 !.given = IF act = "sync" THEN Bundles ELSE NoBundles]

\* The host makes a call.
Start(t) ==
    /\ op[t].pc = "idle"
    /\ \E act \in Operations, d \in Device, r \in Registration :
          /\ IF act \in {"decrypt", "receipt", "archive", "recover"} THEN d \in Senders
             ELSE d = Primary
          /\ r \in (IF act = "decrypt" THEN {0, 1, registered[d]} ELSE {0})
          /\ Continue(t, Started(act, d, r), queue)
    /\ SameSessions /\ SameWorld /\ UNCHANGED <<unreadable, budget>>

\* The unlocked peek: with a usable session the send needs no bundles.
Peek(t) ==
    /\ op[t].pc = "peek" /\ op[t].act # "given"
    /\ Goes(t, IF listSessionDeviceIds # {} THEN "queued" ELSE "fetch")
    /\ SameSessions /\ SameWorld /\ UNCHANGED <<unreadable, budget>>

\* The single-slot cache of the call manager: it sends with the bundles it keeps,
\* unless signaling with somebody else has taken the slot.
UseCached(t) ==
    /\ op[t].pc = "peek" /\ op[t].act = "given"
    /\ \/ /\ cachedPreKeys # NoBundles
          /\ Continue(t, [op[t] EXCEPT !.pc = "queued", !.given = cachedPreKeys], queue)
       \/ Goes(t, "fetch")
    /\ SameSessions /\ SameWorld /\ UNCHANGED <<unreadable, budget>>

\* fetchPreKeyBundles, outside the lock; the call manager keeps what it gets.
Fetch(t) ==
    /\ op[t].pc = "fetch"
    /\ Continue(t, [op[t] EXCEPT !.pc = "queued", !.given = Bundles], queue)
    /\ cachedPreKeys' = IF op[t].act = "given" THEN Bundles ELSE cachedPreKeys
    /\ SameSessions /\ UNCHANGED <<registered, moved, unreadable, budget>>

\* The caller's AbortSignal fires.
Abort(t) ==
    /\ InFlight(t) /\ ~op[t].abort /\ CanSpend("aborts")
    /\ op' = [op EXCEPT ![t].abort = TRUE]
    /\ Spend("aborts")
    /\ SameSessions /\ SameWorld /\ UNCHANGED <<queue, unreadable>>

-----------------------------------------------------------------------------
(* Acquiring the lock.                                                     *)

\* Seeded fault: the call does not wait for its predecessors.
HasLockUnserialized(t) == op[t].pc = "queued"

\* The promise t waits for has settled: everybody before it has released.
HasLock(t) == op[t].pc = "queued" /\ queue # <<>> /\ Head(queue) = t

\* Seeded fault: throwIfAborted before the try: the lock is never released.
AcquireAbortedKeepsLock(t) ==
    /\ HasLock(t) /\ Aborted(op[t])
    /\ Continue(t, [Idle EXCEPT !.act = op[t].act, !.pc = "done", !.result = "aborted"], queue)
    /\ SameSessions /\ SameWorld /\ UNCHANGED <<unreadable, budget>>

\* abortSignal?.throwIfAborted(), inside the try whose finally releases.
AcquireAborted(t) ==
    /\ HasLock(t) /\ Aborted(op[t])
    /\ Ends(t, "aborted")
    /\ SameSessions /\ SameWorld /\ UNCHANGED <<unreadable, budget>>

Acquire(t, acts) == HasLock(t) /\ ~Aborted(op[t]) /\ op[t].act \in acts

\* Seeded fault: the fallback starts the send over and waits for a lock that
\* the call itself holds.
WarmStartQueuesAgain(t) ==
    LET devices == listSessionDeviceIds IN
    IF devices = {} THEN Continue(t, [op[t] EXCEPT !.pc = "queued"], queue)
    ELSE Continue(t, [op[t] EXCEPT !.pc = "build", !.todo = devices, !.warm = TRUE], queue)

\* Without bundles the sessions themselves say which devices to encrypt to.
\* When the peek's sessions are gone the contents are null: fetch in the lock.
WarmStart(t) ==
    LET devices == listSessionDeviceIds IN
    IF devices = {} THEN Goes(t, "fallback")
    ELSE Continue(t, [op[t] EXCEPT !.pc = "build", !.todo = devices, !.warm = TRUE], queue)

\* With bundles every device that has one is encrypted to, in turn.
BundleStart(t) ==
    Continue(t, [op[t] EXCEPT !.pc = "build", !.bundles = op[t].given,
                              !.todo = DOMAIN op[t].given], queue)

AcquireToSend(t) ==
    /\ Acquire(t, {"content", "given", "group"})
    /\ IF op[t].given = NoBundles THEN WarmStart(t) ELSE BundleStart(t)
    /\ SameSessions /\ SameWorld /\ UNCHANGED <<unreadable, budget>>

AcquireToSeal(t) ==
    /\ Acquire(t, {"sealed"})
    /\ BundleStart(t)
    /\ SameSessions /\ SameWorld /\ UNCHANGED <<unreadable, budget>>

AcquireToSync(t) ==
    /\ Acquire(t, {"sync"})
    /\ BundleStart(t)
    /\ SameSessions /\ SameWorld /\ UNCHANGED <<unreadable, budget>>

\* A retry receipt is not encrypted; it needs the sender's registration id,
\* from the session or else from a bundle fetched in the lock.
AcquireForReceipt(t) ==
    LET d == op[t].device
        r == session[d].reg
    IN /\ Acquire(t, {"receipt"})
       /\ \/ /\ session[d].state = "current"
             /\ Continue(t, [op[t] EXCEPT !.pc = "send", !.contents = {Entry(d, r, r)}], queue)
          \/ session[d].state = "archived" /\ Ends(t, "noSession")
          \/ session[d].state = "none" /\ Goes(t, "fallback")
       /\ SameSessions /\ SameWorld /\ UNCHANGED <<unreadable, budget>>

AcquireToDecrypt(t) ==
    /\ Acquire(t, {"decrypt"})
    /\ Continue(t, [op[t] EXCEPT !.pc = "build", !.todo = {op[t].device}], queue)
    /\ SameSessions /\ SameWorld /\ UNCHANGED <<unreadable, budget>>

\* archiveSessionForPeer names a device, archiveSessionsForPeer lists them all.
AcquireToArchive(t) ==
    /\ Acquire(t, {"archive", "renew"})
    /\ Continue(t, [op[t] EXCEPT !.pc = "drop",
                       !.todo = IF op[t].act = "archive" THEN {op[t].device}
                                ELSE {d \in Device : session[d].state # "none"}], queue)
    /\ SameSessions /\ SameWorld /\ UNCHANGED <<unreadable, budget>>

-----------------------------------------------------------------------------
(* Encrypting and decrypting under the lock.                               *)

\* processPreKeyBundle runs when there is a bundle and either no record at all
\* or a device to refresh; an archived record counts as a session here.
Establishes(o, d) ==
    d \in DOMAIN o.bundles /\ (session[d].state = "none" \/ d \in o.refresh)

\* What the load finds must carry the operation: signalEncrypt needs a current
\* state, a whisper message some state, a prekey message nothing.  Decryption
\* may fail all the same, on a message of a session this client does not hold.
Carries(o, d) ==
    IF o.act = "decrypt" THEN o.reg # 0 \/ session[d].state # "none"
    ELSE Establishes(o, d) \/ session[d].state = "current"

LoadSession(t) ==
    LET o == op[t] IN
    /\ o.pc = "build" /\ o.todo # {}
    /\ \/ /\ Carries(o, NextDevice(o))
          /\ Continue(t, [o EXCEPT !.pc = "save", !.loaded = session[NextDevice(o)]], queue)
       \/ ~Carries(o, NextDevice(o)) /\ o.act # "decrypt" /\ Ends(t, "noSession")
       \/ o.act = "decrypt" /\ Ends(t, "undecryptable")
    /\ SameSessions /\ SameWorld /\ UNCHANGED <<unreadable, budget>>

\* A bundle or a prekey message sets up a new current session; a message of an
\* archived session makes that session current again.
SavedRecord(o, d) ==
    IF o.act = "decrypt" THEN Current(IF o.reg # 0 THEN o.reg ELSE o.loaded.reg)
    ELSE IF d \in DOMAIN o.bundles /\ (o.loaded.state = "none" \/ d \in o.refresh)
         THEN Current(o.bundles[d])
         ELSE o.loaded

\* The bundle-driven path labels its entry with the bundle's registration id,
\* whichever session encrypts it; the warm path with that of the session.
Label(o, d) == IF d \in DOMAIN o.bundles THEN o.bundles[d] ELSE o.loaded.reg

SaveSession(t) ==
    LET o == op[t]
        d == NextDevice(o)
        record == SavedRecord(o, d)
    IN /\ o.pc = "save"
       /\ Write(t, d, record)
       /\ \/ /\ Continue(t, [o EXCEPT !.pc = "build", !.todo = @ \ {d}, !.loaded = NoSession,
                                !.contents = @ \cup {Entry(d, Label(o, d), record.reg)}], queue)
             /\ UNCHANGED budget
          \/ \* The repository changes its memory first and only then writes the file.
             /\ CanSpend("failures") /\ Ends(t, "failed")
             /\ Spend("failures")
       /\ SameWorld /\ UNCHANGED unreadable

\* All devices are done.
Built(t) ==
    /\ op[t].pc = "build" /\ op[t].todo = {} /\ op[t].act # "sealed"
    /\ IF op[t].act = "decrypt" THEN Ends(t, "ok") ELSE Goes(t, "send")
    /\ SameSessions /\ SameWorld /\ UNCHANGED <<unreadable, budget>>

\* A sealed send leaves the lock before it connects and sends.
Sealed(t) ==
    /\ op[t].pc = "build" /\ op[t].todo = {} /\ op[t].act = "sealed"
    /\ Continue(t, [op[t] EXCEPT !.pc = "sealed"], Released(t))
    /\ SameSessions /\ SameWorld /\ UNCHANGED <<unreadable, budget>>

\* Seeded fault: the second attempt encrypts to the sessions that are left.
FetchLockedUsesSessions(t) ==
    /\ op[t].pc \in {"fallback", "refetch"} /\ op[t].act # "receipt"
    /\ Continue(t, [op[t] EXCEPT !.pc = "build", !.todo = listSessionDeviceIds], queue)
    /\ SameSessions /\ SameWorld /\ UNCHANGED <<unreadable, budget>>

\* The fetch in the lock of a send whose warm sessions are gone, and the second
\* fetch of a repaired one: all linked devices are encrypted to.
FetchLocked(t) ==
    /\ op[t].pc \in {"fallback", "refetch"} /\ op[t].act # "receipt"
    /\ Continue(t, [op[t] EXCEPT !.pc = "build", !.bundles = Bundles, !.todo = Linked], queue)
    /\ SameSessions /\ SameWorld /\ UNCHANGED <<unreadable, budget>>

\* A receipt without a session fetches the bundle of its one device; a repaired
\* one goes to every device that has a bundle.
ReceiptFetch(t) ==
    LET o == op[t]
        devices == IF o.pc = "fallback" THEN Linked \cap {o.device} ELSE Linked
        contents == {Entry(d, registered[d], registered[d]) : d \in devices}
    IN /\ o.pc \in {"fallback", "refetch"} /\ o.act = "receipt"
       /\ IF devices = {} THEN Ends(t, "failed")
          ELSE Continue(t, [o EXCEPT !.pc = "send", !.contents = contents], queue)
       /\ SameSessions /\ SameWorld /\ UNCHANGED <<unreadable, budget>>

-----------------------------------------------------------------------------
(* The server's answer and the repair.                                     *)

Addressed(contents) == {c.device : c \in contents}
Missing(contents) == Linked \ Addressed(contents)
Extra(contents) == Addressed(contents) \ Linked
Stale(contents) == {c.device : c \in {e \in contents :
                       e.device \in Linked /\ e.label # registered[e.device]}}

Matches(contents) ==
    Missing(contents) = {} /\ Extra(contents) = {} /\ Stale(contents) = {}

\* The devices accept `contents`; those of another registration cannot read it.
Deliver(o) ==
    unreadable' = IF \E c \in o.contents : c.reg # registered[c.device]
                  THEN unreadable \cup {[act |-> o.act, warm |-> o.warm]}
                  ELSE unreadable

AtServer(t) == op[t].pc \in {"send", "sealed", "fanout"}

\* The entries of a group fanout: the bundles of a member that was cold at the
\* peek, the sessions of a warm one.
FanoutContents(o) ==
    IF o.given # NoBundles
    THEN {Entry(d, o.given[d], o.given[d]) : d \in DOMAIN o.given}
    ELSE {Entry(d, session[d].reg, session[d].reg) : d \in listSessionDeviceIds}

Accepted(t) == AtServer(t) /\ Matches(op[t].contents) /\ Deliver(op[t])

SendAccepted(t) ==
    /\ Accepted(t) /\ op[t].act \notin {"group", "sealed", "sync"}
    /\ Ends(t, "ok")
    /\ SameSessions /\ SameWorld /\ UNCHANGED budget

\* The accepted sender-key distribution of a group send is followed by the
\* fanout of the group message, still in the lock.
GroupAccepted(t) ==
    LET o == op[t] IN
    /\ Accepted(t) /\ o.act = "group"
    /\ IF o.pc = "send"
       THEN Continue(t, [o EXCEPT !.pc = "fanout", !.contents = FanoutContents(o)], queue)
       ELSE Ends(t, "ok")
    /\ SameSessions /\ SameWorld /\ UNCHANGED budget

\* Sealed and sync sends have no repair: accepted or not, they are over.
SealedAnswered(t) ==
    /\ op[t].act = "sealed"
    /\ \/ Accepted(t) /\ Ends(t, "ok")
       \/ AtServer(t) /\ ~Matches(op[t].contents) /\ Ends(t, "mismatch") /\ UNCHANGED unreadable
    /\ SameSessions /\ SameWorld /\ UNCHANGED budget

SyncAnswered(t) ==
    /\ op[t].act = "sync"
    /\ \/ Accepted(t) /\ Ends(t, "ok")
       \/ AtServer(t) /\ ~Matches(op[t].contents) /\ Ends(t, "mismatch") /\ UNCHANGED unreadable
    /\ SameSessions /\ SameWorld /\ UNCHANGED budget

\* One repair, of the first attempt; a fanout has none.
Repairable(o) == o.pc = "send" /\ ~o.retried

\* Seeded fault: the repair deals with missing and extra devices only.
RepairForgetsStale(o) ==
    [o EXCEPT !.pc = "drop", !.retried = TRUE, !.bundles = NoBundles, !.contents = {},
              !.todo = Extra(o.contents), !.refresh = Missing(o.contents)]

\* Seeded fault: the sessions of devices that are not linked any more stay.
RepairKeepsExtra(o) ==
    [o EXCEPT !.pc = "drop", !.retried = TRUE, !.bundles = NoBundles, !.contents = {},
              !.todo = Stale(o.contents), !.refresh = Missing(o.contents) \cup Stale(o.contents)]

\* repairMismatchedDevices: the sessions to drop and the devices to refresh.
\* The server may also reject the send without naming devices: refresh all.
Repair(o) ==
    [o EXCEPT !.pc = "drop", !.retried = TRUE, !.bundles = NoBundles, !.contents = {},
              !.todo = Extra(o.contents) \cup Stale(o.contents),
              !.refresh = Missing(o.contents) \cup Stale(o.contents)]

RepairAll(o) ==
    [Repair(o) EXCEPT !.todo = {}, !.refresh = Device]

SendRejected(t) ==
    LET o == op[t] IN
    /\ AtServer(t) /\ o.act \notin {"sealed", "sync"}
    /\ \/ /\ ~Matches(o.contents)
          /\ IF Repairable(o) THEN Continue(t, Repair(o), queue) ELSE Ends(t, "mismatch")
          /\ UNCHANGED budget
       \/ /\ CanSpend("failures") /\ Repairable(o)
          /\ Continue(t, RepairAll(o), queue)
          /\ Spend("failures")
    /\ SameSessions /\ SameWorld /\ UNCHANGED unreadable

\* A request fails or is aborted; a send may have been accepted all the same.
RequestFails(t) ==
    /\ op[t].pc \in {"fetch", "fallback", "refetch"} \/ AtServer(t)
    /\ Fails(t)
    /\ \/ UNCHANGED unreadable
       \/ AtServer(t) /\ Matches(op[t].contents) /\ Deliver(op[t])
    /\ SameSessions /\ SameWorld

\* archiveSessionsForPeer archives in place; archiveSessionForPeer and the
\* repair remove the record from a store that can remove.
Dropped(o, d) ==
    IF o.act # "renew" THEN NoSession
    ELSE IF session[d].state = "none" THEN NoSession ELSE Archived(session[d].reg)

DropSession(t) ==
    LET o == op[t]
        d == NextDevice(o)
    IN /\ o.pc = "drop" /\ o.todo # {}
       /\ Write(t, d, Dropped(o, d))
       /\ \/ Continue(t, [o EXCEPT !.todo = @ \ {d}], queue) /\ UNCHANGED budget
          \/ /\ CanSpend("failures") /\ Ends(t, "failed")
             /\ Spend("failures")
       /\ SameWorld /\ UNCHANGED unreadable

AllDropped(t) ==
    /\ op[t].pc = "drop" /\ op[t].todo = {}
    /\ IF op[t].act \in {"archive", "renew"} THEN Ends(t, "ok") ELSE Goes(t, "refetch")
    /\ SameSessions /\ SameWorld /\ UNCHANGED <<unreadable, budget>>

-----------------------------------------------------------------------------
(* The peer's devices.                                                     *)

DevicesChange ==
    /\ CanSpend("changes")
    /\ \E d \in Device :
          \/ registered' = [registered EXCEPT ![d] = MaxChanges - budget.changes + 3]
          \/ d # Primary /\ registered[d] # 0 /\ registered' = [registered EXCEPT ![d] = 0]
    /\ moved' = (moved \/ \E t \in Task : InFlight(t))
    /\ Spend("changes")
    /\ SameSessions /\ UNCHANGED <<queue, op, unreadable, cachedPreKeys>>

-----------------------------------------------------------------------------
Locked(t) ==
    \/ AcquireAborted(t) \/ AcquireToSend(t) \/ AcquireToSeal(t) \/ AcquireToSync(t)
    \/ AcquireForReceipt(t) \/ AcquireToDecrypt(t) \/ AcquireToArchive(t)
    \/ LoadSession(t) \/ SaveSession(t) \/ Built(t) \/ Sealed(t)
    \/ FetchLocked(t) \/ ReceiptFetch(t) \/ DropSession(t) \/ AllDropped(t)

Runs(t) ==
    \/ Peek(t) \/ UseCached(t) \/ Fetch(t) \/ Locked(t)
    \/ SendAccepted(t) \/ GroupAccepted(t) \/ SealedAnswered(t) \/ SyncAnswered(t)
    \/ SendRejected(t) \/ RequestFails(t)

Next ==
    \/ \E t \in Task : Start(t) \/ Abort(t) \/ Runs(t)
    \/ DevicesChange

Spec == Init /\ [][Next]_vars

\* Promises that can settle are settled, and every request is answered.
FairSpec == Spec /\ \A t \in Task : WF_vars(Runs(t))

-----------------------------------------------------------------------------
(* Properties.                                                             *)

BundleSet == UNION {[devices -> Registration] : devices \in SUBSET Device}

Call ==
    [act : AllOperations \cup {"none"},
     pc : {"idle", "peek", "fetch", "queued", "build", "save", "fallback", "send",
           "drop", "refetch", "sealed", "fanout", "done"},
     parts : {<<>>, <<"receipt">>, <<"content", "receipt">>},
     device : Device, reg : Registration, given : BundleSet, bundles : BundleSet,
     todo : SUBSET Device, refresh : SUBSET Device,
     contents : SUBSET [device : Device, label : Registration, reg : Registration],
     retried : BOOLEAN, warm : BOOLEAN, repairing : BOOLEAN, abort : BOOLEAN, loaded : Record,
     result : {"none", "ok", "failed", "aborted", "noSession", "undecryptable", "mismatch"}]

\* A call waits for the lock once, and whoever is behind the head waits.
QueueOK ==
    /\ \A i, j \in 1 .. Len(queue) : queue[i] = queue[j] => i = j
    /\ \A i \in 2 .. Len(queue) : op[queue[i]].pc = "queued"

TypeOK ==
    /\ session \in [Device -> Record]
    /\ registered \in [Device -> Registration] /\ registered[Primary] # 0
    /\ op \in [Task -> Call]
    /\ queue \in Seq(Task) /\ QueueOK
    /\ cachedPreKeys \in BundleSet
    /\ overtaken \subseteq Task
    /\ unreadable \subseteq [act : AllOperations, warm : BOOLEAN]
    /\ moved \in BOOLEAN
    /\ budget \in [changes : 0 .. MaxChanges, failures : 0 .. MaxFailures, aborts : 0 .. MaxAborts,
                   any : 0 .. MaxTrouble]

\* Where a call is inside the serialized mutation.
Inside == {"build", "save", "fallback", "send", "drop", "refetch", "fanout"}

\* One call at a time is inside the mutation, the head of the chain, across
\* every way to leave it: the end of the call, an error, an abort, a sealed
\* send that leaves early, and a recovery that queues again in the same step.
LockInv ==
    /\ QueueOK
    /\ \A t \in Task : op[t].pc \in Inside => queue # <<>> /\ Head(queue) = t
    /\ \A i \in 1 .. Len(queue) : op[queue[i]].pc \in Inside \cup {"queued"}

\* No call saves a session record that another call has replaced since it
\* loaded it: the ratchet of an encryption is never undone by a decryption or
\* an archive that ran meanwhile (decryptIncoming, client.ts:1371-1378).
NoLostUpdate == overtaken = {}

\* A send that took its registration ids from its sessions, with or without a
\* repair, is accepted only if every device can read its entry, provided the
\* devices do not change under way: the server's answer corrects a stale
\* device set (buildWarmContentMessageContents, repairMismatchedDevices).
WarmSendsAreReadable ==
    ~moved => \A u \in unreadable : ~u.warm

\* One repair is enough: unless a request fails or the devices change under
\* way, no send that repairs ends with the server's device mismatch, whatever
\* sessions were missing, stale or left over (sendContentMessageLocked, 1555-1597).
RepairSuffices ==
    (~moved /\ budget.failures = MaxFailures)
        => \A t \in Task : op[t].act \in {"content", "given", "group", "receipt"}
                              => op[t].result # "mismatch"

\* A repair heals the sessions and not only the send that met it: when a send
\* that took its devices from its sessions goes out again, the sessions left are
\* those of the linked devices, each of its current registration, so that the
\* next send has nothing to repair; unless a request fails or devices change
\* under way (repairMismatchedDevices, client.ts:665-754).
RepairHeals ==
    (~moved /\ budget.failures = MaxFailures)
        => \A t \in Task : op[t].pc = "send" /\ op[t].warm /\ op[t].retried =>
              /\ listSessionDeviceIds = Linked
              /\ \A d \in Linked : session[d] = Current(registered[d])

\* The invariant that the proofs of WarmSendsAreReadable, RepairSuffices and
\* RepairHeals use.  It speaks of calls under way, as long as no device changes.
Sends == {"content", "given", "group"}
Encrypting == {"build", "save", "send"}

\* The first attempt of a send that takes its devices from its sessions.
Direct(o) == o.warm /\ ~o.retried

\* Which calls are where, and what they have not begun.
PlacesOK(o) ==
    /\ o.pc = "sealed" => o.act = "sealed"
    /\ o.pc = "fanout" => o.act = "group"
    /\ o.pc \in {"build", "save"} => o.act # "receipt"
    /\ o.pc \in {"peek", "fetch", "queued", "fallback"} =>
         /\ ~o.warm /\ ~o.retried /\ o.contents = {} /\ o.refresh = {}
         /\ o.bundles = NoBundles /\ o.todo = {}
    /\ o.pc \in {"drop", "refetch"} /\ o.act \in Sends => o.retried /\ o.contents = {}
    /\ o.act \notin Sends => ~o.warm
    /\ o.pc \in {"send", "refetch"} => o.todo = {}

\* Its bundles are up to date, but for those its caller has kept; with bundles
\* it is never warm.
GivenOK(o) == /\ o.act # "given" => o.given \in {NoBundles, Bundles}
              /\ o.warm => o.given = NoBundles

\* What has been loaded is still what is stored, and serves.
LoadedOK(o) ==
    o.pc = "save" => /\ o.loaded = session[NextDevice(o)]
                     /\ Carries(o, NextDevice(o))

\* The entries of a direct attempt are those of its sessions.
DirectOK(o) ==
    Direct(o) /\ o.pc \in Encrypting =>
        /\ o.bundles = NoBundles
        /\ o.todo \cup Addressed(o.contents) = listSessionDeviceIds
        /\ \A c \in o.contents : c.label = c.reg /\ c.reg = session[c.device].reg

\* Those of any other attempt are those of the linked devices, but for the first
\* one with bundles its caller has kept.
BundledOK(o) ==
    o.act \in Sends /\ ~Direct(o) /\ o.pc \in Encrypting
    /\ (o.act = "given" /\ o.given # NoBundles => o.retried) =>
        /\ o.bundles = Bundles
        /\ o.todo \cup Addressed(o.contents) = Linked
        /\ \A c \in o.contents : c.label = registered[c.device]

\* A send without its caller's bundles has dropped or refreshes every session
\* that is of no use; what it has encrypted is of the linked devices' sessions.
RepairedOK(o) ==
    o.act \in Sends /\ o.given = NoBundles /\ ~Direct(o) =>
        /\ o.pc \in Encrypting \cup {"drop", "refetch", "fallback"} =>
             \A d \in Linked \ o.refresh :
               session[d].state = "current" => session[d].reg = registered[d]
        /\ o.pc \in Encrypting =>
             \A c \in o.contents : /\ c.reg = registered[c.device]
                                   /\ session[c.device] = Current(c.reg)

\* Nor is a session left of a device that is not linked any more, unless the
\* server rejected the send without naming devices.
NoneLeftOver(o) ==
    budget.failures = MaxFailures /\ o.act \in Sends /\ o.given = NoBundles
    /\ ~Direct(o) =>
        /\ o.pc \in Encrypting \cup {"refetch", "fallback"} =>
             listSessionDeviceIds \subseteq Linked
        /\ o.pc = "drop" => listSessionDeviceIds \subseteq Linked \cup o.todo

\* The fanout of a group message and a repaired receipt match the devices.
AnsweredOK(o) ==
    /\ o.pc = "fanout" /\ o.warm => \A c \in o.contents : c.label = c.reg
    /\ o.pc = "fanout" /\ budget.failures = MaxFailures => Matches(o.contents)
    /\ o.pc = "send" /\ o.act = "receipt" /\ o.retried => Matches(o.contents)

Ready(o) ==
    /\ GivenOK(o) /\ LoadedOK(o) /\ DirectOK(o) /\ BundledOK(o)
    /\ RepairedOK(o) /\ NoneLeftOver(o) /\ AnsweredOK(o)

ReadyInv ==
    /\ \A t \in Task : PlacesOK(op[t])
    /\ ~moved => \A t \in Task : InFlight(t) => Ready(op[t])

\* Every call settles, also when its predecessors in the lock fail, are
\* aborted or find no session: the lock is always handed on.
EveryCallSettles ==
    \A t \in Task : InFlight(t) ~> op[t].pc = "done"

\* A recovery that meets no failing request establishes a fresh session with
\* its null message (client.ts:1455-1459).  Refuted by a run.
RecoveryEstablishes ==
    (~moved /\ budget.failures = MaxFailures)
        => \A t \in Task : op[t].repairing => op[t].result # "noSession"

\* What the server accepts of a content send every device can read, on the
\* bundle-driven path too (client.ts:1604-1610).  Refuted by a run.
AcceptedIsReadable ==
    ~moved => \A u \in unreadable : u.act # "content"

=============================================================================
