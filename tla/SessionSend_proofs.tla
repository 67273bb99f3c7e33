------------------------- MODULE SessionSend_proofs -------------------------
(***************************************************************************)
(* Sends and the session-state lock, for any number of calls, devices and  *)
(* troubles: the lock, the types, a recovery's abort, and the readiness of *)
(* a send for the server's answer.                                         *)
(*                                                                         *)
(* The lock: each step of a call is one of three moves of the chain: it    *)
(* stays where it is, in or out; it enters at the tail; it leaves from the *)
(* head.  The first lemmas say that each move keeps LockInv, the lemmas    *)
(* after them which action makes which move.                               *)
(*                                                                         *)
(* At the end: no call goes round in circles, and none waits in vain.      *)
(***************************************************************************)
EXTENDS SessionSend, FiniteSetTheorems, TLAPS, WellFoundedInduction

(* What the lock needs to know of the calls: each is a record with a       *)
(* place, and the chain is one of calls.                                   *)
Shape ==
    /\ op = [t \in Task |-> op[t]]
    /\ \A t \in Task : "pc" \in DOMAIN op[t]
    /\ queue \in Seq(Task)

-----------------------------------------------------------------------------
(* The moves.                                                              *)

(* A call stays outside, or enters at the tail if it waits from now on.    *)
LEMMA StaysOutside ==
    ASSUME Shape, LockInv, NEW t \in Task, NEW o, "pc" \in DOMAIN o,
           op[t].pc \notin Inside \cup {"queued"}, o.pc \notin Inside,
           Continue(t, o, queue)
    PROVE  Shape' /\ LockInv'
<1>1. op' = [op EXCEPT ![t] = o]
  BY DEF Continue
<1>2. /\ op' = [u \in Task |-> op'[u]]
      /\ op'[t] = o
      /\ \A u \in Task \ {t} : op'[u] = op[u]
  BY <1>1 DEF Shape
<1>3. \A i \in 1 .. Len(queue) : queue[i] \in Task \ {t}
  BY DEF Shape, LockInv
<1>4. CASE o.pc = "queued"
  <2>1. queue' = Append(queue, t)
    BY <1>4 DEF Continue
  <2>2. /\ queue' \in Seq(Task) /\ Len(queue') = Len(queue) + 1
        /\ queue'[Len(queue) + 1] = t
        /\ \A i \in 1 .. Len(queue) : queue'[i] = queue[i]
    BY <2>1 DEF Shape
  <2>3. Shape'
    BY <1>2, <2>2 DEF Shape
  <2>4. \A i, j \in 1 .. Len(queue') : queue'[i] = queue'[j] => i = j
    BY <1>3, <2>2 DEF Shape, LockInv, QueueOK
  <2>5. \A i \in 1 .. Len(queue') : op'[queue'[i]].pc \in Inside \cup {"queued"}
    BY <1>2, <1>3, <1>4, <2>2 DEF Shape, LockInv
  <2>6. \A i \in 2 .. Len(queue') : op'[queue'[i]].pc = "queued"
    BY <1>2, <1>3, <1>4, <2>2 DEF Shape, LockInv, QueueOK
  <2>7. \A u \in Task : op'[u].pc \in Inside => queue' # <<>> /\ Head(queue') = u
    BY <1>2, <1>4, <2>1, <2>2 DEF Shape, LockInv, Inside
  <2> QED BY <2>3, <2>4, <2>5, <2>6, <2>7 DEF LockInv, QueueOK
<1>5. CASE o.pc # "queued"
  <2>1. queue' = queue
    BY <1>5 DEF Continue
  <2> QED BY <1>2, <1>3, <2>1 DEF Shape, LockInv, QueueOK
<1> QED BY <1>4, <1>5

(* The head of the chain goes on inside.                                   *)
LEMMA StaysInside ==
    ASSUME Shape, LockInv, NEW t \in Task, NEW o, "pc" \in DOMAIN o,
           queue # <<>>, Head(queue) = t, o.pc \in Inside,
           Continue(t, o, queue)
    PROVE  Shape' /\ LockInv'
<1>1. op' = [op EXCEPT ![t] = o] /\ queue' = queue
  BY DEF Continue, Inside
<1>2. /\ op' = [u \in Task |-> op'[u]]
      /\ op'[t] = o
      /\ \A u \in Task \ {t} : op'[u] = op[u]
  BY <1>1 DEF Shape
<1>3. \A i \in 2 .. Len(queue) : queue[i] \in Task \ {t}
  BY DEF Shape, LockInv, QueueOK
<1> QED BY <1>1, <1>2, <1>3 DEF Shape, LockInv, QueueOK

(* The head leaves, and may queue up again.                                *)
LEMMA Leaves ==
    ASSUME Shape, LockInv, NEW t \in Task, NEW o, "pc" \in DOMAIN o,
           queue # <<>>, Head(queue) = t, o.pc \notin Inside,
           Continue(t, o, Tail(queue))
    PROVE  Shape' /\ LockInv'
<1>1. op' = [op EXCEPT ![t] = o]
  BY DEF Continue
<1>2. /\ op' = [u \in Task |-> op'[u]]
      /\ op'[t] = o
      /\ \A u \in Task \ {t} : op'[u] = op[u]
  BY <1>1 DEF Shape
<1> DEFINE rest == Tail(queue)
<1>3. /\ rest \in Seq(Task) /\ Len(rest) = Len(queue) - 1
      /\ \A i \in 1 .. Len(rest) : rest[i] = queue[i + 1]
  BY DEF Shape
<1>4. \A i \in 1 .. Len(rest) : rest[i] \in Task \ {t} /\ op[rest[i]].pc = "queued"
  BY <1>3 DEF Shape, LockInv, QueueOK
<1>5. \A i, j \in 1 .. Len(rest) : rest[i] = rest[j] => i = j
  BY <1>3 DEF Shape, LockInv, QueueOK
<1>6. \A u \in Task : op'[u].pc \notin Inside
  BY <1>2 DEF LockInv
<1> HIDE DEF rest
<1>7. CASE o.pc = "queued"
  <2>1. queue' = Append(rest, t)
    BY <1>7 DEF Continue, rest
  <2>2. /\ queue' \in Seq(Task) /\ Len(queue') = Len(rest) + 1
        /\ queue'[Len(rest) + 1] = t
        /\ \A i \in 1 .. Len(rest) : queue'[i] = rest[i]
    BY <1>3, <2>1
  <2>3. \A i, j \in 1 .. Len(queue') : queue'[i] = queue'[j] => i = j
    BY <1>3, <1>4, <1>5, <2>2
  <2>4. \A i \in 1 .. Len(queue') : op'[queue'[i]].pc = "queued"
    BY <1>2, <1>3, <1>4, <1>7, <2>2
  <2>5. Shape'
    BY <1>2, <2>2 DEF Shape
  <2>6. \A i \in 2 .. Len(queue') : i \in 1 .. Len(queue')
    BY <2>2
  <2> QED BY <1>6, <2>3, <2>4, <2>5, <2>6 DEF LockInv, QueueOK
<1>8. CASE o.pc # "queued"
  <2>1. queue' = rest
    BY <1>8 DEF Continue, rest
  <2>2. Shape'
    BY <1>2, <1>3, <2>1 DEF Shape
  <2>3. \A i \in 1 .. Len(queue') : op'[queue'[i]].pc = "queued"
    BY <1>2, <1>4, <2>1
  <2>4. \A i \in 2 .. Len(queue') : i \in 1 .. Len(queue')
    BY <1>3, <2>1
  <2> QED BY <1>5, <1>6, <2>1, <2>2, <2>3, <2>4 DEF LockInv, QueueOK
<1> QED BY <1>7, <1>8

-----------------------------------------------------------------------------
(* What the actions do with a call.                                        *)

(* The call at the head of the chain, inside or about to enter.            *)
AtHead(t) == queue # <<>> /\ Head(queue) = t

LEMMA InsideIsHead ==
    ASSUME LockInv, NEW t \in Task, op[t].pc \in Inside \/ HasLock(t)
    PROVE  AtHead(t)
BY DEF LockInv, HasLock, AtHead

(* A call begins, and a part of a recovery begins, outside the mutation.   *)
LEMMA IdleRecord ==
    /\ "pc" \in DOMAIN Idle
    /\ \A act : FirstStep(act) \in {"peek", "fetch", "queued"}
BY DEF Idle, FirstStep

LEMMA NextPartOutside ==
    ASSUME NEW o
    PROVE  "pc" \in DOMAIN NextPart(o) /\ NextPart(o).pc \in {"peek", "fetch", "queued"}
BY IdleRecord DEF NextPart, Idle

(* An ending releases the lock exactly if the call holds it.               *)
LEMMA EndsKeepsLock ==
    ASSUME Shape, LockInv, NEW t \in Task, NEW result, Ends(t, result),
           AtHead(t) \/ op[t].pc \notin Inside \cup {"queued"}
    PROVE  Shape' /\ LockInv'
<1> DEFINE over == [Idle EXCEPT !.act = op[t].act, !.pc = "done",
                                !.repairing = op[t].repairing, !.result = result]
           next == IF result = "ok" /\ op[t].parts # <<>> THEN NextPart(op[t]) ELSE over
<1>1. "pc" \in DOMAIN over /\ over.pc = "done"
  BY DEF Idle
<1>2. "pc" \in DOMAIN next /\ next.pc \notin Inside
  BY <1>1, NextPartOutside DEF Inside
<1>3. Continue(t, next, Released(t))
  BY DEF Ends
<1> HIDE DEF next
<1>4. CASE AtHead(t)
  BY <1>2, <1>3, <1>4, Leaves DEF Released, AtHead
<1>5. CASE op[t].pc \notin Inside \cup {"queued"}
  <2>1. Released(t) = queue
    BY <1>5 DEF Released, LockInv, Shape
  <2> QED BY <1>2, <1>3, <1>5, <2>1, StaysOutside
<1> QED BY <1>4, <1>5

(* A step of a call that writes no session.                                *)
LEMMA QuietStep ==
    ASSUME Shape, LockInv, NEW t \in Task,
           \/ Start(t) \/ Abort(t) \/ Peek(t) \/ UseCached(t) \/ Fetch(t)
           \/ AcquireAborted(t)
           \/ AcquireToSend(t) \/ AcquireToSeal(t) \/ AcquireToSync(t)
           \/ AcquireForReceipt(t) \/ AcquireToDecrypt(t) \/ AcquireToArchive(t)
           \/ LoadSession(t) \/ Built(t) \/ Sealed(t) \/ FetchLocked(t)
           \/ ReceiptFetch(t) \/ AllDropped(t)
    PROVE  Shape' /\ LockInv'
<1> USE DEF Inside
<1>0. "pc" \in DOMAIN op[t] /\ op = [u \in Task |-> op[u]]
  BY DEF Shape
<1>1. CASE Start(t)
  <2>1. PICK act \in Operations, d \in Device, r \in Registration :
          Continue(t, Started(act, d, r), queue)
    BY <1>1 DEF Start
  <2> DEFINE o == Started(act, d, r)
  <2>2. "pc" \in DOMAIN o /\ o.pc \in {"peek", "fetch", "queued"}
    BY IdleRecord DEF Started, Idle
  <2> HIDE DEF o
  <2>3. Continue(t, o, queue)
    BY <2>1 DEF o
  <2> QED BY <1>1, <2>2, <2>3, StaysOutside DEF Start
<1>2. CASE Abort(t)
  <2>1. op' = [op EXCEPT ![t].abort = TRUE] /\ queue' = queue
    BY <1>2 DEF Abort
  <2>2. /\ op' = [u \in Task |-> op'[u]]
        /\ \A u \in Task : "pc" \in DOMAIN op'[u] /\ op'[u].pc = op[u].pc
    BY <1>0, <2>1 DEF Shape
  <2> QED BY <2>1, <2>2 DEF Shape, LockInv, QueueOK
<1>3. CASE Peek(t)
  BY <1>0, <1>3, StaysOutside DEF Peek, Goes
<1>4. CASE Fetch(t)
  BY <1>0, <1>4, StaysOutside DEF Fetch
<1>5. CASE AcquireAborted(t)
  BY <1>5, InsideIsHead, EndsKeepsLock DEF AcquireAborted
<1>6. CASE AcquireToSend(t)
  BY <1>0, <1>6, InsideIsHead, StaysInside
     DEF AcquireToSend, Acquire, WarmStart, BundleStart, Goes, AtHead
<1>7. CASE AcquireToSeal(t) \/ AcquireToSync(t)
  BY <1>0, <1>7, InsideIsHead, StaysInside
     DEF AcquireToSeal, AcquireToSync, Acquire, BundleStart, AtHead
<1>8. CASE AcquireForReceipt(t)
  BY <1>0, <1>8, InsideIsHead, StaysInside, EndsKeepsLock
     DEF AcquireForReceipt, Acquire, Goes, AtHead
<1>9. CASE AcquireToDecrypt(t)
  BY <1>0, <1>9, InsideIsHead, StaysInside DEF AcquireToDecrypt, Acquire, AtHead
<1>10. CASE AcquireToArchive(t)
  BY <1>0, <1>10, InsideIsHead, StaysInside DEF AcquireToArchive, Acquire, AtHead
<1>11. CASE LoadSession(t)
  BY <1>0, <1>11, InsideIsHead, StaysInside, EndsKeepsLock DEF LoadSession, AtHead
<1>12. CASE Built(t)
  BY <1>0, <1>12, InsideIsHead, StaysInside, EndsKeepsLock DEF Built, Goes, AtHead
<1>13. CASE Sealed(t)
  BY <1>0, <1>13, InsideIsHead, Leaves DEF Sealed, Released, AtHead
<1>14. CASE FetchLocked(t)
  BY <1>0, <1>14, InsideIsHead, StaysInside DEF FetchLocked, AtHead
<1>15. CASE ReceiptFetch(t)
  BY <1>0, <1>15, InsideIsHead, StaysInside, EndsKeepsLock DEF ReceiptFetch, AtHead
<1>16. CASE AllDropped(t)
  BY <1>0, <1>16, InsideIsHead, StaysInside, EndsKeepsLock DEF AllDropped, Goes, AtHead
<1>17. CASE UseCached(t)
  BY <1>0, <1>17, StaysOutside DEF UseCached, Goes
<1> QED
  BY <1>1, <1>2, <1>3, <1>4, <1>5, <1>6, <1>7, <1>8, <1>9, <1>10, <1>11, <1>12,
     <1>13, <1>14, <1>15, <1>16, <1>17

(* A step that takes the server's answer.                                  *)
LEMMA AnswerStep ==
    ASSUME Shape, LockInv, NEW t \in Task,
           \/ SendAccepted(t) \/ GroupAccepted(t) \/ SealedAnswered(t)
           \/ SyncAnswered(t) \/ SendRejected(t) \/ RequestFails(t)
    PROVE  Shape' /\ LockInv'
<1> USE DEF Inside, AtServer
<1>0. "pc" \in DOMAIN op[t]
  BY DEF Shape
<1>a. ASSUME AtServer(t)
      PROVE  AtHead(t) \/ op[t].pc \notin Inside \cup {"queued"}
  BY <1>a, InsideIsHead
<1>1. CASE SendAccepted(t)
  BY <1>1, <1>a, EndsKeepsLock DEF SendAccepted, Accepted
<1>2. CASE GroupAccepted(t)
  <2>1. CASE op[t].pc = "send"
    BY <1>0, <1>2, <2>1, InsideIsHead, StaysInside DEF GroupAccepted, AtHead
  <2>2. CASE op[t].pc # "send"
    BY <1>2, <1>a, <2>2, EndsKeepsLock DEF GroupAccepted, Accepted
  <2> QED BY <2>1, <2>2
<1>3. CASE SealedAnswered(t) \/ SyncAnswered(t)
  BY <1>3, <1>a, EndsKeepsLock DEF SealedAnswered, SyncAnswered, Accepted
<1>4. CASE SendRejected(t)
  <2>1. CASE Repairable(op[t])
    <3>1. /\ "pc" \in DOMAIN Repair(op[t]) /\ Repair(op[t]).pc = "drop"
          /\ "pc" \in DOMAIN RepairAll(op[t]) /\ RepairAll(op[t]).pc = "drop"
      BY <1>0 DEF Repair, RepairAll
    <3>2. AtHead(t)
      BY <2>1, InsideIsHead DEF Repairable
    <3>3. Continue(t, Repair(op[t]), queue) \/ Continue(t, RepairAll(op[t]), queue)
      BY <1>4, <2>1 DEF SendRejected
    <3> QED BY <3>1, <3>2, <3>3, StaysInside DEF AtHead
  <2>2. CASE ~Repairable(op[t])
    BY <1>4, <1>a, <2>2, EndsKeepsLock DEF SendRejected
  <2> QED BY <2>1, <2>2
<1>5. CASE RequestFails(t)
  <2>1. AtHead(t) \/ op[t].pc \notin Inside \cup {"queued"}
    BY <1>5, InsideIsHead DEF RequestFails
  <2> QED BY <1>5, <2>1, EndsKeepsLock DEF RequestFails, Fails
<1> QED BY <1>1, <1>2, <1>3, <1>4, <1>5

(* A step that writes a session.                                           *)
LEMMA WriteStep ==
    ASSUME Shape, LockInv, NEW t \in Task, SaveSession(t) \/ DropSession(t)
    PROVE  Shape' /\ LockInv'
<1>0. "pc" \in DOMAIN op[t]
  BY DEF Shape
<1>1. AtHead(t)
  BY InsideIsHead DEF SaveSession, DropSession, Inside
<1>2. CASE SaveSession(t)
  BY <1>0, <1>1, <1>2, StaysInside, EndsKeepsLock DEF SaveSession, AtHead, Inside
<1>3. CASE DropSession(t)
  BY <1>0, <1>1, <1>3, StaysInside, EndsKeepsLock DEF DropSession, AtHead, Inside
<1> QED BY <1>2, <1>3

-----------------------------------------------------------------------------
(* At the start nobody holds the lock or waits for it.                     *)
LEMMA InitialLock == Init => Shape /\ LockInv /\ NoLostUpdate
BY DEF Init, Shape, LockInv, QueueOK, NoLostUpdate, Idle, Inside

(* Every step keeps the lock.                                              *)
LEMMA LockStep == Shape /\ LockInv /\ [Next]_vars => Shape' /\ LockInv'
<1> SUFFICES ASSUME Shape, LockInv, [Next]_vars PROVE Shape' /\ LockInv'
  OBVIOUS
<1>1. ASSUME NEW t \in Task, Start(t) \/ Abort(t) \/ Runs(t)
      PROVE  Shape' /\ LockInv'
  BY <1>1, QuietStep, AnswerStep, WriteStep DEF Runs, Locked
<1>2. CASE DevicesChange \/ UNCHANGED vars
  <2>1. UNCHANGED <<op, queue>>
    BY <1>2 DEF DevicesChange, vars
  <2> QED BY <2>1 DEF Shape, LockInv, QueueOK
<1> QED BY <1>1, <1>2 DEF Next

(* The lock is exclusive and its chain sound in every reachable state,     *)
(* for any number of calls, devices and failures, on every path that       *)
(* leaves the serialized mutation.                                         *)
THEOREM LockExclusive == Spec => []LockInv
BY InitialLock, LockStep, PTL DEF Spec

(* No record is saved over another call's: whoever has loaded a record is  *)
(* the one call inside, so whoever writes meanwhile is that call itself.   *)
THEOREM NothingOvertaken == Spec => []NoLostUpdate
<1>1. Shape /\ LockInv /\ NoLostUpdate /\ [Next]_vars => NoLostUpdate'
  <2> SUFFICES ASSUME Shape, LockInv, NoLostUpdate, [Next]_vars PROVE NoLostUpdate'
    OBVIOUS
  <2>1. ASSUME NEW t \in Task, SaveSession(t) \/ DropSession(t)
        PROVE  NoLostUpdate'
    <3>1. \A u \in Task \ {t} : op[u].pc # "save"
      BY <2>1, InsideIsHead DEF SaveSession, DropSession, Inside, AtHead
    <3>2. \E d, record : Write(t, d, record)
      BY <2>1 DEF SaveSession, DropSession
    <3> QED BY <3>1, <3>2 DEF Write, NoLostUpdate
  <2>2. CASE UNCHANGED overtaken
    BY <2>2 DEF NoLostUpdate
  <2>3. ASSUME NEW t \in Task, Start(t) \/ Abort(t) \/ Runs(t),
               ~SaveSession(t), ~DropSession(t)
        PROVE  UNCHANGED overtaken
    BY <2>3 DEF Runs, Locked, SameSessions, Start, Abort, Peek, UseCached, Fetch, AcquireAborted,
                AcquireToSend, AcquireToSeal, AcquireToSync, AcquireForReceipt,
                AcquireToDecrypt, AcquireToArchive, LoadSession, Built, Sealed,
                FetchLocked, ReceiptFetch, AllDropped, SendAccepted, GroupAccepted,
                SealedAnswered, SyncAnswered, SendRejected, RequestFails
  <2> QED BY <2>1, <2>2, <2>3 DEF Next, DevicesChange, SameSessions, vars
<1> QED BY <1>1, InitialLock, LockStep, PTL DEF Spec

-----------------------------------------------------------------------------
(* The types.                                                              *)

Content == [device : Device, label : Registration, reg : Registration]

Results == {"ok", "failed", "aborted", "noSession", "undecryptable",
            "mismatch"}

USE DEF Content, Results

(* The order of devices has minima: NextDevice is a device of its call.    *)
Less == {p \in Nat \X Nat : p[1] < p[2]}

LEMMA LessWellFounded == IsWellFoundedOn(Less, Nat)
  BY NatLessThanWellFounded, Zenon DEF OpToRel, Less

LEMMA NextDeviceListed ==
    ASSUME NEW o, o.todo \subseteq Device, o.todo # {}
    PROVE  NextDevice(o) \in o.todo
<1>1. o.todo \subseteq Nat
  BY SendAssumption DEF SendAssumption
<1>2. PICK d \in o.todo : \A e \in o.todo : <<e, d>> \notin Less
  BY <1>1, WFMin, LessWellFounded
<1>3. \A e \in o.todo : d <= e
  <2> SUFFICES ASSUME NEW e \in o.todo, e < d PROVE FALSE
    BY <1>1
  <2>1. <<e, d>> \in Nat \X Nat /\ <<e, d>>[1] < <<e, d>>[2]
    BY <1>1
  <2> QED BY <1>2, <2>1 DEF Less
<1> QED
  BY <1>3 DEF NextDevice

(* What TypeOK does not say of a call and its step relies on.              *)
Sane(o) ==
    /\ o.pc = "save" => o.todo # {}
    /\ o.pc # "idle" => o.act # "none"

TypeInv == TypeOK /\ \A t \in Task : Sane(op[t])

LEMMA NoSessionIsRecord == NoSession \in Record
  BY DEF Record

LEMMA RegistrationRecords ==
    \A r \in Registration : Current(r) \in Record /\ Archived(r) \in Record
  BY DEF Record

LEMMA RecordFields ==
    \A r \in Record : /\ r.reg \in Registration
                      /\ r.state \in {"none", "current", "archived"}
  BY SendAssumption
     DEF SendAssumption, Record, NoSession, Current, Archived, Registration

LEMMA BundlesType ==
    registered \in [Device -> Registration] =>
        /\ Bundles \in BundleSet /\ NoBundles \in BundleSet
        /\ Linked \subseteq Device
<1> SUFFICES ASSUME registered \in [Device -> Registration]
             PROVE  /\ Bundles \in BundleSet /\ NoBundles \in BundleSet
                    /\ Linked \subseteq Device
  OBVIOUS
<1>1. Linked \subseteq Device
  BY DEF Linked
<1>2. Bundles \in [Linked -> Registration]
  BY <1>1 DEF Bundles
<1>3. NoBundles \in [{} -> Registration]
  BY DEF NoBundles
<1> QED BY <1>1, <1>2, <1>3 DEF BundleSet

LEMMA IdleIsCall == Idle \in Call
  <1>1. NoBundles \in BundleSet
    BY DEF BundleSet, NoBundles
  <1>2. 0 \in Registration
    BY SendAssumption DEF SendAssumption, Registration
  <1>3. Primary \in Device BY SendAssumption DEF SendAssumption
  <1> QED BY <1>1, <1>2, <1>3, NoSessionIsRecord DEF Idle, Call

LEMMA ContinueTypes ==
    ASSUME TypeInv, NEW t \in Task, NEW o \in Call, Sane(o),
           NEW chain \in Seq(Task), Continue(t, o, chain)
    PROVE  /\ op' \in [Task -> Call] /\ queue' \in Seq(Task)
           /\ \A u \in Task : Sane(op'[u])
  BY DEF Continue, TypeInv, TypeOK

LEMMA ReleasedType ==
    ASSUME TypeInv, NEW t \in Task PROVE Released(t) \in Seq(Task)
  BY DEF Released, TypeInv, TypeOK

LEMMA NextPartType ==
    ASSUME NEW o \in Call, o.parts # <<>>
    PROVE  NextPart(o) \in Call /\ Sane(NextPart(o))
<1>1. \/ o.parts = <<"receipt">> \/ o.parts = <<"content", "receipt">>
  BY DEF Call
<1>2. /\ Head(o.parts) \in {"receipt", "content"}
      /\ Tail(o.parts) \in {<<>>, <<"receipt">>}
  <2>1. CASE o.parts = <<"receipt">>
    BY <2>1
  <2>2. CASE o.parts = <<"content", "receipt">>
    BY <2>2
  <2> QED BY <1>1, <2>1, <2>2
<1>3. FirstStep(Head(o.parts)) \in {"peek", "queued"}
  BY <1>2 DEF FirstStep
<1>4. NextPart(o) \in Call
  <2>1. ASSUME NEW act \in AllOperations, NEW pc \in {"peek", "queued"},
               NEW parts \in {<<>>, <<"receipt">>}
        PROVE  [Idle EXCEPT !.act = act, !.pc = pc, !.parts = parts,
                            !.device = o.device, !.repairing = TRUE,
                            !.abort = o.abort] \in Call
    BY IdleIsCall DEF Call
  <2>2. Head(o.parts) \in AllOperations
    BY <1>2 DEF AllOperations
  <2> QED BY <1>2, <1>3, <2>1, <2>2 DEF NextPart
<1>5. /\ NextPart(o).pc = FirstStep(Head(o.parts))
      /\ NextPart(o).act = Head(o.parts)
  BY DEF NextPart, Idle
<1> QED BY <1>2, <1>3, <1>4, <1>5 DEF Sane

LEMMA EndsTypes ==
    ASSUME TypeInv, NEW t \in Task, op[t].pc # "idle", NEW r \in Results,
           Ends(t, r)
    PROVE  /\ op' \in [Task -> Call] /\ queue' \in Seq(Task)
           /\ \A u \in Task : Sane(op'[u])
<1> DEFINE next == IF r = "ok" /\ op[t].parts # <<>> THEN NextPart(op[t])
                   ELSE [Idle EXCEPT !.act = op[t].act, !.pc = "done",
                                  !.repairing = op[t].repairing,
                                  !.result = r]
<1>1. op[t] \in Call
  BY DEF TypeInv, TypeOK
<1>2. next \in Call /\ Sane(next)
  <2>1. CASE r = "ok" /\ op[t].parts # <<>>
    BY <1>1, <2>1, NextPartType
  <2>2. CASE ~(r = "ok" /\ op[t].parts # <<>>)
    <3>1. next = [Idle EXCEPT !.act = op[t].act, !.pc = "done",
                              !.repairing = op[t].repairing, !.result = r]
      BY <2>2
    <3>2. next.pc = "done" /\ next.act = op[t].act
      BY <3>1 DEF Idle
    <3>3. op[t].act # "none"
      BY DEF TypeInv, Sane
    <3> HIDE DEF next
    <3>4. next \in Call
      BY ZenonT(40), <1>1, <3>1, IdleIsCall DEF Call
    <3> QED BY <3>2, <3>3, <3>4 DEF Sane
  <2> QED BY <2>1, <2>2
<1>3. Continue(t, next, Released(t))
  BY DEF Ends
<1> HIDE DEF next
<1> QED BY <1>2, <1>3, ReleasedType, ContinueTypes

-----------------------------------------------------------------------------
(* What an action leaves well-typed.                                       *)
CallTypes ==
    /\ op' \in [Task -> Call] /\ queue' \in Seq(Task)
    /\ \A t \in Task : Sane(op'[t])

LEMMA StartTypes == ASSUME TypeInv, NEW t \in Task, Start(t) PROVE CallTypes
<1>1. PICK act \in Operations, d \in Device, r \in Registration :
        Continue(t, Started(act, d, r), queue)
  BY DEF Start
<1> DEFINE first == IF act = "recover" THEN "renew" ELSE act
           parts == IF act = "recover" THEN <<"content", "receipt">> ELSE <<>>
           given == IF act = "sync" THEN Bundles ELSE NoBundles
           o == [Idle EXCEPT !.act = first, !.pc = FirstStep(first),
                             !.device = d, !.reg = r, !.parts = parts,
                             !.given = given]
<1>2. first \in AllOperations
  BY SendAssumption DEF SendAssumption, AllOperations
<1>3. FirstStep(first) \in {"peek", "fetch", "queued"}
  BY DEF FirstStep
<1>4. given \in BundleSet
  BY BundlesType DEF TypeInv, TypeOK
<1>5. parts \in {<<>>, <<"receipt">>, <<"content", "receipt">>}
  OBVIOUS
<1>6. Continue(t, o, queue)
  BY <1>1 DEF Started
<1>7. o.pc = FirstStep(first) /\ o.act = first
  BY DEF Idle
<1> HIDE DEF first, parts, given
<1>8. o \in Call
  BY <1>2, <1>3, <1>4, <1>5, IdleIsCall DEF Call
<1>9. Sane(o)
  BY <1>2, <1>3, <1>7 DEF Sane, AllOperations
<1> HIDE DEF o
<1> QED BY <1>6, <1>8, <1>9, ContinueTypes DEF CallTypes, TypeInv, TypeOK

(* A call that goes on: its new record is of the type.                     *)
LEMMA GoesOn ==
    ASSUME TypeInv, NEW t \in Task, NEW o \in Call, Sane(o),
           Continue(t, o, queue)
    PROVE  CallTypes
  BY ContinueTypes DEF CallTypes, TypeInv, TypeOK

LEMMA GoesTypes ==
    ASSUME TypeInv, NEW t \in Task, op[t].pc # "idle",
           NEW pc \in {"queued", "build", "fallback", "send", "refetch",
                       "fetch"},
           Goes(t, pc)
    PROVE  CallTypes
<1>0. op[t] \in Call /\ Sane(op[t])
  BY DEF TypeInv, TypeOK
<1>1. [op[t] EXCEPT !.pc = pc] \in Call
  BY <1>0 DEF Call
<1>2. Sane([op[t] EXCEPT !.pc = pc])
  BY <1>0 DEF Call, Sane
<1> QED BY <1>1, <1>2, GoesOn DEF Goes

LEMMA EndTypes ==
    ASSUME TypeInv, NEW t \in Task, op[t].pc # "idle",
           NEW r \in Results,
           Ends(t, r)
    PROVE  CallTypes
  BY EndsTypes DEF CallTypes

LEMMA AbortTypes == ASSUME TypeInv, NEW t \in Task, Abort(t) PROVE CallTypes
<1>1. op' = [op EXCEPT ![t] = [op[t] EXCEPT !.abort = TRUE]] /\ queue' = queue
  BY DEF Abort
<1>0. op[t] \in Call /\ Sane(op[t])
  BY DEF TypeInv, TypeOK
<1>2. [op[t] EXCEPT !.abort = TRUE] \in Call
  BY <1>0 DEF Call
<1>3. Sane([op[t] EXCEPT !.abort = TRUE])
  BY <1>0 DEF Call, Sane
<1> QED BY <1>1, <1>2, <1>3 DEF CallTypes, TypeInv, TypeOK

LEMMA PrepareTypes ==
    ASSUME TypeInv, NEW t \in Task, Peek(t) \/ UseCached(t) \/ Fetch(t)
    PROVE  CallTypes
<1>1. CASE Peek(t)
  BY <1>1, GoesTypes DEF Peek
<1>0. op[t] \in Call /\ Sane(op[t])
  BY DEF TypeInv, TypeOK
<1>2. ASSUME op[t].pc # "idle", NEW given \in BundleSet,
             Continue(t, [op[t] EXCEPT !.pc = "queued", !.given = given], queue)
      PROVE  CallTypes
  <2>1. [op[t] EXCEPT !.pc = "queued", !.given = given] \in Call
    BY <1>0 DEF Call
  <2>2. Sane([op[t] EXCEPT !.pc = "queued", !.given = given])
    BY <1>0, <1>2 DEF Call, Sane
  <2> QED BY <1>2, <2>1, <2>2, GoesOn
<1>3. CASE Fetch(t)
  BY <1>2, <1>3, BundlesType DEF Fetch, TypeInv, TypeOK
<1>4. CASE UseCached(t)
  BY <1>2, <1>4, GoesTypes DEF UseCached, TypeInv, TypeOK
<1> QED BY <1>1, <1>3, <1>4

(* What the updates of a record keep of it.                                *)
LEMMA Updates ==
    ASSUME NEW o \in Call, o.act # "none", NEW todo \in SUBSET Device,
           NEW warm \in BOOLEAN, NEW bundles \in BundleSet,
           NEW pc \in {"build", "drop"}
    PROVE  /\ [o EXCEPT !.pc = pc, !.todo = todo] \in Call
           /\ [o EXCEPT !.pc = pc, !.todo = todo, !.warm = warm] \in Call
           /\ [o EXCEPT !.pc = pc, !.bundles = bundles, !.todo = todo] \in Call
           /\ Sane([o EXCEPT !.pc = pc, !.todo = todo])
           /\ Sane([o EXCEPT !.pc = pc, !.todo = todo, !.warm = warm])
           /\ Sane([o EXCEPT !.pc = pc, !.bundles = bundles, !.todo = todo])
<1>1. [o EXCEPT !.pc = pc, !.todo = todo] \in Call
  BY DEF Call
<1>2. [o EXCEPT !.pc = pc, !.todo = todo, !.warm = warm] \in Call
  BY DEF Call
<1>3. [o EXCEPT !.pc = pc, !.bundles = bundles, !.todo = todo] \in Call
  BY DEF Call
<1>4. Sane([o EXCEPT !.pc = pc, !.todo = todo])
  BY DEF Call, Sane
<1>5. Sane([o EXCEPT !.pc = pc, !.todo = todo, !.warm = warm])
  BY DEF Call, Sane
<1>6. Sane([o EXCEPT !.pc = pc, !.bundles = bundles, !.todo = todo])
  BY DEF Call, Sane
<1> QED BY <1>1, <1>2, <1>3, <1>4, <1>5, <1>6

LEMMA BundlesListed ==
    ASSUME NEW b \in BundleSet PROVE DOMAIN b \subseteq Device
  BY DEF BundleSet

LEMMA AcquireTypes ==
    ASSUME TypeInv, NEW t \in Task,
           \/ AcquireAborted(t) \/ AcquireToSend(t) \/ AcquireToSeal(t)
           \/ AcquireToSync(t) \/ AcquireForReceipt(t)
           \/ AcquireToDecrypt(t) \/ AcquireToArchive(t)
    PROVE  CallTypes
<1>1. op[t] \in Call
  BY DEF TypeInv, TypeOK
<1>2. op[t].pc = "queued"
  BY DEF AcquireAborted, AcquireToSend, AcquireToSeal, AcquireToSync,
         AcquireForReceipt, AcquireToDecrypt, AcquireToArchive, Acquire,
         HasLock
<1>3. /\ op[t].bundles \in BundleSet /\ op[t].given \in BundleSet
      /\ op[t].warm \in BOOLEAN
      /\ op[t].device \in Device /\ op[t].act # "none"
  BY <1>1, <1>2 DEF Call, TypeInv, Sane
<1>4. ASSUME BundleStart(t) PROVE CallTypes
  <2>1. DOMAIN op[t].given \subseteq Device
    BY <1>3, BundlesListed
  <2> QED BY <1>1, <1>2, <1>3, <1>4, <2>1, Updates, GoesOn DEF BundleStart
<1>5. ASSUME WarmStart(t) PROVE CallTypes
  <2>1. listSessionDeviceIds \subseteq Device
    BY DEF listSessionDeviceIds
  <2> QED
    BY <1>1, <1>2, <1>3, <1>5, <2>1, Updates, GoesOn, GoesTypes DEF WarmStart
<1>6. CASE AcquireAborted(t)
  BY <1>2, <1>6, EndTypes DEF AcquireAborted
<1>7. CASE AcquireToSend(t) \/ AcquireToSeal(t) \/ AcquireToSync(t)
  BY <1>4, <1>5, <1>7 DEF AcquireToSend, AcquireToSeal, AcquireToSync
<1>8. CASE AcquireForReceipt(t)
  <2>1. ASSUME NEW r \in Registration,
               LET c == {Entry(op[t].device, r, r)} IN
               Continue(t, [op[t] EXCEPT !.pc = "send", !.contents = c], queue)
        PROVE  CallTypes
    <3> DEFINE c == {Entry(op[t].device, r, r)}
    <3>1. c \in SUBSET Content
      BY <1>3 DEF Entry
    <3>2. Continue(t, [op[t] EXCEPT !.pc = "send", !.contents = c], queue)
      BY <2>1
    <3> HIDE DEF c
    <3>3. [op[t] EXCEPT !.pc = "send", !.contents = c] \in Call
      BY <1>1, <3>1 DEF Call
    <3>4. Sane([op[t] EXCEPT !.pc = "send", !.contents = c])
      BY <1>1, <1>2 DEF TypeInv, Call, Sane
    <3> QED BY <3>2, <3>3, <3>4, GoesOn
  <2>2. session[op[t].device].reg \in Registration
    BY <1>3, RecordFields DEF TypeInv, TypeOK
  <2> QED BY <1>2, <1>8, <2>1, <2>2, GoesTypes, EndTypes DEF AcquireForReceipt
<1>9. CASE AcquireToDecrypt(t)
  <2>1. Continue(t, [op[t] EXCEPT !.pc = "build", !.todo = {op[t].device}],
                 queue)
    BY <1>9 DEF AcquireToDecrypt
  <2>2. {op[t].device} \in SUBSET Device
    BY <1>3
  <2> QED BY <1>1, <1>3, <2>1, <2>2, Updates, GoesOn
<1>10. CASE AcquireToArchive(t)
  <2> DEFINE todo == IF op[t].act = "archive" THEN {op[t].device}
                     ELSE {d \in Device : session[d].state # "none"}
  <2>1. todo \in SUBSET Device
    BY <1>3
  <2>2. Continue(t, [op[t] EXCEPT !.pc = "drop", !.todo = todo], queue)
    BY <1>10 DEF AcquireToArchive
  <2> HIDE DEF todo
  <2> QED BY <1>1, <1>2, <1>3, <2>1, <2>2, Updates, GoesOn
<1> QED BY <1>6, <1>7, <1>8, <1>9, <1>10

LEMMA LoadTypes ==
    ASSUME TypeInv, NEW t \in Task, LoadSession(t) PROVE CallTypes
<1> DEFINE loaded == session[NextDevice(op[t])]
           o == [op[t] EXCEPT !.pc = "save", !.loaded = loaded]
<1>1. op[t] \in Call /\ Sane(op[t]) /\ op[t].pc = "build" /\ op[t].todo # {}
  BY DEF LoadSession, TypeInv, TypeOK
<1>2. op[t].todo \subseteq Device
  BY <1>1 DEF Call
<1>3. loaded \in Record
  BY <1>1, <1>2, NextDeviceListed DEF TypeInv, TypeOK
<1> HIDE DEF loaded
<1>4. o \in Call
  BY <1>1, <1>3 DEF Call
<1>5. Sane(o)
  BY <1>1 DEF Call, Sane
<1>6. \/ Continue(t, o, queue)
      \/ Ends(t, "noSession") \/ Ends(t, "undecryptable")
  BY DEF LoadSession, loaded
<1> HIDE DEF o
<1> QED BY <1>1, <1>4, <1>5, <1>6, GoesOn, EndTypes

(* What is saved is a record, and its entry one of this device.            *)
LEMMA SavedTypes ==
    ASSUME NEW o \in Call, NEW d \in Device
    PROVE  SavedRecord(o, d) \in Record /\ Label(o, d) \in Registration
<1>1. o.reg \in Registration /\ o.loaded \in Record /\ o.bundles \in BundleSet
  BY DEF Call
<1>2. o.loaded.reg \in Registration
  BY <1>1, RecordFields
<1>3. d \in DOMAIN o.bundles => o.bundles[d] \in Registration
  BY <1>1 DEF BundleSet
<1> QED BY <1>1, <1>2, <1>3, RegistrationRecords DEF SavedRecord, Label

LEMMA SaveTypes == ASSUME TypeInv, NEW t \in Task, SaveSession(t)
                   PROVE  CallTypes /\ session' \in [Device -> Record]
<1> DEFINE d == NextDevice(op[t])
           record == SavedRecord(op[t], d)
           entries == op[t].contents
                        \cup {Entry(d, Label(op[t], d), record.reg)}
           o == [op[t] EXCEPT !.pc = "build", !.todo = @ \ {d},
                              !.loaded = NoSession,
                              !.contents = entries]
<1>1. op[t] \in Call /\ Sane(op[t]) /\ op[t].pc = "save"
  BY DEF SaveSession, TypeInv, TypeOK
<1>2. op[t].todo \subseteq Device /\ op[t].todo # {}
  BY <1>1 DEF Call, Sane
<1>3. d \in Device
  BY <1>2, NextDeviceListed
<1>4. record \in Record /\ Label(op[t], d) \in Registration
  BY <1>1, <1>3, SavedTypes
<1>5. record.reg \in Registration
  BY <1>4, RecordFields
<1> HIDE DEF d, record
<1>6. entries \in SUBSET Content
  BY <1>1, <1>3, <1>4, <1>5 DEF Call, Entry
<1> HIDE DEF entries
<1>7. o \in Call
  BY <1>1, <1>2, <1>6, NoSessionIsRecord DEF Call
<1>8. Sane(o)
  BY <1>1 DEF Call, Sane
<1>9. Continue(t, o, queue) \/ Ends(t, "failed")
  BY DEF SaveSession, d, record, entries
<1>10. session' = [session EXCEPT ![d] = record]
  BY DEF SaveSession, Write, d, record
<1> HIDE DEF o
<1>11. CallTypes
  BY <1>1, <1>7, <1>8, <1>9, GoesOn, EndTypes
<1>12. session' \in [Device -> Record]
  BY <1>4, <1>10 DEF TypeInv, TypeOK
<1> QED BY <1>11, <1>12

LEMMA DropTypes == ASSUME TypeInv, NEW t \in Task, DropSession(t)
                   PROVE  CallTypes /\ session' \in [Device -> Record]
<1> DEFINE d == NextDevice(op[t])
           todo == op[t].todo \ {d}
<1>1. op[t] \in Call /\ Sane(op[t]) /\ op[t].pc = "drop" /\ op[t].todo # {}
  BY DEF DropSession, TypeInv, TypeOK
<1>2. op[t].todo \subseteq Device
  BY <1>1 DEF Call
<1>3. d \in Device
  BY <1>1, <1>2, NextDeviceListed
<1>4. Dropped(op[t], d) \in Record
  <2>1. session[d].reg \in Registration
    BY <1>3, RecordFields DEF TypeInv, TypeOK
  <2> QED BY <2>1, NoSessionIsRecord, RegistrationRecords DEF Dropped
<1>5. session' = [session EXCEPT ![d] = Dropped(op[t], d)]
  BY DEF DropSession, Write
<1>6. session' \in [Device -> Record]
  BY <1>4, <1>5 DEF TypeInv, TypeOK
<1>7. todo \in SUBSET Device
  BY <1>2
<1>8. Continue(t, [op[t] EXCEPT !.todo = todo], queue) \/ Ends(t, "failed")
  BY DEF DropSession
<1> HIDE DEF todo
<1>9. [op[t] EXCEPT !.todo = todo] \in Call
  BY <1>1, <1>7 DEF Call
<1>10. Sane([op[t] EXCEPT !.todo = todo])
  BY <1>1 DEF Call, Sane
<1> QED BY <1>1, <1>6, <1>8, <1>9, <1>10, GoesOn, EndTypes

LEMMA SealedTypes == ASSUME TypeInv, NEW t \in Task, Sealed(t) PROVE CallTypes
<1> DEFINE o == [op[t] EXCEPT !.pc = "sealed"]
<1>1. op[t] \in Call /\ Sane(op[t]) /\ op[t].pc = "build"
  BY DEF Sealed, TypeInv, TypeOK
<1>2. o \in Call
  BY <1>1 DEF Call
<1>3. Sane(o)
  BY <1>1 DEF Call, Sane
<1>4. Continue(t, o, Released(t))
  BY DEF Sealed
<1> HIDE DEF o
<1> QED BY <1>2, <1>3, <1>4, ReleasedType, ContinueTypes DEF CallTypes

LEMMA FetchTypes ==
    ASSUME TypeInv, NEW t \in Task, FetchLocked(t) \/ ReceiptFetch(t)
    PROVE  CallTypes
<1>1. op[t] \in Call /\ Sane(op[t]) /\ op[t].pc # "idle" /\ op[t].act # "none"
  BY DEF FetchLocked, ReceiptFetch, TypeInv, TypeOK, Sane
<1>2. Bundles \in BundleSet /\ Linked \subseteq Device
  BY BundlesType DEF TypeInv, TypeOK
<1>3. CASE FetchLocked(t)
  BY <1>1, <1>2, <1>3, Updates, GoesOn DEF FetchLocked
<1>4. CASE ReceiptFetch(t)
  <2> DEFINE devices == IF op[t].pc = "fallback"
                        THEN Linked \cap {op[t].device} ELSE Linked
             contents == {Entry(d, registered[d], registered[d]) :
                            d \in devices}
             o == [op[t] EXCEPT !.pc = "send", !.contents = contents]
  <2>1. Continue(t, o, queue) \/ Ends(t, "failed")
    BY <1>4 DEF ReceiptFetch
  <2>2. \A d \in devices : d \in Device /\ registered[d] \in Registration
    BY <1>2 DEF TypeInv, TypeOK
  <2>3. contents \in SUBSET Content
    BY <2>2 DEF Entry
  <2> HIDE DEF contents
  <2>4. o \in Call
    BY <1>1, <2>3 DEF Call
  <2>5. Sane(o)
    BY <1>1 DEF Call, Sane
  <2> HIDE DEF o
  <2> QED BY <1>1, <2>1, <2>4, <2>5, GoesOn, EndTypes
<1> QED BY <1>3, <1>4

LEMMA DoneTypes ==
    ASSUME TypeInv, NEW t \in Task, Built(t) \/ AllDropped(t)
    PROVE  CallTypes
  BY GoesTypes, EndTypes DEF Built, AllDropped

LEMMA RepairTypes ==
    ASSUME TypeInv, NEW t \in Task, op[t].pc = "send",
           \/ Continue(t, Repair(op[t]), queue)
           \/ Continue(t, RepairAll(op[t]), queue)
    PROVE  CallTypes
<1>1. op[t] \in Call /\ Sane(op[t])
  BY DEF TypeInv, TypeOK
<1>2. /\ op[t].contents \subseteq Content
      /\ op[t].act # "none"
  BY <1>1 DEF Call, Sane
<1>3. /\ Extra(op[t].contents) \cup Stale(op[t].contents) \in SUBSET Device
      /\ Missing(op[t].contents) \cup Stale(op[t].contents) \in SUBSET Device
  BY <1>2 DEF Extra, Stale, Missing, Addressed, Linked
<1>4. ASSUME NEW todo \in SUBSET Device, NEW refresh \in SUBSET Device
      PROVE  LET o == [op[t] EXCEPT !.pc = "drop", !.retried = TRUE,
                                    !.bundles = NoBundles, !.contents = {},
                                    !.todo = todo, !.refresh = refresh]
             IN  o \in Call /\ Sane(o)
  <2>1. NoBundles \in BundleSet
    BY BundlesType DEF TypeInv, TypeOK
  <2> DEFINE o == [op[t] EXCEPT !.pc = "drop", !.retried = TRUE,
                                !.bundles = NoBundles, !.contents = {},
                                !.todo = todo, !.refresh = refresh]
  <2>2. o \in Call
    BY <1>1, <2>1 DEF Call
  <2>3. Sane(o)
    BY <1>1, <1>2 DEF Call, Sane
  <2> QED BY <2>2, <2>3
<1>5. Repair(op[t]) \in Call /\ Sane(Repair(op[t]))
  BY <1>3, <1>4 DEF Repair
<1>6. RepairAll(op[t]) \in Call /\ Sane(RepairAll(op[t]))
  <2> DEFINE o == [op[t] EXCEPT !.pc = "drop", !.retried = TRUE,
                                !.bundles = NoBundles, !.contents = {},
                                !.todo = {}, !.refresh = Device]
  <2>1. NoBundles \in BundleSet
    BY BundlesType DEF TypeInv, TypeOK
  <2>2. o \in Call
    BY <1>1, <2>1 DEF Call
  <2>3. Sane(o)
    BY <1>1, <1>2 DEF Call, Sane
  <2>4. RepairAll(op[t]) = o
    BY <1>1 DEF Repair, RepairAll, Call
  <2> QED BY <2>2, <2>3, <2>4
<1> QED BY <1>5, <1>6, GoesOn

LEMMA FanoutTypes ==
    ASSUME TypeInv, NEW t \in Task
    PROVE  FanoutContents(op[t]) \in SUBSET Content
<1>1. op[t] \in Call
  BY DEF TypeInv, TypeOK
<1>2. op[t].given \in BundleSet
  BY <1>1 DEF Call
<1>3. \A d \in DOMAIN op[t].given :
        d \in Device /\ op[t].given[d] \in Registration
  BY <1>2 DEF BundleSet
<1>4. \A d \in listSessionDeviceIds :
        d \in Device /\ session[d].reg \in Registration
  BY RecordFields DEF listSessionDeviceIds, TypeInv, TypeOK
<1> QED BY <1>3, <1>4 DEF FanoutContents, Entry

LEMMA AnswerTypes ==
    ASSUME TypeInv, NEW t \in Task,
           \/ SendAccepted(t) \/ GroupAccepted(t) \/ SealedAnswered(t)
           \/ SyncAnswered(t) \/ SendRejected(t) \/ RequestFails(t)
    PROVE  /\ CallTypes
           /\ unreadable' \subseteq [act : AllOperations, warm : BOOLEAN]
<1>1. op[t] \in Call /\ Sane(op[t])
  BY DEF TypeInv, TypeOK
<1>2. op[t].pc # "idle"
  BY DEF SendAccepted, GroupAccepted, SealedAnswered, SyncAnswered,
         SendRejected, RequestFails, Accepted, AtServer
<1>3. op[t].act \in AllOperations /\ op[t].warm \in BOOLEAN
  BY <1>1, <1>2 DEF Call, Sane
<1>4. unreadable' = unreadable \/ Deliver(op[t])
  BY DEF SendAccepted, GroupAccepted, SealedAnswered, SyncAnswered,
         SendRejected, RequestFails, Accepted
<1>5. unreadable' \subseteq [act : AllOperations, warm : BOOLEAN]
  BY <1>3, <1>4 DEF Deliver, TypeInv, TypeOK
<1>6. ASSUME SendAccepted(t) PROVE CallTypes
  BY <1>2, <1>6, EndTypes DEF SendAccepted
<1>7. ASSUME GroupAccepted(t) PROVE CallTypes
  <2> DEFINE contents == FanoutContents(op[t])
             o == [op[t] EXCEPT !.pc = "fanout", !.contents = contents]
  <2>1. Continue(t, o, queue) \/ Ends(t, "ok")
    BY <1>7 DEF GroupAccepted
  <2>2. contents \in SUBSET Content
    BY FanoutTypes
  <2> HIDE DEF contents
  <2>3. o \in Call
    BY <1>1, <2>2 DEF Call
  <2>4. Sane(o)
    BY <1>1, <1>2 DEF Call, Sane
  <2> HIDE DEF o
  <2> QED BY <1>2, <2>1, <2>3, <2>4, GoesOn, EndTypes
<1>8. ASSUME SealedAnswered(t) \/ SyncAnswered(t) PROVE CallTypes
  BY <1>2, <1>8, EndTypes DEF SealedAnswered, SyncAnswered
<1>9. ASSUME SendRejected(t) PROVE CallTypes
  BY <1>2, <1>9, RepairTypes, EndTypes DEF SendRejected, Repairable
<1>10. ASSUME RequestFails(t) PROVE CallTypes
  BY <1>2, <1>10, EndTypes DEF RequestFails, Fails
<1> QED BY <1>5, <1>6, <1>7, <1>8, <1>9, <1>10

-----------------------------------------------------------------------------
LEMMA InitTypes == Init => TypeInv
<1> SUFFICES ASSUME Init PROVE TypeInv
  OBVIOUS
<1>1. 0 \in Registration /\ 1 \in Registration
  BY SendAssumption DEF SendAssumption, Registration
<1>2. session \in [Device -> Record] /\ registered \in [Device -> Registration]
      /\ registered[Primary] # 0
  BY <1>1, NoSessionIsRecord, RegistrationRecords, SendAssumption
     DEF SendAssumption, Init
<1>3. op \in [Task -> Call] /\ queue \in Seq(Task) /\ QueueOK
  BY IdleIsCall DEF Init, QueueOK
<1>4. \A t \in Task : Sane(op[t])
  BY DEF Init, Sane, Idle
<1>5. budget \in [changes : 0 .. MaxChanges, failures : 0 .. MaxFailures,
                   aborts : 0 .. MaxAborts, any : 0 .. MaxTrouble]
  BY SendAssumption DEF SendAssumption, Init
<1>6. cachedPreKeys \in BundleSet
  BY IdleIsCall DEF Init, Idle, Call
<1> QED BY <1>2, <1>3, <1>4, <1>5, <1>6 DEF Init, TypeInv, TypeOK

(* The budgets only shrink.                                                *)
LEMMA BudgetTypes ==
    ASSUME TypeInv, NEW kind \in {"changes", "failures", "aborts"},
           UNCHANGED budget \/ (CanSpend(kind) /\ Spend(kind))
    PROVE  budget' \in [changes : 0 .. MaxChanges, failures : 0 .. MaxFailures,
                        aborts : 0 .. MaxAborts, any : 0 .. MaxTrouble]
<1>1. /\ budget \in [changes : 0 .. MaxChanges, failures : 0 .. MaxFailures,
                     aborts : 0 .. MaxAborts, any : 0 .. MaxTrouble]
      /\ MaxChanges \in Nat /\ MaxFailures \in Nat /\ MaxAborts \in Nat
      /\ MaxTrouble \in Nat
  BY SendAssumption DEF SendAssumption, TypeInv, TypeOK
<1>2. CASE UNCHANGED budget
  BY <1>1, <1>2
<1>3. CASE CanSpend(kind) /\ Spend(kind)
  <2>1. budget.any - 1 \in 0 .. MaxTrouble
    BY <1>1, <1>3 DEF CanSpend
  <2>2. CASE kind = "changes"
    <3>1. budget.changes - 1 \in 0 .. MaxChanges
      BY <1>1, <1>3, <2>2 DEF CanSpend
    <3> QED BY <1>1, <1>3, <2>1, <2>2, <3>1 DEF Spend
  <2>3. CASE kind = "failures"
    <3>1. budget.failures - 1 \in 0 .. MaxFailures
      BY <1>1, <1>3, <2>3 DEF CanSpend
    <3> QED BY <1>1, <1>3, <2>1, <2>3, <3>1 DEF Spend
  <2>4. CASE kind = "aborts"
    <3>1. budget.aborts - 1 \in 0 .. MaxAborts
      BY <1>1, <1>3, <2>4 DEF CanSpend
    <3> QED BY <1>1, <1>3, <2>1, <2>4, <3>1 DEF Spend
  <2> QED BY <2>2, <2>3, <2>4
<1> QED BY <1>2, <1>3

(* A call of the host changes no registration and spends as it may.        *)
LEMMA WorldTypes ==
    ASSUME NEW t \in Task, Start(t) \/ Abort(t) \/ Runs(t)
    PROVE  /\ UNCHANGED <<registered, moved>>
           /\ \/ UNCHANGED budget
              \/ \E kind \in {"changes", "failures", "aborts"} :
                   CanSpend(kind) /\ Spend(kind)
<1>1. CASE Start(t) \/ Abort(t)
  BY <1>1 DEF Start, Abort, SameWorld
<1>2. CASE Runs(t)
  <2>1. CASE Peek(t) \/ UseCached(t) \/ Fetch(t)
    BY <2>1 DEF Peek, UseCached, Fetch, SameWorld
  <2>2. CASE Locked(t)
    BY <2>2
       DEF Locked, SameWorld, AcquireAborted, AcquireToSend, AcquireToSeal,
           AcquireToSync, AcquireForReceipt, AcquireToDecrypt,
           AcquireToArchive, LoadSession, SaveSession, Built, Sealed,
           FetchLocked, ReceiptFetch, DropSession, AllDropped
  <2>3. CASE \/ SendAccepted(t) \/ GroupAccepted(t) \/ SealedAnswered(t)
             \/ SyncAnswered(t) \/ SendRejected(t) \/ RequestFails(t)
    BY <2>3
       DEF SendAccepted, GroupAccepted, SealedAnswered, SyncAnswered,
           SendRejected, RequestFails, Fails, SameWorld
  <2> QED BY <1>2, <2>1, <2>2, <2>3 DEF Runs
<1> QED BY <1>1, <1>2

(* Only a fetch changes what the call manager keeps.                       *)
LEMMA CacheTypes ==
    ASSUME TypeInv, NEW t \in Task, Start(t) \/ Abort(t) \/ Runs(t)
    PROVE  cachedPreKeys' \in BundleSet
<1>1. cachedPreKeys \in BundleSet /\ Bundles \in BundleSet
  BY BundlesType DEF TypeInv, TypeOK
<1>2. CASE Fetch(t)
  BY <1>1, <1>2 DEF Fetch
<1>3. CASE Locked(t)
  BY <1>1, <1>3
     DEF Locked, SameWorld, AcquireAborted, AcquireToSend, AcquireToSeal,
         AcquireToSync, AcquireForReceipt, AcquireToDecrypt,
         AcquireToArchive, LoadSession, SaveSession, Built, Sealed,
         FetchLocked, ReceiptFetch, DropSession, AllDropped
<1>4. CASE ~Fetch(t) /\ ~Locked(t)
  BY <1>1, <1>4
     DEF Runs, Start, Abort, Peek, UseCached, SendAccepted, GroupAccepted,
         SealedAnswered, SyncAnswered, SendRejected, RequestFails, SameWorld
<1> QED BY <1>2, <1>3, <1>4

LEMMA OtherTypes ==
    ASSUME TypeInv, NEW t \in Task, Start(t) \/ Abort(t) \/ Runs(t)
    PROVE  /\ CallTypes /\ session' \in [Device -> Record]
           /\ unreadable' \subseteq [act : AllOperations, warm : BOOLEAN]
           /\ overtaken' \subseteq Task
<1>1. CASE SaveSession(t)
  BY <1>1, SaveTypes DEF SaveSession, Write, TypeInv, TypeOK
<1>2. CASE DropSession(t)
  BY <1>2, DropTypes DEF DropSession, Write, TypeInv, TypeOK
<1>3. CASE \/ SendAccepted(t) \/ GroupAccepted(t) \/ SealedAnswered(t)
           \/ SyncAnswered(t) \/ SendRejected(t) \/ RequestFails(t)
  <2>1. SameSessions
    BY <1>3
       DEF SendAccepted, GroupAccepted, SealedAnswered, SyncAnswered,
           SendRejected, RequestFails
  <2> QED BY <1>3, <2>1, AnswerTypes DEF SameSessions, TypeInv, TypeOK
<1>4. ASSUME CallTypes, SameSessions, UNCHANGED unreadable
      PROVE  /\ CallTypes /\ session' \in [Device -> Record]
             /\ unreadable' \subseteq [act : AllOperations, warm : BOOLEAN]
             /\ overtaken' \subseteq Task
  BY <1>4 DEF SameSessions, TypeInv, TypeOK
<1>5. CASE Start(t)
  BY <1>4, <1>5, StartTypes DEF Start
<1>6. CASE Abort(t)
  BY <1>4, <1>6, AbortTypes DEF Abort
<1>7. CASE Peek(t) \/ UseCached(t) \/ Fetch(t)
  BY <1>4, <1>7, PrepareTypes DEF Peek, UseCached, Fetch
<1>8. CASE \/ AcquireAborted(t) \/ AcquireToSend(t) \/ AcquireToSeal(t)
           \/ AcquireToSync(t) \/ AcquireForReceipt(t)
           \/ AcquireToDecrypt(t) \/ AcquireToArchive(t)
  <2>1. SameSessions /\ UNCHANGED unreadable
    BY <1>8
       DEF AcquireAborted, AcquireToSend, AcquireToSeal, AcquireToSync,
           AcquireForReceipt, AcquireToDecrypt, AcquireToArchive
  <2>2. CallTypes
    BY <1>8, AcquireTypes
  <2> QED BY <1>4, <2>1, <2>2
<1>9. CASE LoadSession(t) \/ Sealed(t)
  BY <1>4, <1>9, LoadTypes, SealedTypes DEF LoadSession, Sealed
<1>10. CASE FetchLocked(t) \/ ReceiptFetch(t)
  BY <1>4, <1>10, FetchTypes DEF FetchLocked, ReceiptFetch
<1>11. CASE Built(t) \/ AllDropped(t)
  BY <1>4, <1>11, DoneTypes DEF Built, AllDropped
<1> QED
  BY <1>1, <1>2, <1>3, <1>5, <1>6, <1>7, <1>8, <1>9, <1>10, <1>11
     DEF Runs, Locked

LEMMA ChangeTypes == ASSUME TypeInv, DevicesChange PROVE TypeInv'
<1>1. MaxChanges - budget.changes + 3 \in Registration /\ 0 \in Registration
      /\ MaxChanges - budget.changes + 3 # 0
  <2>1. budget.changes \in 0 .. MaxChanges /\ MaxChanges \in Nat
    BY SendAssumption DEF SendAssumption, TypeInv, TypeOK
  <2>2. budget.changes > 0
    BY DEF DevicesChange, CanSpend
  <2> QED BY <2>1, <2>2 DEF Registration
<1>2. registered' \in [Device -> Registration] /\ registered'[Primary] # 0
  BY <1>1, SendAssumption DEF SendAssumption, DevicesChange, TypeInv, TypeOK
<1>3. budget' \in [changes : 0 .. MaxChanges, failures : 0 .. MaxFailures,
                        aborts : 0 .. MaxAborts, any : 0 .. MaxTrouble]
  BY BudgetTypes DEF DevicesChange
<1> QED BY <1>2, <1>3 DEF DevicesChange, TypeInv, TypeOK, SameSessions, QueueOK

LEMMA TypeStep == TypeInv /\ LockInv' /\ [Next]_vars => TypeInv'
<1> SUFFICES ASSUME TypeInv, LockInv', [Next]_vars PROVE TypeInv'
  OBVIOUS
<1>1. ASSUME NEW t \in Task, Start(t) \/ Abort(t) \/ Runs(t) PROVE TypeInv'
  <2>1. budget' \in [changes : 0 .. MaxChanges, failures : 0 .. MaxFailures,
                        aborts : 0 .. MaxAborts, any : 0 .. MaxTrouble]
    <3>1. CASE UNCHANGED budget
      BY <3>1 DEF TypeInv, TypeOK
    <3>2. CASE ~UNCHANGED budget
      <4>1. PICK kind \in {"changes", "failures", "aborts"} :
              CanSpend(kind) /\ Spend(kind)
        BY <1>1, <3>2, WorldTypes
      <4> QED BY <4>1, BudgetTypes
    <3> QED BY <3>1, <3>2
  <2>2. UNCHANGED <<registered, moved>>
    BY <1>1, WorldTypes
  <2> QED
    BY <1>1, <2>1, <2>2, OtherTypes, CacheTypes DEF TypeInv, TypeOK, CallTypes, LockInv
<1>2. CASE DevicesChange
  BY <1>2, ChangeTypes
<1>3. CASE UNCHANGED vars
  BY <1>3 DEF vars, TypeInv, TypeOK, QueueOK
<1> QED BY <1>1, <1>2, <1>3 DEF Next

(* Every variable keeps its type; a call that saves has a device to save   *)
(* for, and waits at one place of the chain at most.                       *)
THEOREM TypeCorrect == Spec => []TypeOK
<1>1. Shape /\ LockInv /\ TypeInv /\ [Next]_vars
      => Shape' /\ LockInv' /\ TypeInv'
  BY LockStep, TypeStep
<1>2. Init => Shape /\ LockInv /\ TypeInv
  BY InitialLock, InitTypes
<1>3. TypeInv => TypeOK
  BY DEF TypeInv
<1> QED BY <1>1, <1>2, <1>3, PTL DEF Spec

-----------------------------------------------------------------------------
(* Sends that are ready for the server's answer.                           *)

Steady ==
    /\ UNCHANGED <<registered, moved>>
    /\ budget'.failures = MaxFailures => budget.failures = MaxFailures

(* What the step of call t must establish of it.                           *)
ReadyAfter(t) ==
    /\ PlacesOK(op[t])'
    /\ ~moved /\ InFlight(t)' => Ready(op[t])'

LEMMA ReadyKept ==
    ASSUME NEW u \in Task, Ready(op[u]), UNCHANGED session, op'[u] = op[u],
           Steady
    PROVE  Ready(op[u])'
<1> USE DEF Steady, Linked, Bundles, listSessionDeviceIds
<1>1. GivenOK(op[u])'
  BY DEF Ready, GivenOK
<1>2. LoadedOK(op[u])'
  BY DEF Ready, LoadedOK, Carries, Establishes, NextDevice
<1>3. DirectOK(op[u])'
  BY DEF Ready, DirectOK, Direct
<1>4. BundledOK(op[u])'
  BY DEF Ready, BundledOK, Direct
<1>5. RepairedOK(op[u])'
  BY DEF Ready, RepairedOK, Direct
<1>6. NoneLeftOver(op[u])'
  BY DEF Ready, NoneLeftOver, Direct
<1>7. AnsweredOK(op[u])'
  BY DEF Ready, AnsweredOK, Matches, Missing, Extra, Stale
<1> QED BY <1>1, <1>2, <1>3, <1>4, <1>5, <1>6, <1>7 DEF Ready

LEMMA OutsideKept ==
    ASSUME NEW u \in Task, Ready(op[u]), op[u].pc \notin Inside,
           op'[u] = op[u], Steady
    PROVE  Ready(op[u])'
<1> USE DEF Steady, Inside, Encrypting
<1>1. GivenOK(op[u])'
  BY DEF Ready, GivenOK, Linked, Bundles
<1>2. LoadedOK(op[u])' /\ DirectOK(op[u])' /\ BundledOK(op[u])'
  BY DEF LoadedOK, DirectOK, BundledOK
<1>3. RepairedOK(op[u])' /\ NoneLeftOver(op[u])' /\ AnsweredOK(op[u])'
  BY DEF RepairedOK, NoneLeftOver, AnsweredOK
<1> QED BY <1>1, <1>2, <1>3 DEF Ready

(* A call that is not at work has only its bundles to have ready.          *)
LEMMA OutsideReady ==
    ASSUME NEW t \in Task, op'[t].pc \notin Inside, GivenOK(op[t])'
    PROVE  Ready(op[t])'
<1> USE DEF Inside, Encrypting
<1>1. LoadedOK(op[t])' /\ DirectOK(op[t])' /\ BundledOK(op[t])'
  BY DEF LoadedOK, DirectOK, BundledOK
<1>2. RepairedOK(op[t])' /\ NoneLeftOver(op[t])' /\ AnsweredOK(op[t])'
  BY DEF RepairedOK, NoneLeftOver, AnsweredOK
<1> QED BY <1>1, <1>2 DEF Ready

(* The step of one call: only who is inside writes a session.              *)
LEMMA OneReady ==
    ASSUME LockInv, ReadyInv, NEW t \in Task, Steady, ReadyAfter(t),
           \A u \in Task \ {t} : op'[u] = op[u],
           UNCHANGED session \/ op[t].pc \in Inside
    PROVE  ReadyInv'
<1>1. \A u \in Task : PlacesOK(op[u])'
  <2> SUFFICES ASSUME NEW u \in Task, u # t PROVE PlacesOK(op[u])'
    BY DEF ReadyAfter
  <2> QED BY DEF ReadyInv, PlacesOK
<1>2. ASSUME ~moved, NEW u \in Task, u # t, InFlight(u)' PROVE Ready(op[u])'
  <2>1. Ready(op[u])
    BY <1>2 DEF ReadyInv, InFlight
  <2>2. CASE UNCHANGED session
    BY <1>2, <2>1, <2>2, ReadyKept
  <2>3. CASE op[t].pc \in Inside
    <3>1. op[u].pc \notin Inside
      BY <1>2, <2>3 DEF LockInv
    <3> QED BY <1>2, <2>1, <3>1, OutsideKept
  <2> QED BY <2>2, <2>3
<1> QED BY <1>1, <1>2 DEF ReadyInv, ReadyAfter, Steady

LEMMA EndsReady ==
    ASSUME TypeInv, NEW t \in Task, NEW r, Ends(t, r)
    PROVE  ReadyAfter(t)
<1> DEFINE next == IF r = "ok" /\ op[t].parts # <<>> THEN NextPart(op[t])
                   ELSE [Idle EXCEPT !.act = op[t].act, !.pc = "done",
                                     !.repairing = op[t].repairing,
                                     !.result = r]
<1>1. op'[t] = next
  BY DEF Ends, Continue, TypeInv, TypeOK
<1>2. CASE r = "ok" /\ op[t].parts # <<>>
  <2>1. /\ op'[t].pc = FirstStep(op'[t].act) /\ ~op'[t].warm /\ ~op'[t].retried
        /\ op'[t].contents = {} /\ op'[t].refresh = {} /\ op'[t].todo = {}
        /\ op'[t].given = NoBundles /\ op'[t].bundles = NoBundles
    BY <1>1, <1>2 DEF NextPart, Idle
  <2>2. op'[t].pc \in {"peek", "fetch", "queued"}
    BY <2>1 DEF FirstStep
  <2>3. PlacesOK(op[t])'
    BY <2>1, <2>2 DEF PlacesOK, NoBundles
  <2>4. GivenOK(op[t])'
    BY <2>1 DEF GivenOK, NoBundles
  <2> QED BY <2>2, <2>3, <2>4, OutsideReady DEF ReadyAfter, Inside
<1>3. CASE ~(r = "ok" /\ op[t].parts # <<>>)
  <2>1. op'[t].pc = "done" /\ ~op'[t].warm
    BY <1>1, <1>3 DEF Idle
  <2> QED BY <2>1 DEF ReadyAfter, PlacesOK, InFlight
<1> QED BY <1>2, <1>3

LEMMA StartReady == ASSUME TypeInv, NEW t \in Task, Start(t) PROVE ReadyAfter(t)
<1>1. PICK act \in Operations, d \in Device, r \in Registration :
        Continue(t, Started(act, d, r), queue)
  BY Zenon DEF Start
<1>2. op'[t] = Started(act, d, r)
  BY <1>1 DEF Continue, TypeInv, TypeOK
<1>3. /\ op'[t].pc = FirstStep(op'[t].act) /\ ~op'[t].warm /\ ~op'[t].retried
      /\ op'[t].contents = {} /\ op'[t].refresh = {} /\ op'[t].todo = {}
      /\ op'[t].given \in {NoBundles, Bundles} /\ op'[t].bundles = NoBundles
  BY <1>2 DEF Started, Idle
<1>4. op'[t].pc \in {"peek", "fetch", "queued"}
  BY <1>3 DEF FirstStep
<1>5. PlacesOK(op[t])'
  BY <1>3, <1>4 DEF PlacesOK, NoBundles
<1>6. GivenOK(op[t])'
  BY <1>3 DEF GivenOK, NoBundles, Bundles, Linked, Start, SameWorld
<1> QED BY <1>4, <1>5, <1>6, OutsideReady DEF ReadyAfter, Inside

LEMMA AbortReady ==
    ASSUME TypeInv, ReadyInv, NEW t \in Task, Abort(t) PROVE ReadyAfter(t)
<1>1. op[t] \in Call /\ op'[t] = [op[t] EXCEPT !.abort = TRUE]
  BY DEF Abort, TypeInv, TypeOK
<1>2. /\ op'[t].pc = op[t].pc /\ op'[t].act = op[t].act
      /\ op'[t].reg = op[t].reg
      /\ op'[t].given = op[t].given /\ op'[t].bundles = op[t].bundles
      /\ op'[t].todo = op[t].todo /\ op'[t].refresh = op[t].refresh
      /\ op'[t].contents = op[t].contents /\ op'[t].retried = op[t].retried
      /\ op'[t].warm = op[t].warm /\ op'[t].loaded = op[t].loaded
  BY <1>1 DEF Call
<1>3. PlacesOK(op[t])'
  BY <1>2 DEF ReadyInv, PlacesOK, NoBundles
<1>4. ASSUME ~moved PROVE Ready(op[t])'
  <2> USE <1>2 DEF Linked, Bundles, listSessionDeviceIds
  <2>1. /\ Ready(op[t]) /\ UNCHANGED <<session, registered>>
        /\ budget'.failures = budget.failures
    BY <1>4
       DEF Abort, ReadyInv, SameSessions, SameWorld, Spend, TypeInv, TypeOK
  <2>2. GivenOK(op[t])'
    BY <2>1 DEF Ready, GivenOK
  <2>3. LoadedOK(op[t])'
    BY <2>1 DEF Ready, LoadedOK, Carries, Establishes, NextDevice
  <2>4. DirectOK(op[t])'
    BY <2>1 DEF Ready, DirectOK, Direct
  <2>5. BundledOK(op[t])'
    BY <2>1 DEF Ready, BundledOK, Direct
  <2>6. RepairedOK(op[t])'
    BY <2>1 DEF Ready, RepairedOK, Direct
  <2>7. NoneLeftOver(op[t])'
    BY <2>1 DEF Ready, NoneLeftOver, Direct
  <2>8. AnsweredOK(op[t])'
    BY <2>1 DEF Ready, AnsweredOK, Matches, Missing, Extra, Stale
  <2> QED BY <2>2, <2>3, <2>4, <2>5, <2>6, <2>7, <2>8 DEF Ready
<1> QED BY <1>3, <1>4 DEF ReadyAfter

LEMMA PrepareReady ==
    ASSUME TypeInv, ReadyInv, NEW t \in Task, Peek(t) \/ UseCached(t) \/ Fetch(t)
    PROVE  ReadyAfter(t)
<1>1. op[t] \in Call /\ PlacesOK(op[t]) /\ op[t].pc \in {"peek", "fetch"}
  BY DEF Peek, UseCached, Fetch, ReadyInv, TypeInv, TypeOK
<1> DEFINE Kept == IF op[t].act = "given" THEN {cachedPreKeys} ELSE {}
<1>2. PICK pc \in {"queued", "fetch"}, given \in {op[t].given, Bundles} \cup Kept :
        op'[t] = [op[t] EXCEPT !.pc = pc, !.given = given]
  <2>1. CASE Peek(t)
    <3>1. PICK pc \in {"queued", "fetch"} : op'[t] = [op[t] EXCEPT !.pc = pc]
      BY <2>1 DEF Peek, Goes, Continue, TypeInv, TypeOK
    <3>2. op'[t] = [op[t] EXCEPT !.pc = pc, !.given = op[t].given]
      BY ZenonT(40), <1>1, <3>1 DEF Call
    <3> QED BY <3>2
  <2>2. CASE Fetch(t)
    BY <2>2 DEF Fetch, Continue, TypeInv, TypeOK
  <2>3. CASE UseCached(t)
    <3>1. CASE op'[t] = [op[t] EXCEPT !.pc = "fetch"]
      <4>1. op'[t] = [op[t] EXCEPT !.pc = "fetch", !.given = op[t].given]
        BY ZenonT(40), <1>1, <3>1 DEF Call
      <4> QED BY <4>1
    <3>2. CASE op'[t] = [op[t] EXCEPT !.pc = "queued", !.given = cachedPreKeys]
      BY <2>3, <3>2 DEF UseCached
    <3> QED BY <2>3, <3>1, <3>2 DEF UseCached, Goes, Continue, TypeInv, TypeOK
  <2> QED BY <2>1, <2>2, <2>3
<1>3. /\ op'[t].pc \in {"queued", "fetch"} /\ op'[t].act = op[t].act
      /\ op'[t].given \in {op[t].given, Bundles} \cup Kept
      /\ op'[t].refresh = op[t].refresh
      /\ op'[t].contents = op[t].contents /\ op'[t].retried = op[t].retried
      /\ op'[t].warm = op[t].warm /\ op'[t].bundles = op[t].bundles
      /\ op'[t].todo = op[t].todo
  BY <1>1, <1>2 DEF Call
<1>4. PlacesOK(op[t])' /\ ~op'[t].warm
  BY <1>1, <1>3 DEF PlacesOK, NoBundles
<1>5. ~moved => GivenOK(op[t])'
  <2>1. registered' = registered
    BY DEF Peek, UseCached, Fetch, SameWorld
  <2>2. ~moved /\ op[t].act # "given" => op[t].given \in {NoBundles, Bundles}
    BY <1>1 DEF ReadyInv, InFlight, Ready, GivenOK
  <2> QED BY <1>3, <1>4, <2>1, <2>2 DEF GivenOK, NoBundles, Bundles, Linked
<1> QED BY <1>3, <1>4, <1>5, OutsideReady DEF ReadyAfter, Inside

(* Going on inside with nothing begun.                                     *)
LEMMA QueuedReady ==
    ASSUME TypeInv, ReadyInv, NEW t \in Task, op[t].pc = "queued"
    PROVE  /\ op[t] \in Call /\ ~op[t].warm /\ ~op[t].retried
           /\ op[t].contents = {} /\ op[t].refresh = {}
           /\ op[t].bundles = NoBundles
           /\ op[t].todo = {}
           /\ ~moved /\ op[t].act # "given" => op[t].given \in {NoBundles, Bundles}
  BY DEF TypeInv, TypeOK, ReadyInv, PlacesOK, InFlight, Ready, GivenOK

LEMMA WarmReady ==
    ASSUME TypeInv, ReadyInv, NEW t \in Task, AcquireToSend(t),
           op[t].given = NoBundles
    PROVE  ReadyAfter(t)
<1>1. /\ op[t].pc = "queued" /\ WarmStart(t) /\ op[t].act \in Sends
      /\ UNCHANGED <<session, registered, budget>>
  BY DEF AcquireToSend, Acquire, HasLock, SameSessions, SameWorld, Sends
<1> USE <1>1, QueuedReady DEF Linked, Bundles, listSessionDeviceIds
<1>2. CASE listSessionDeviceIds = {}
  <2>1. op'[t] = [op[t] EXCEPT !.pc = "fallback"]
    BY <1>2 DEF WarmStart, Goes, Continue, TypeInv, TypeOK
  <2>2. /\ op'[t].pc = "fallback" /\ op'[t].act = op[t].act
        /\ op'[t].given = NoBundles /\ op'[t].refresh = {}
        /\ op'[t].contents = {} /\ ~op'[t].retried /\ ~op'[t].warm
        /\ op'[t].bundles = NoBundles /\ op'[t].todo = {}
    BY ZenonT(40), <2>1 DEF Call
  <2>3. PlacesOK(op[t])'
    BY <2>2 DEF PlacesOK, NoBundles
  <2>4. GivenOK(op[t])' /\ LoadedOK(op[t])'
    BY <2>2 DEF GivenOK, LoadedOK, NoBundles
  <2>5. DirectOK(op[t])' /\ BundledOK(op[t])' /\ AnsweredOK(op[t])'
    BY <2>2 DEF DirectOK, BundledOK, AnsweredOK, Encrypting
  <2>6. RepairedOK(op[t])'
    BY <1>2, <2>2 DEF RepairedOK, Encrypting
  <2>7. NoneLeftOver(op[t])'
    BY <1>2, <2>2 DEF NoneLeftOver
  <2> QED BY <2>3, <2>4, <2>5, <2>6, <2>7 DEF ReadyAfter, Ready
<1>3. CASE listSessionDeviceIds # {}
  <2>1. op'[t] = [op[t] EXCEPT !.pc = "build", !.todo = listSessionDeviceIds,
                               !.warm = TRUE]
    BY <1>3 DEF WarmStart, Continue, TypeInv, TypeOK
  <2>2. /\ op'[t].pc = "build" /\ op'[t].act = op[t].act
        /\ op'[t].given = NoBundles
        /\ op'[t].contents = {} /\ ~op'[t].retried /\ op'[t].warm
        /\ op'[t].todo = listSessionDeviceIds /\ op'[t].bundles = NoBundles
    BY ZenonT(40), <2>1 DEF Call
  <2>3. PlacesOK(op[t])'
    BY <2>2 DEF PlacesOK, Sends
  <2>4. GivenOK(op[t])' /\ LoadedOK(op[t])'
    BY <2>2 DEF GivenOK, LoadedOK, NoBundles
  <2>5. DirectOK(op[t])'
    BY <2>2 DEF DirectOK, Addressed, NoBundles
  <2>6. /\ BundledOK(op[t])' /\ RepairedOK(op[t])'
        /\ NoneLeftOver(op[t])' /\ AnsweredOK(op[t])'
    BY <2>2 DEF BundledOK, RepairedOK, NoneLeftOver, AnsweredOK, Direct
  <2> QED BY <2>3, <2>4, <2>5, <2>6 DEF ReadyAfter, Ready
<1> QED BY <1>2, <1>3

LEMMA BundleReady ==
    ASSUME TypeInv, ReadyInv, NEW t \in Task, op[t].pc = "queued",
           BundleStart(t), op[t].act # "receipt",
           op[t].act \in Sends => op[t].given # NoBundles,
           Steady, UNCHANGED session
    PROVE  ReadyAfter(t)
<1> USE QueuedReady DEF Linked, Bundles, listSessionDeviceIds, Steady
<1>1. op'[t] = [op[t] EXCEPT !.pc = "build", !.bundles = op[t].given,
                              !.todo = DOMAIN op[t].given]
  BY DEF BundleStart, Continue, TypeInv, TypeOK
<1>2. /\ op'[t].pc = "build" /\ op'[t].act = op[t].act
      /\ op'[t].given = op[t].given
      /\ op'[t].bundles = op[t].given /\ op'[t].todo = DOMAIN op[t].given
      /\ op'[t].contents = {} /\ ~op'[t].retried /\ ~op'[t].warm
  BY ZenonT(40), <1>1 DEF Call
<1>3. PlacesOK(op[t])'
  BY <1>2 DEF PlacesOK
<1>4. ASSUME ~moved PROVE Ready(op[t])'
  <2>1. op[t].act # "given" => op[t].given \in {NoBundles, Bundles}
    BY <1>4
  <2>2. GivenOK(op[t])' /\ LoadedOK(op[t])'
    BY <1>2, <2>1 DEF GivenOK, LoadedOK, NoBundles
  <2>3. DirectOK(op[t])' /\ AnsweredOK(op[t])'
    BY <1>2 DEF DirectOK, Direct, AnsweredOK
  <2>4. BundledOK(op[t])'
    BY <1>2, <2>1 DEF BundledOK, Addressed
  <2>5. RepairedOK(op[t])' /\ NoneLeftOver(op[t])'
    BY <1>2 DEF RepairedOK, NoneLeftOver, NoBundles
  <2> QED BY <2>2, <2>3, <2>4, <2>5 DEF Ready
<1> QED BY <1>3, <1>4 DEF ReadyAfter

(* Receipts, decryptions and archiving are not sends: what they have to be *)
(* ready for is little.                                                    *)
LEMMA OtherReady ==
    ASSUME NEW t \in Task, op'[t].act \notin Sends,
           ~op'[t].warm, op'[t].pc \notin {"save", "fanout"}, GivenOK(op[t])',
           op'[t].pc = "send" /\ op'[t].retried => AnsweredOK(op[t])'
    PROVE  Ready(op[t])'
<1>1. LoadedOK(op[t])' /\ DirectOK(op[t])' /\ BundledOK(op[t])'
  BY DEF LoadedOK, DirectOK, Direct, BundledOK, Sends
<1>2. RepairedOK(op[t])' /\ NoneLeftOver(op[t])' /\ AnsweredOK(op[t])'
  BY DEF RepairedOK, NoneLeftOver, AnsweredOK, Sends
<1> QED BY <1>1, <1>2 DEF Ready

LEMMA AcquireReady ==
    ASSUME TypeInv, ReadyInv, NEW t \in Task,
           \/ AcquireAborted(t) \/ AcquireToSend(t) \/ AcquireToSeal(t)
           \/ AcquireToSync(t) \/ AcquireForReceipt(t)
           \/ AcquireToDecrypt(t) \/ AcquireToArchive(t)
    PROVE  ReadyAfter(t)
<1>1. op[t].pc = "queued"
  BY DEF AcquireAborted, AcquireToSend, AcquireToSeal, AcquireToSync,
         AcquireForReceipt, AcquireToDecrypt, AcquireToArchive, Acquire,
         HasLock
<1>2. Steady /\ UNCHANGED session
  BY DEF AcquireAborted, AcquireToSend, AcquireToSeal, AcquireToSync,
         AcquireForReceipt, AcquireToDecrypt, AcquireToArchive, SameSessions,
         SameWorld, Steady
<1>3. CASE AcquireAborted(t)
  BY <1>3, EndsReady DEF AcquireAborted
<1>4. CASE AcquireToSend(t)
  <2>1. CASE op[t].given = NoBundles
    BY <1>4, <2>1, WarmReady
  <2>2. CASE op[t].given # NoBundles
    BY <1>1, <1>2, <1>4, <2>2, BundleReady DEF AcquireToSend, Acquire
  <2> QED BY <2>1, <2>2
<1>5. CASE AcquireToSeal(t) \/ AcquireToSync(t)
  <2>1. BundleStart(t) /\ op[t].act \notin Sends /\ op[t].act # "receipt"
    BY <1>5 DEF AcquireToSeal, AcquireToSync, Acquire, Sends
  <2> QED BY <1>1, <1>2, <2>1, BundleReady
<1>6. ASSUME op[t].act \in {"receipt", "decrypt", "archive", "renew"},
             op'[t].pc \in {"send", "fallback", "build", "drop"},
             op'[t].pc = "build" => op[t].act # "receipt",
             op'[t].pc \in {"send", "fallback"} => op'[t].todo = {},
             op'[t].pc = "fallback" => op'[t].contents = {},
             op'[t].act = op[t].act, op'[t].given = op[t].given,
             op'[t].warm = op[t].warm, op'[t].retried = op[t].retried,
             op'[t].refresh = op[t].refresh, op'[t].bundles = op[t].bundles
      PROVE  ReadyAfter(t)
  <2>1. op[t].act \notin Sends
    BY <1>6 DEF Sends
  <2>2. PlacesOK(op[t])'
    BY <1>1, <1>6, <2>1, QueuedReady DEF PlacesOK, NoBundles
  <2>3. ~moved => GivenOK(op[t])'
    BY <1>1, <1>2, <1>6, QueuedReady
       DEF GivenOK, NoBundles, Bundles, Linked, Steady
  <2>4. ~op'[t].retried /\ ~op'[t].warm
    BY <1>1, <1>6, QueuedReady
  <2> QED BY <1>6, <2>1, <2>2, <2>3, <2>4, OtherReady DEF ReadyAfter
<1>7. CASE AcquireForReceipt(t)
  <2>1. op[t] \in Call /\ op[t].todo = {} /\ op[t].contents = {}
    BY <1>1, QueuedReady
  <2>2. op[t].act = "receipt"
    BY <1>7 DEF AcquireForReceipt, Acquire
  <2>3. CASE session[op[t].device].state = "current"
    <3> DEFINE c == {Entry(op[t].device, session[op[t].device].reg,
                           session[op[t].device].reg)}
    <3>1. op'[t] = [op[t] EXCEPT !.pc = "send", !.contents = c]
      BY <1>7, <2>3 DEF AcquireForReceipt, Continue, TypeInv, TypeOK
    <3> HIDE DEF c
    <3> QED BY <1>6, <2>1, <2>2, <3>1 DEF Call
  <2>4. CASE session[op[t].device].state = "none"
    <3>1. op'[t] = [op[t] EXCEPT !.pc = "fallback"]
      BY <1>7, <2>4 DEF AcquireForReceipt, Goes, Continue, TypeInv, TypeOK
    <3> QED BY <1>6, <2>1, <2>2, <3>1 DEF Call
  <2>5. CASE session[op[t].device].state \notin {"current", "none"}
    BY <1>7, <2>5, EndsReady DEF AcquireForReceipt
  <2> QED BY <2>3, <2>4, <2>5
<1>8. CASE AcquireToDecrypt(t) \/ AcquireToArchive(t)
  <2> DEFINE After(p, s) == [op[t] EXCEPT !.pc = p, !.todo = s]
             left == IF op[t].act = "archive" THEN {op[t].device}
                     ELSE {d \in Device : session[d].state # "none"}
  <2>a. ASSUME AcquireToDecrypt(t)
        PROVE  \E p, s : /\ p \in {"build", "drop"} /\ op'[t] = After(p, s)
                         /\ p = "build" => op[t].act = "decrypt"
    <3>1. op'[t] = After("build", {op[t].device})
      BY <2>a DEF AcquireToDecrypt, Continue, TypeInv, TypeOK
    <3>2. op[t].act = "decrypt"
      BY <2>a DEF AcquireToDecrypt, Acquire
    <3> HIDE DEF After
    <3> QED BY <3>1, <3>2
  <2>b. ASSUME AcquireToArchive(t)
        PROVE  \E p, s : /\ p \in {"build", "drop"} /\ op'[t] = After(p, s)
                         /\ p = "build" => op[t].act = "decrypt"
    <3>1. op'[t] = After("drop", left)
      BY <2>b DEF AcquireToArchive, Continue, TypeInv, TypeOK
    <3> HIDE DEF After, left
    <3> QED BY <3>1
  <2>1. PICK pc, todo : /\ pc \in {"build", "drop"}
                        /\ op'[t] = After(pc, todo)
                        /\ pc = "build" => op[t].act = "decrypt"
    <3> HIDE DEF After
    <3> QED BY <1>8, <2>a, <2>b
  <2>2. op[t].act \in {"decrypt", "archive", "renew"}
    BY <1>8 DEF AcquireToDecrypt, AcquireToArchive, Acquire
  <2>3. /\ op'[t].pc = pc /\ op'[t].act = op[t].act
        /\ op'[t].given = op[t].given /\ op'[t].warm = op[t].warm
        /\ op'[t].retried = op[t].retried
        /\ op'[t].refresh = op[t].refresh /\ op'[t].bundles = op[t].bundles
    BY <1>1, <2>1, QueuedReady DEF Call
  <2> QED BY <1>6, <2>1, <2>2, <2>3
<1> QED BY <1>3, <1>4, <1>5, <1>7, <1>8

(* A session is loaded, encrypted with and saved.                          *)
LEMMA LoadReady ==
    ASSUME TypeInv, ReadyInv, NEW t \in Task, LoadSession(t)
    PROVE  ReadyAfter(t)
<1> DEFINE d == NextDevice(op[t])
<1>1. op[t] \in Call /\ op[t].pc = "build" /\ PlacesOK(op[t])
  BY DEF LoadSession, ReadyInv, TypeInv, TypeOK
<1>2. UNCHANGED <<session, registered, budget>>
  BY DEF LoadSession, SameSessions, SameWorld
<1>3. CASE \E r : Ends(t, r)
  BY <1>3, EndsReady
<1>4. CASE Carries(op[t], d) /\ Continue(t, [op[t] EXCEPT !.pc = "save",
                                              !.loaded = session[d]], queue)
  <2>1. op'[t] = [op[t] EXCEPT !.pc = "save", !.loaded = session[d]]
    BY <1>4 DEF Continue, TypeInv, TypeOK
  <2>2. /\ op'[t].pc = "save" /\ op'[t].act = op[t].act
        /\ op'[t].reg = op[t].reg /\ op'[t].given = op[t].given
        /\ op'[t].bundles = op[t].bundles /\ op'[t].todo = op[t].todo
        /\ op'[t].refresh = op[t].refresh /\ op'[t].contents = op[t].contents
        /\ op'[t].retried = op[t].retried /\ op'[t].warm = op[t].warm
        /\ op'[t].loaded = session[d]
    BY <1>1, <2>1 DEF Call
  <2>3. PlacesOK(op[t])'
    BY <1>1, <2>2 DEF PlacesOK, NoBundles
  <2>4. ASSUME ~moved PROVE Ready(op[t])'
    <3> USE <1>1, <1>2, <2>2
        DEF Linked, Bundles, listSessionDeviceIds, Encrypting
    <3>1. Ready(op[t])
      BY <2>4 DEF ReadyInv, InFlight
    <3>2. NextDevice(op'[t]) = d
      BY DEF NextDevice
    <3>3. GivenOK(op[t])'
      BY <3>1 DEF Ready, GivenOK
    <3>4. LoadedOK(op[t])'
      BY <1>4, <3>2 DEF LoadedOK, Carries, Establishes
    <3>5. DirectOK(op[t])'
      BY <3>1 DEF Ready, DirectOK, Direct
    <3>6. BundledOK(op[t])'
      BY <3>1 DEF Ready, BundledOK, Direct
    <3>7. RepairedOK(op[t])'
      BY <3>1 DEF Ready, RepairedOK, Direct
    <3>8. NoneLeftOver(op[t])'
      BY <3>1 DEF Ready, NoneLeftOver, Direct
    <3>9. AnsweredOK(op[t])'
      BY DEF AnsweredOK
    <3> QED BY <3>3, <3>4, <3>5, <3>6, <3>7, <3>8, <3>9 DEF Ready
  <2> QED BY <2>3, <2>4 DEF ReadyAfter
<1> QED BY <1>3, <1>4 DEF LoadSession

(* What is common to the saves: the fields of a call that goes on.         *)
LEMMA SavedFields ==
    ASSUME TypeInv, ReadyInv, NEW t \in Task, SaveSession(t), NEW d, NEW record,
           d = NextDevice(op[t]), record = SavedRecord(op[t], d),
           ~\E r : Ends(t, r)
    PROVE  /\ op[t] \in Call /\ op[t].pc = "save" /\ PlacesOK(op[t])
           /\ d \in op[t].todo /\ d \in Device
           /\ session' = [session EXCEPT ![d] = record]
           /\ UNCHANGED <<registered, moved, budget>>
           /\ op'[t].pc = "build" /\ op'[t].act = op[t].act
           /\ op'[t].given = op[t].given /\ op'[t].bundles = op[t].bundles
           /\ op'[t].todo = op[t].todo \ {d} /\ op'[t].refresh = op[t].refresh
           /\ op'[t].retried = op[t].retried /\ op'[t].warm = op[t].warm
           /\ op'[t].contents = op[t].contents \cup
                                {Entry(d, Label(op[t], d), record.reg)}
<1> DEFINE contents == op[t].contents \cup
                       {Entry(d, Label(op[t], d), record.reg)}
           o == [op[t] EXCEPT !.pc = "build", !.todo = @ \ {d},
                              !.loaded = NoSession, !.contents = contents]
<1>1. op[t] \in Call /\ op[t].pc = "save" /\ PlacesOK(op[t])
      /\ op[t].todo # {}
  BY DEF SaveSession, ReadyInv, TypeInv, TypeOK, Sane
<1>2. d \in op[t].todo /\ d \in Device
  BY <1>1, NextDeviceListed DEF Call
<1>3. Continue(t, o, queue) /\ UNCHANGED budget
  BY DEF SaveSession
<1>4. op'[t] = o
  BY <1>3 DEF Continue, TypeInv, TypeOK
<1> HIDE DEF contents
<1>5. /\ op'[t].pc = "build" /\ op'[t].act = op[t].act
      /\ op'[t].given = op[t].given /\ op'[t].bundles = op[t].bundles
      /\ op'[t].todo = op[t].todo \ {d} /\ op'[t].refresh = op[t].refresh
      /\ op'[t].retried = op[t].retried /\ op'[t].warm = op[t].warm
      /\ op'[t].contents = contents
  BY <1>1, <1>4 DEF Call
<1>6. /\ session' = [session EXCEPT ![d] = record]
      /\ UNCHANGED <<registered, moved>>
  BY DEF SaveSession, Write, SameWorld
<1> QED BY <1>1, <1>2, <1>3, <1>5, <1>6 DEF contents

LEMMA AddressedMore ==
    ASSUME NEW contents, NEW d, NEW label, NEW reg
    PROVE  Addressed(contents \cup {Entry(d, label, reg)})
             = Addressed(contents) \cup {d}
<1>1. Entry(d, label, reg).device = d
  BY DEF Entry
<1> QED BY <1>1 DEF Addressed

(* A direct attempt saves the record it has loaded.                        *)
LEMMA DirectSaved ==
    ASSUME TypeInv, ReadyInv, NEW t \in Task, SaveSession(t), ~moved,
           ~\E r : Ends(t, r), Direct(op[t])
    PROVE  Ready(op[t])'
<1> DEFINE d == NextDevice(op[t])
           record == SavedRecord(op[t], d)
<1>1. /\ op[t] \in Call /\ op[t].pc = "save" /\ PlacesOK(op[t])
      /\ d \in op[t].todo /\ d \in Device
      /\ session' = [session EXCEPT ![d] = record]
      /\ UNCHANGED <<registered, moved, budget>>
      /\ op'[t].pc = "build" /\ op'[t].act = op[t].act
      /\ op'[t].given = op[t].given /\ op'[t].bundles = op[t].bundles
      /\ op'[t].todo = op[t].todo \ {d} /\ op'[t].refresh = op[t].refresh
      /\ op'[t].retried = op[t].retried /\ op'[t].warm = op[t].warm
      /\ op'[t].contents = op[t].contents \cup
                           {Entry(d, Label(op[t], d), record.reg)}
  BY SavedFields
<1>2. Ready(op[t])
  BY <1>1 DEF ReadyInv, InFlight
<1>3. op[t].act \in Sends /\ op[t].act # "decrypt" /\ op[t].bundles = NoBundles
      /\ DOMAIN op[t].bundles = {}
  BY <1>1, <1>2
     DEF PlacesOK, Direct, Ready, DirectOK, Encrypting, NoBundles, Sends
<1>4. op[t].loaded = session[d] /\ session[d].state = "current"
  BY <1>1, <1>2, <1>3 DEF Ready, LoadedOK, Carries, Establishes
<1>5. record = session[d] /\ Label(op[t], d) = session[d].reg
  BY <1>3, <1>4 DEF SavedRecord, Label
<1> HIDE DEF d, record
<1>6. session' = session
  BY <1>1, <1>5 DEF TypeInv, TypeOK
<1>7. op'[t].contents = op[t].contents \cup
                        {Entry(d, session[d].reg, session[d].reg)}
  BY <1>1, <1>5
<1> USE <1>1, <1>6 DEF Linked, Bundles, listSessionDeviceIds
<1>8. GivenOK(op[t])'
  BY <1>2 DEF Ready, GivenOK
<1>9. LoadedOK(op[t])' /\ AnsweredOK(op[t])'
  BY DEF LoadedOK, AnsweredOK
<1>10. BundledOK(op[t])' /\ RepairedOK(op[t])' /\ NoneLeftOver(op[t])'
  BY DEF BundledOK, RepairedOK, NoneLeftOver, Direct
<1>11. DirectOK(op[t])'
  <2>1. /\ op[t].todo \cup Addressed(op[t].contents) = listSessionDeviceIds
        /\ \A c \in op[t].contents :
             c.label = c.reg /\ c.reg = session[c.device].reg
    BY <1>2 DEF Ready, DirectOK, Encrypting
  <2>2. op'[t].todo \cup Addressed(op'[t].contents) = listSessionDeviceIds
    BY <1>7, <2>1, AddressedMore
  <2>3. \A c \in op'[t].contents :
          c.label = c.reg /\ c.reg = session[c.device].reg
    BY <1>7, <2>1 DEF Entry
  <2> QED BY <1>3, <2>2, <2>3 DEF DirectOK, NoBundles, Addressed
<1> QED BY <1>8, <1>9, <1>10, <1>11 DEF Ready

(* Any other attempt of a send saves a session with a linked device: a new *)
(* one, or one that is current already.                                    *)
LEMMA BundledSaved ==
    ASSUME TypeInv, ReadyInv, NEW t \in Task, SaveSession(t), ~moved,
           ~\E r : Ends(t, r), ~Direct(op[t]), op[t].act \in Sends,
           op[t].act = "given" /\ op[t].given # NoBundles => op[t].retried
    PROVE  Ready(op[t])'
<1> DEFINE d == NextDevice(op[t])
           record == SavedRecord(op[t], d)
<1>1. /\ op[t] \in Call /\ op[t].pc = "save" /\ PlacesOK(op[t])
      /\ d \in op[t].todo /\ d \in Device
      /\ session' = [session EXCEPT ![d] = record]
      /\ UNCHANGED <<registered, moved, budget>>
      /\ op'[t].pc = "build" /\ op'[t].act = op[t].act
      /\ op'[t].given = op[t].given /\ op'[t].bundles = op[t].bundles
      /\ op'[t].todo = op[t].todo \ {d} /\ op'[t].refresh = op[t].refresh
      /\ op'[t].retried = op[t].retried /\ op'[t].warm = op[t].warm
      /\ op'[t].contents = op[t].contents \cup
                           {Entry(d, Label(op[t], d), record.reg)}
  BY SavedFields
<1>2. Ready(op[t]) /\ op[t].act # "decrypt"
  BY <1>1 DEF ReadyInv, InFlight, Sends
<1>3. /\ op[t].bundles = Bundles
      /\ op[t].todo \cup Addressed(op[t].contents) = Linked
      /\ \A c \in op[t].contents : c.label = registered[c.device]
  BY <1>1, <1>2 DEF Ready, BundledOK, Encrypting
<1>4. d \in Linked /\ Linked = DOMAIN op[t].bundles
      /\ op[t].bundles[d] = registered[d]
  BY <1>1, <1>3 DEF Bundles
<1>5. op[t].loaded = session[d] /\ Carries(op[t], d)
  BY <1>1, <1>2 DEF Ready, LoadedOK
<1>6. Label(op[t], d) = registered[d]
  BY <1>4 DEF Label
<1>7. \/ record = Current(registered[d])
      \/ /\ record = session[d] /\ d \notin op[t].refresh
         /\ session[d].state = "current"
  <2>1. CASE session[d].state = "none" \/ d \in op[t].refresh
    <3>1. /\ d \in DOMAIN op[t].bundles
          /\ op[t].loaded.state = "none" \/ d \in op[t].refresh
      BY <1>4, <1>5, <2>1
    <3>2. record = Current(op[t].bundles[d])
      BY <1>2, <3>1 DEF SavedRecord
    <3> QED BY <1>4, <3>2
  <2>2. CASE ~(session[d].state = "none" \/ d \in op[t].refresh)
    <3>1. session[d].state = "current"
      BY <1>2, <1>5, <2>2 DEF Carries, Establishes
    <3>2. record = op[t].loaded
      BY <1>2, <1>5, <2>2 DEF SavedRecord
    <3> QED BY <1>5, <2>2, <3>1, <3>2
  <2> QED BY <2>1, <2>2
<1> HIDE DEF d, record
<1>8. op'[t].contents = op[t].contents \cup
                        {Entry(d, registered[d], record.reg)}
  BY <1>1, <1>6
<1> USE <1>1 DEF Linked, Bundles
<1>9. GivenOK(op[t])'
  BY <1>2 DEF Ready, GivenOK
<1>10. LoadedOK(op[t])' /\ AnsweredOK(op[t])' /\ DirectOK(op[t])'
  BY DEF LoadedOK, AnsweredOK, DirectOK, Direct
<1>11. BundledOK(op[t])'
  <2>1. op'[t].todo \cup Addressed(op'[t].contents) = Linked
    BY <1>3, <1>4, <1>8, AddressedMore
  <2>2. \A c \in op'[t].contents : c.label = registered[c.device]
    BY <1>3, <1>8 DEF Entry
  <2> QED BY <1>3, <2>1, <2>2 DEF BundledOK, Addressed
<1>12. ASSUME op[t].given = NoBundles
       PROVE  /\ record = Current(registered[d])
              /\ \A c \in op[t].contents :
                   /\ c.reg = registered[c.device]
                   /\ session[c.device] = Current(c.reg)
              /\ \A e \in Linked \ op[t].refresh :
                   session[e].state = "current"
                     => session[e].reg = registered[e]
  <2>1. /\ \A c \in op[t].contents : /\ c.reg = registered[c.device]
                                     /\ session[c.device] = Current(c.reg)
        /\ \A e \in Linked \ op[t].refresh :
             session[e].state = "current" => session[e].reg = registered[e]
    BY <1>2, <1>12 DEF Ready, RepairedOK, Encrypting
  <2>2. session[d].state = "current" => session[d] = Current(session[d].reg)
    BY DEF TypeInv, TypeOK, Record, NoSession, Current, Archived
  <2> QED BY <1>4, <1>7, <2>1, <2>2
<1>13. RepairedOK(op[t])'
  <2> SUFFICES ASSUME op[t].given = NoBundles
               PROVE  /\ \A e \in Linked \ op'[t].refresh :
                           session'[e].state = "current"
                             => session'[e].reg = registered[e]
                      /\ \A c \in op'[t].contents :
                           /\ c.reg = registered[c.device]
                           /\ session'[c.device] = Current(c.reg)
    BY DEF RepairedOK, NoBundles
  <2>1. session'[d] = Current(registered[d])
    BY <1>12 DEF TypeInv, TypeOK
  <2>2. \A e \in Device \ {d} : session'[e] = session[e]
    BY DEF TypeInv, TypeOK
  <2>3. \A e \in Linked \ op'[t].refresh :
          session'[e].state = "current" => session'[e].reg = registered[e]
    BY <1>12, <2>1, <2>2 DEF Current
  <2>4. ASSUME NEW c \in op[t].contents
        PROVE  /\ c.reg = registered[c.device]
               /\ session'[c.device] = Current(c.reg)
    <3>1. c.device \in Device
      BY DEF Call
    <3> QED BY <1>12, <2>1, <2>2, <2>4, <3>1
  <2>5. ASSUME NEW c, c = Entry(d, registered[d], record.reg)
        PROVE  /\ c.reg = registered[c.device]
               /\ session'[c.device] = Current(c.reg)
    BY <1>12, <2>1, <2>5 DEF Entry, Current
  <2> QED BY <1>8, <2>3, <2>4, <2>5
<1>14. NoneLeftOver(op[t])'
  <2> SUFFICES ASSUME op[t].given = NoBundles, budget.failures = MaxFailures
               PROVE  listSessionDeviceIds' \subseteq Linked
    BY DEF NoneLeftOver, NoBundles
  <2>1. listSessionDeviceIds \subseteq Linked
    BY <1>2 DEF Ready, NoneLeftOver, Encrypting
  <2> QED BY <1>4, <2>1 DEF listSessionDeviceIds, TypeInv, TypeOK
<1> QED BY <1>9, <1>10, <1>11, <1>13, <1>14 DEF Ready

(* A first attempt with kept bundles need not be ready: the server answers *)
(* for what they are worth.                                                *)
LEMMA KeptSaved ==
    ASSUME TypeInv, ReadyInv, NEW t \in Task, SaveSession(t), ~moved,
           ~\E r : Ends(t, r), op[t].act = "given", op[t].given # NoBundles,
           ~op[t].retried
    PROVE  Ready(op[t])'
<1>1. /\ op'[t].pc = "build" /\ op'[t].act = op[t].act
      /\ op'[t].given = op[t].given /\ op'[t].retried = op[t].retried
      /\ op'[t].warm = op[t].warm
  BY SavedFields
<1>2. ~op[t].warm
  <2>1. op[t].pc = "save"
    BY DEF SaveSession
  <2> QED BY <2>1 DEF ReadyInv, InFlight, Ready, GivenOK
<1>3. GivenOK(op[t])' /\ LoadedOK(op[t])' /\ DirectOK(op[t])'
  BY <1>1, <1>2 DEF GivenOK, LoadedOK, DirectOK, Direct
<1>4. BundledOK(op[t])' /\ RepairedOK(op[t])'
  BY <1>1 DEF BundledOK, RepairedOK, NoBundles
<1>5. NoneLeftOver(op[t])' /\ AnsweredOK(op[t])'
  BY <1>1 DEF NoneLeftOver, AnsweredOK, NoBundles
<1> QED BY <1>3, <1>4, <1>5 DEF Ready

LEMMA SaveReady ==
    ASSUME TypeInv, ReadyInv, NEW t \in Task, SaveSession(t)
    PROVE  ReadyAfter(t)
<1>1. CASE \E r : Ends(t, r)
  BY <1>1, EndsReady
<1>2. CASE ~\E r : Ends(t, r)
  <2> DEFINE d == NextDevice(op[t])
             record == SavedRecord(op[t], d)
  <2>1. /\ op[t] \in Call /\ op[t].pc = "save" /\ PlacesOK(op[t])
        /\ UNCHANGED <<registered, moved, budget>>
        /\ op'[t].pc = "build" /\ op'[t].act = op[t].act
        /\ op'[t].given = op[t].given /\ op'[t].retried = op[t].retried
        /\ op'[t].warm = op[t].warm
    BY <1>2, SavedFields
  <2>2. PlacesOK(op[t])'
    BY <2>1 DEF PlacesOK
  <2>3. ASSUME ~moved, op[t].act \notin Sends PROVE Ready(op[t])'
    <3>1. GivenOK(op[t])' /\ ~op'[t].warm
      BY <2>1, <2>3
         DEF ReadyInv, InFlight, Ready, GivenOK, PlacesOK, Bundles, Linked,
             NoBundles
    <3> QED BY <2>1, <2>3, <3>1, OtherReady
  <2> QED
    BY <1>2, <2>2, <2>3, DirectSaved, BundledSaved, KeptSaved DEF ReadyAfter, Sends
<1> QED BY <1>1, <1>2

(* All are encrypted: the call goes to the server, out of the lock or in.  *)
LEMMA BuiltReady ==
    ASSUME TypeInv, ReadyInv, NEW t \in Task, Built(t) \/ Sealed(t)
    PROVE  ReadyAfter(t)
<1>1. /\ op[t] \in Call /\ op[t].pc = "build" /\ PlacesOK(op[t])
      /\ op[t].todo = {}
      /\ UNCHANGED <<session, registered, budget>>
  BY DEF Built, Sealed, ReadyInv, TypeInv, TypeOK, SameSessions, SameWorld
<1>2. CASE \E r : Ends(t, r)
  BY <1>2, EndsReady
<1>3. CASE ~\E r : Ends(t, r)
  <2>1. PICK pc \in {"send", "sealed"} :
          /\ op'[t] = [op[t] EXCEPT !.pc = pc]
          /\ pc = "sealed" => op[t].act = "sealed"
    BY <1>3 DEF Built, Sealed, Goes, Continue, TypeInv, TypeOK
  <2>2. /\ op'[t].pc = pc /\ op'[t].act = op[t].act
        /\ op'[t].given = op[t].given /\ op'[t].bundles = op[t].bundles
        /\ op'[t].todo = op[t].todo /\ op'[t].refresh = op[t].refresh
        /\ op'[t].contents = op[t].contents
        /\ op'[t].retried = op[t].retried /\ op'[t].warm = op[t].warm
    BY <1>1, <2>1 DEF Call
  <2>3. PlacesOK(op[t])'
    BY <1>1, <2>1, <2>2 DEF PlacesOK
  <2>4. ASSUME ~moved PROVE Ready(op[t])'
    <3> USE <1>1, <2>2 DEF Linked, Bundles, listSessionDeviceIds, Encrypting
    <3>1. Ready(op[t]) /\ op[t].act # "receipt"
      BY <2>4 DEF ReadyInv, InFlight, PlacesOK
    <3>2. GivenOK(op[t])'
      BY <3>1 DEF Ready, GivenOK
    <3>3. LoadedOK(op[t])' /\ AnsweredOK(op[t])'
      BY <3>1 DEF LoadedOK, AnsweredOK
    <3>4. DirectOK(op[t])'
      BY <3>1 DEF Ready, DirectOK, Direct
    <3>5. BundledOK(op[t])'
      BY <3>1 DEF Ready, BundledOK, Direct
    <3>6. RepairedOK(op[t])'
      BY <3>1 DEF Ready, RepairedOK, Direct
    <3>7. NoneLeftOver(op[t])'
      BY <3>1 DEF Ready, NoneLeftOver, Direct
    <3> QED BY <3>2, <3>3, <3>4, <3>5, <3>6, <3>7 DEF Ready
  <2> QED BY <2>3, <2>4 DEF ReadyAfter
<1> QED BY <1>2, <1>3

(* The fetch in the lock gives a bundle of every linked device.            *)
LEMMA FetchReady ==
    ASSUME TypeInv, ReadyInv, NEW t \in Task, FetchLocked(t)
    PROVE  ReadyAfter(t)
<1>1. /\ op[t] \in Call /\ op[t].pc \in {"fallback", "refetch"}
      /\ op[t].act # "receipt" /\ PlacesOK(op[t])
      /\ UNCHANGED <<session, registered, budget>>
  BY DEF FetchLocked, ReadyInv, TypeInv, TypeOK, SameSessions, SameWorld
<1>2. op'[t] = [op[t] EXCEPT !.pc = "build", !.bundles = Bundles,
                             !.todo = Linked]
  BY DEF FetchLocked, Continue, TypeInv, TypeOK
<1>3. /\ op'[t].pc = "build" /\ op'[t].act = op[t].act
      /\ op'[t].given = op[t].given /\ op'[t].bundles = Bundles
      /\ op'[t].todo = Linked /\ op'[t].refresh = op[t].refresh
      /\ op'[t].contents = op[t].contents
      /\ op'[t].retried = op[t].retried /\ op'[t].warm = op[t].warm
  BY <1>1, <1>2 DEF Call
<1>4. PlacesOK(op[t])'
  BY <1>1, <1>3 DEF PlacesOK
<1>5. ASSUME ~moved PROVE Ready(op[t])'
  <2> USE <1>1, <1>3 DEF Linked, Bundles, listSessionDeviceIds, Encrypting
  <2>1. Ready(op[t])
    BY <1>5 DEF ReadyInv, InFlight
  <2>2. GivenOK(op[t])'
    BY <2>1 DEF Ready, GivenOK
  <2>3. op[t].act \notin Sends => ~op[t].warm
    BY DEF PlacesOK
  <2>4. CASE op[t].act \notin Sends
    BY <2>2, <2>3, <2>4, OtherReady
  <2>5. CASE op[t].act \in Sends
    <3>1. ~Direct(op[t]) /\ op[t].contents = {}
      BY <2>5 DEF PlacesOK, Direct
    <3>2. LoadedOK(op[t])' /\ AnsweredOK(op[t])' /\ DirectOK(op[t])'
      BY <3>1 DEF LoadedOK, AnsweredOK, DirectOK, Direct
    <3>3. BundledOK(op[t])'
      BY <3>1 DEF BundledOK, Addressed
    <3>4. RepairedOK(op[t])'
      BY <2>1, <3>1 DEF Ready, RepairedOK, Direct
    <3>5. NoneLeftOver(op[t])'
      BY <2>1, <3>1 DEF Ready, NoneLeftOver, Direct
    <3> QED BY <2>2, <3>2, <3>3, <3>4, <3>5 DEF Ready
  <2> QED BY <2>4, <2>5
<1> QED BY <1>4, <1>5 DEF ReadyAfter

(* The server accepts what is addressed to all linked devices, with the    *)
(* registrations they have.                                                *)
LEMMA LinkedMatch ==
    ASSUME NEW F, F = {Entry(d, registered[d], registered[d]) : d \in Linked}
    PROVE  Matches(F)
<1>1. ASSUME NEW c \in F
      PROVE  c.device \in Linked /\ c.label = registered[c.device]
  <2>1. PICK d \in Linked : c = Entry(d, registered[d], registered[d])
    OBVIOUS
  <2> QED BY <2>1 DEF Entry
<1>2. ASSUME NEW d \in Linked PROVE \E c \in F : c.device = d
  <2>1. Entry(d, registered[d], registered[d]) \in F
    OBVIOUS
  <2> QED BY <2>1 DEF Entry
<1>3. Addressed(F) = Linked
  BY <1>1, <1>2 DEF Addressed
<1> QED BY <1>1, <1>3 DEF Matches, Missing, Extra, Stale

LEMMA ReceiptReady ==
    ASSUME TypeInv, ReadyInv, NEW t \in Task, ReceiptFetch(t)
    PROVE  ReadyAfter(t)
<1>1. /\ op[t] \in Call /\ op[t].pc \in {"fallback", "refetch"}
      /\ op[t].act = "receipt" /\ PlacesOK(op[t]) /\ op[t].act \notin Sends
      /\ UNCHANGED <<session, registered, budget>>
  BY DEF ReceiptFetch, ReadyInv, TypeInv, TypeOK, SameSessions, SameWorld,
         Sends
<1> DEFINE devices == IF op[t].pc = "fallback"
                      THEN Linked \cap {op[t].device} ELSE Linked
           contents == {Entry(d, registered[d], registered[d]) : d \in devices}
<1>2. CASE devices = {}
  BY <1>2, EndsReady DEF ReceiptFetch
<1>3. CASE devices # {}
  <2>1. op'[t] = [op[t] EXCEPT !.pc = "send", !.contents = contents]
    BY <1>3 DEF ReceiptFetch, Continue, TypeInv, TypeOK
  <2>2. op[t].retried => op[t].pc = "refetch"
    BY <1>1 DEF PlacesOK
  <2>3. op[t].retried => Matches(contents)
    BY <2>2, LinkedMatch
  <2> HIDE DEF contents
  <2>4. /\ op'[t].pc = "send" /\ op'[t].act = op[t].act
        /\ op'[t].given = op[t].given /\ op'[t].todo = op[t].todo
        /\ op'[t].contents = contents
        /\ op'[t].retried = op[t].retried /\ op'[t].warm = op[t].warm
    BY <1>1, <2>1 DEF Call
  <2>5. PlacesOK(op[t])'
    BY <1>1, <2>4 DEF PlacesOK
  <2>6. ASSUME ~moved PROVE Ready(op[t])'
    <3>1. GivenOK(op[t])' /\ ~op'[t].warm
      BY <1>1, <2>4, <2>6
         DEF ReadyInv, InFlight, Ready, GivenOK, PlacesOK, Bundles, Linked,
             NoBundles
    <3>2. op'[t].retried => AnsweredOK(op[t])'
      BY <1>1, <2>3, <2>4
         DEF AnsweredOK, Matches, Missing, Extra, Stale, Linked
    <3> QED BY <1>1, <2>4, <3>1, <3>2, OtherReady
  <2> QED BY <2>5, <2>6 DEF ReadyAfter
<1> QED BY <1>2, <1>3

(* The accepted distribution of a group message: the fanout goes to the    *)
(* same devices, with the same registrations.                              *)
LEMMA FanoutMatches ==
    ASSUME TypeInv, ReadyInv, NEW t \in Task, ~moved, op[t].pc = "send",
           op[t].act = "group", Matches(op[t].contents),
           budget.failures = MaxFailures
    PROVE  Matches(FanoutContents(op[t]))
<1>1. /\ op[t] \in Call /\ PlacesOK(op[t]) /\ Ready(op[t])
      /\ op[t].act \in Sends /\ op[t].todo = {}
  BY DEF ReadyInv, InFlight, TypeInv, TypeOK, Sends, PlacesOK
<1>3. CASE op[t].given # NoBundles
  <2>1. op[t].given = Bundles
    BY <1>1, <1>3 DEF Ready, GivenOK
  <2>2. FanoutContents(op[t])
          = {Entry(d, registered[d], registered[d]) : d \in Linked}
    BY <1>3, <2>1 DEF FanoutContents, Bundles
  <2> QED BY <2>2, LinkedMatch
<1>4. CASE op[t].given = NoBundles
  <2>1. Addressed(op[t].contents) = Linked
    BY DEF Matches, Missing, Extra, Call, Addressed
  <2>2. listSessionDeviceIds = Linked
        /\ \A d \in Linked : session[d].reg = registered[d]
    <3>1. CASE Direct(op[t])
      <4>1. /\ Addressed(op[t].contents) = listSessionDeviceIds
            /\ \A c \in op[t].contents :
                 c.label = c.reg /\ c.reg = session[c.device].reg
        BY <1>1, <3>1 DEF Ready, DirectOK, Encrypting
      <4>2. ASSUME NEW d \in Linked PROVE session[d].reg = registered[d]
        <5>1. PICK c \in op[t].contents : c.device = d
          BY <2>1 DEF Addressed
        <5>2. c.label = registered[d]
          BY <5>1 DEF Matches, Stale
        <5> QED BY <4>1, <5>1, <5>2
      <4> QED BY <2>1, <4>1, <4>2
    <3>2. CASE ~Direct(op[t])
      <4>1. /\ listSessionDeviceIds \subseteq Linked
            /\ \A c \in op[t].contents : /\ c.reg = registered[c.device]
                                         /\ session[c.device] = Current(c.reg)
        BY <1>1, <1>4, <3>2 DEF Ready, RepairedOK, NoneLeftOver, Encrypting
      <4>2. ASSUME NEW d \in Linked
            PROVE  session[d] = Current(registered[d])
        <5>1. PICK c \in op[t].contents : c.device = d
          BY <2>1 DEF Addressed
        <5> QED BY <4>1, <5>1
      <4>3. \A d \in Linked : /\ d \in Device /\ session[d].state = "current"
                             /\ session[d].reg = registered[d]
        <5> SUFFICES ASSUME NEW d \in Linked
                     PROVE  /\ d \in Device /\ session[d].state = "current"
                            /\ session[d].reg = registered[d]
          OBVIOUS
        <5>1. session[d] = Current(registered[d])
          BY <4>2
        <5> QED BY <5>1 DEF Current, Linked
      <4>4. Linked \subseteq listSessionDeviceIds
        BY <4>3 DEF listSessionDeviceIds
      <4> QED BY <4>1, <4>3, <4>4
    <3> QED BY <3>1, <3>2
  <2>3. FanoutContents(op[t])
          = {Entry(d, registered[d], registered[d]) : d \in Linked}
    BY <1>4, <2>2 DEF FanoutContents
  <2> QED BY <2>3, LinkedMatch
<1> QED BY <1>3, <1>4

LEMMA GroupReady ==
    ASSUME TypeInv, ReadyInv, NEW t \in Task, GroupAccepted(t)
    PROVE  ReadyAfter(t)
<1>1. /\ op[t] \in Call /\ PlacesOK(op[t]) /\ op[t].act = "group"
      /\ Matches(op[t].contents)
      /\ UNCHANGED <<session, registered, moved, budget>>
  BY DEF GroupAccepted, Accepted, ReadyInv, TypeInv, TypeOK, SameSessions,
         SameWorld
<1>2. CASE op[t].pc # "send"
  BY <1>2, EndsReady DEF GroupAccepted
<1>3. CASE op[t].pc = "send"
  <2> DEFINE contents == FanoutContents(op[t])
  <2>1. op'[t] = [op[t] EXCEPT !.pc = "fanout", !.contents = contents]
    BY <1>3 DEF GroupAccepted, Continue, TypeInv, TypeOK
  <2>2. \A c \in contents : c.label = c.reg
    BY DEF FanoutContents, Entry
  <2>3. ~moved /\ budget.failures = MaxFailures => Matches(contents)
    BY <1>1, <1>3, FanoutMatches
  <2> HIDE DEF contents
  <2>4. /\ op'[t].pc = "fanout" /\ op'[t].act = op[t].act
        /\ op'[t].given = op[t].given /\ op'[t].contents = contents
        /\ op'[t].retried = op[t].retried /\ op'[t].warm = op[t].warm
    BY <1>1, <2>1 DEF Call
  <2>5. PlacesOK(op[t])'
    BY <1>1, <2>4 DEF PlacesOK, Sends
  <2>6. ASSUME ~moved PROVE Ready(op[t])'
    <3>1. GivenOK(op[t])'
      BY <1>1, <1>3, <2>4, <2>6
         DEF ReadyInv, InFlight, Ready, GivenOK, Bundles, Linked, NoBundles
    <3>2. LoadedOK(op[t])' /\ DirectOK(op[t])' /\ BundledOK(op[t])'
      BY <2>4 DEF LoadedOK, DirectOK, BundledOK, Encrypting
    <3>3. RepairedOK(op[t])' /\ NoneLeftOver(op[t])'
      BY <2>4 DEF RepairedOK, NoneLeftOver, Encrypting
    <3>4. AnsweredOK(op[t])'
      BY <1>1, <2>2, <2>3, <2>4, <2>6
         DEF AnsweredOK, Matches, Missing, Extra, Stale, Linked
    <3> QED BY <3>1, <3>2, <3>3, <3>4 DEF Ready
  <2> QED BY <2>5, <2>6 DEF ReadyAfter
<1> QED BY <1>2, <1>3

(* What a first attempt has sent without naming a device it is right       *)
(* about, and what its sessions are: the repair of the rest is enough.     *)
LEMMA SentWithSessions ==
    ASSUME TypeInv, ReadyInv, NEW t \in Task, ~moved, op[t].pc = "send",
           op[t].act \in Sends, op[t].given = NoBundles,
           NEW d \in Linked, d \notin Missing(op[t].contents),
           d \notin Stale(op[t].contents)
    PROVE  session[d].reg = registered[d]
<1>1. op[t] \in Call /\ Ready(op[t])
  BY DEF ReadyInv, InFlight, TypeInv, TypeOK
<1>2. PICK c \in op[t].contents : c.device = d
  BY DEF Missing, Addressed
<1>3. c.label = registered[d]
  BY <1>2 DEF Stale
<1>4. CASE Direct(op[t])
  BY <1>1, <1>2, <1>3, <1>4 DEF Ready, DirectOK, Encrypting
<1>5. CASE ~Direct(op[t])
  <2>1. c.reg = registered[d] /\ session[d] = Current(c.reg)
    BY <1>1, <1>2, <1>5 DEF Ready, RepairedOK, Encrypting
  <2> QED BY <2>1 DEF Current
<1> QED BY <1>4, <1>5

LEMMA RepairReady ==
    ASSUME TypeInv, ReadyInv, NEW t \in Task, SendRejected(t)
    PROVE  ReadyAfter(t)
<1>1. /\ op[t] \in Call /\ PlacesOK(op[t])
      /\ UNCHANGED <<session, registered, moved>>
  BY DEF SendRejected, ReadyInv, TypeInv, TypeOK, SameSessions, SameWorld
<1>2. CASE \E r : Ends(t, r)
  BY <1>2, EndsReady
<1>3. ASSUME NEW todo, NEW refresh, op[t].pc = "send",
             op'[t] = [op[t] EXCEPT !.pc = "drop", !.retried = TRUE,
                                    !.bundles = NoBundles, !.contents = {},
                                    !.todo = todo, !.refresh = refresh],
             ~moved /\ op[t].act \in Sends /\ op[t].given = NoBundles =>
               /\ \A d \in Linked \ refresh :
                    session[d].state = "current"
                      => session[d].reg = registered[d]
               /\ budget'.failures = MaxFailures =>
                    listSessionDeviceIds \subseteq Linked \cup todo
      PROVE  ReadyAfter(t)
  <2>1. /\ op'[t].pc = "drop" /\ op'[t].act = op[t].act
        /\ op'[t].given = op[t].given /\ op'[t].contents = {}
        /\ op'[t].todo = todo /\ op'[t].refresh = refresh
        /\ op'[t].retried /\ op'[t].warm = op[t].warm
    BY <1>1, <1>3 DEF Call
  <2>2. PlacesOK(op[t])'
    BY <1>1, <2>1 DEF PlacesOK
  <2>3. ASSUME ~moved PROVE Ready(op[t])'
    <3> USE <1>1, <2>1 DEF Linked, Bundles, listSessionDeviceIds
    <3>0. Ready(op[t])
      BY <1>3, <2>3 DEF ReadyInv, InFlight
    <3>1. GivenOK(op[t])'
      BY <3>0 DEF Ready, GivenOK
    <3>2. LoadedOK(op[t])' /\ DirectOK(op[t])' /\ BundledOK(op[t])'
      BY DEF LoadedOK, DirectOK, BundledOK, Encrypting
    <3>3. RepairedOK(op[t])'
      BY <1>3, <2>3 DEF RepairedOK, Encrypting, NoBundles
    <3>4. NoneLeftOver(op[t])'
      BY <1>3, <2>3 DEF NoneLeftOver, Encrypting, NoBundles
    <3>5. AnsweredOK(op[t])'
      BY DEF AnsweredOK
    <3> QED BY <3>1, <3>2, <3>3, <3>4, <3>5 DEF Ready
  <2> QED BY <2>2, <2>3 DEF ReadyAfter
<1>4. CASE /\ Repairable(op[t]) /\ UNCHANGED budget
           /\ Continue(t, Repair(op[t]), queue)
  <2> DEFINE todo == Extra(op[t].contents) \cup Stale(op[t].contents)
             refresh == Missing(op[t].contents) \cup Stale(op[t].contents)
  <2>1. op'[t] = [op[t] EXCEPT !.pc = "drop", !.retried = TRUE,
                               !.bundles = NoBundles, !.contents = {},
                               !.todo = todo, !.refresh = refresh]
    BY <1>4 DEF Continue, Repair, TypeInv, TypeOK
  <2>2. op[t].pc = "send" /\ op[t].todo = {}
    BY <1>1, <1>4 DEF Repairable, PlacesOK
  <2>3. ASSUME ~moved, op[t].act \in Sends, op[t].given = NoBundles
        PROVE  \A d \in Linked \ refresh :
                 session[d].state = "current" => session[d].reg = registered[d]
    BY <2>2, <2>3, SentWithSessions
  <2>4. ASSUME ~moved, op[t].act \in Sends, op[t].given = NoBundles,
               budget'.failures = MaxFailures
        PROVE  listSessionDeviceIds \subseteq Linked \cup todo
    <3>1. Ready(op[t])
      BY <2>2, <2>4 DEF ReadyInv, InFlight
    <3>2. CASE Direct(op[t])
      <4>1. Addressed(op[t].contents) = listSessionDeviceIds
        BY <2>2, <3>1, <3>2 DEF Ready, DirectOK, Encrypting
      <4> QED BY <4>1 DEF Extra
    <3>3. CASE ~Direct(op[t])
      BY <1>4, <2>2, <2>4, <3>1, <3>3 DEF Ready, NoneLeftOver, Encrypting
    <3> QED BY <3>2, <3>3
  <2> HIDE DEF todo, refresh
  <2> QED BY <1>3, <2>1, <2>2, <2>3, <2>4
<1>5. CASE /\ CanSpend("failures") /\ Repairable(op[t]) /\ Spend("failures")
           /\ Continue(t, RepairAll(op[t]), queue)
  <2>1. op'[t] = [op[t] EXCEPT !.pc = "drop", !.retried = TRUE,
                               !.bundles = NoBundles, !.contents = {},
                               !.todo = {}, !.refresh = Device]
    <3>1. op'[t] = RepairAll(op[t])
      BY <1>5 DEF Continue, TypeInv, TypeOK
    <3> QED BY <1>1, <3>1 DEF RepairAll, Repair, Call
  <2>2. op[t].pc = "send"
    BY <1>5 DEF Repairable
  <2>3. budget'.failures # MaxFailures
    <3>1. budget.failures \in 0 .. MaxFailures /\ MaxFailures \in Nat
          /\ budget = [kind \in {"changes", "failures", "aborts", "any"} |->
                         budget[kind]]
      BY SendAssumption DEF SendAssumption, TypeInv, TypeOK
    <3>2. budget'.failures = budget.failures - 1
      BY <1>5, <3>1 DEF Spend
    <3> QED BY <3>1, <3>2
  <2>4. Linked \ Device = {}
    BY DEF Linked
  <2> QED BY <1>3, <2>1, <2>2, <2>3, <2>4
<1> QED BY <1>2, <1>4, <1>5 DEF SendRejected

LEMMA DropReady ==
    ASSUME TypeInv, ReadyInv, NEW t \in Task, DropSession(t)
    PROVE  ReadyAfter(t)
<1> DEFINE d == NextDevice(op[t])
<1>1. /\ op[t] \in Call /\ op[t].pc = "drop" /\ PlacesOK(op[t])
      /\ op[t].todo # {}
      /\ UNCHANGED <<registered, moved>>
      /\ session' = [session EXCEPT ![d] = Dropped(op[t], d)]
  BY DEF DropSession, Write, ReadyInv, TypeInv, TypeOK, SameWorld
<1>2. CASE \E r : Ends(t, r)
  BY <1>2, EndsReady
<1>3. CASE /\ Continue(t, [op[t] EXCEPT !.todo = @ \ {d}], queue)
           /\ UNCHANGED budget
  <2>1. op'[t] = [op[t] EXCEPT !.todo = @ \ {d}]
    BY <1>3 DEF Continue, TypeInv, TypeOK
  <2>2. /\ op'[t].pc = "drop" /\ op'[t].act = op[t].act
        /\ op'[t].given = op[t].given /\ op'[t].contents = op[t].contents
        /\ op'[t].todo = op[t].todo \ {d} /\ op'[t].refresh = op[t].refresh
        /\ op'[t].retried = op[t].retried /\ op'[t].warm = op[t].warm
    BY <1>1, <2>1 DEF Call
  <2>3. PlacesOK(op[t])'
    BY <1>1, <2>2 DEF PlacesOK
  <2>4. ASSUME ~moved PROVE Ready(op[t])'
    <3> USE <1>1, <2>2 DEF Linked, Bundles
    <3>1. Ready(op[t]) /\ d \in Device
      BY <2>4, NextDeviceListed DEF ReadyInv, InFlight, Call
    <3>2. GivenOK(op[t])'
      BY <3>1 DEF Ready, GivenOK
    <3>3. CASE op[t].act \notin Sends
      BY <3>2, <3>3, OtherReady DEF PlacesOK
    <3>4. CASE op[t].act \in Sends
      <4>1. ~Direct(op[t]) /\ Dropped(op[t], d) = NoSession
        BY <3>4 DEF PlacesOK, Direct, Dropped, Sends
      <4> HIDE DEF d
      <4>2. /\ session'[d] = NoSession
            /\ \A e \in Device \ {d} : session'[e] = session[e]
        BY <3>1, <4>1 DEF TypeInv, TypeOK
      <4>3. LoadedOK(op[t])' /\ DirectOK(op[t])' /\ BundledOK(op[t])'
        BY DEF LoadedOK, DirectOK, BundledOK, Encrypting
      <4>4. RepairedOK(op[t])'
        BY <3>1, <4>1, <4>2
           DEF Ready, RepairedOK, Encrypting, Direct, NoSession
      <4>5. NoneLeftOver(op[t])'
        BY <1>3, <3>1, <4>1, <4>2
           DEF Ready, NoneLeftOver, Encrypting, Direct, NoSession,
               listSessionDeviceIds
      <4>6. AnsweredOK(op[t])'
        BY DEF AnsweredOK
      <4> QED BY <3>2, <4>3, <4>4, <4>5, <4>6 DEF Ready
    <3> QED BY <3>3, <3>4
  <2> QED BY <2>3, <2>4 DEF ReadyAfter
<1> QED BY <1>2, <1>3 DEF DropSession

LEMMA DroppedReady ==
    ASSUME TypeInv, ReadyInv, NEW t \in Task, AllDropped(t)
    PROVE  ReadyAfter(t)
<1>1. /\ op[t] \in Call /\ op[t].pc = "drop" /\ PlacesOK(op[t])
      /\ op[t].todo = {}
      /\ UNCHANGED <<session, registered, moved, budget>>
  BY DEF AllDropped, ReadyInv, TypeInv, TypeOK, SameWorld, SameSessions
<1>2. CASE \E r : Ends(t, r)
  BY <1>2, EndsReady
<1>3. CASE Goes(t, "refetch")
  <2>1. op'[t] = [op[t] EXCEPT !.pc = "refetch"]
    BY <1>3 DEF Goes, Continue, TypeInv, TypeOK
  <2>2. /\ op'[t].pc = "refetch" /\ op'[t].act = op[t].act
        /\ op'[t].given = op[t].given /\ op'[t].contents = op[t].contents
        /\ op'[t].todo = {} /\ op'[t].refresh = op[t].refresh
        /\ op'[t].retried = op[t].retried /\ op'[t].warm = op[t].warm
    BY <1>1, <2>1 DEF Call
  <2>3. PlacesOK(op[t])'
    BY <1>1, <2>2 DEF PlacesOK
  <2>4. ASSUME ~moved PROVE Ready(op[t])'
    <3> USE <1>1, <2>2 DEF Linked, Bundles, listSessionDeviceIds
    <3>1. Ready(op[t])
      BY <2>4 DEF ReadyInv, InFlight
    <3>2. GivenOK(op[t])'
      BY <3>1 DEF Ready, GivenOK
    <3>3. LoadedOK(op[t])' /\ DirectOK(op[t])' /\ BundledOK(op[t])'
      BY DEF LoadedOK, DirectOK, BundledOK, Encrypting
    <3>4. RepairedOK(op[t])'
      BY <3>1 DEF Ready, RepairedOK, Encrypting, Direct
    <3>5. NoneLeftOver(op[t])'
      BY <3>1 DEF Ready, NoneLeftOver, Encrypting, Direct
    <3>6. AnsweredOK(op[t])'
      BY DEF AnsweredOK
    <3> QED BY <3>2, <3>3, <3>4, <3>5, <3>6 DEF Ready
  <2> QED BY <2>3, <2>4 DEF ReadyAfter
<1> QED BY <1>2, <1>3 DEF AllDropped

(* What an answer ends.                                                    *)
LEMMA AnswerReady ==
    ASSUME TypeInv, ReadyInv, NEW t \in Task,
           \/ SendAccepted(t) \/ SealedAnswered(t) \/ SyncAnswered(t)
           \/ RequestFails(t)
    PROVE  ReadyAfter(t)
  BY EndsReady
     DEF SendAccepted, SealedAnswered, SyncAnswered, RequestFails, Fails

LEMMA StepReady ==
    ASSUME TypeInv, ReadyInv, NEW t \in Task, Start(t) \/ Abort(t) \/ Runs(t)
    PROVE  ReadyAfter(t)
  BY StartReady, AbortReady, PrepareReady, AcquireReady, LoadReady, SaveReady,
     BuiltReady, FetchReady, ReceiptReady, GroupReady, RepairReady, DropReady,
     DroppedReady, AnswerReady
     DEF Runs, Locked

(* Only the budget that a failure has cost is less than it was at first.   *)
LEMMA StepSteady ==
    ASSUME TypeInv, NEW t \in Task, Start(t) \/ Abort(t) \/ Runs(t)
    PROVE  Steady
<1>1. /\ UNCHANGED <<registered, moved>>
      /\ \/ UNCHANGED budget
         \/ \E kind \in {"changes", "failures", "aborts"} :
              CanSpend(kind) /\ Spend(kind)
  BY WorldTypes
<1>2. /\ budget.failures \in 0 .. MaxFailures /\ MaxFailures \in Nat
      /\ budget = [kind \in {"changes", "failures", "aborts", "any"} |->
                     budget[kind]]
  BY SendAssumption DEF SendAssumption, TypeInv, TypeOK
<1>3. ASSUME NEW kind \in {"changes", "failures", "aborts"}, Spend(kind)
      PROVE  budget'.failures \in {budget.failures, budget.failures - 1}
  BY <1>2, <1>3 DEF Spend
<1> QED BY <1>1, <1>2, <1>3 DEF Steady

LEMMA StepsOne ==
    ASSUME TypeInv, NEW t \in Task, Start(t) \/ Abort(t) \/ Runs(t)
    PROVE  /\ \A u \in Task \ {t} : op'[u] = op[u]
           /\ UNCHANGED session \/ op[t].pc \in Inside
<1>1. CASE Start(t) \/ Abort(t) \/ Peek(t) \/ UseCached(t) \/ Fetch(t)
  BY <1>1
     DEF Start, Abort, Peek, UseCached, Fetch, Goes, Continue, SameSessions, TypeInv,
         TypeOK
<1>2. CASE SaveSession(t) \/ DropSession(t)
  BY <1>2 DEF SaveSession, DropSession, Ends, Continue, Inside, TypeInv, TypeOK
<1>3. CASE \/ AcquireAborted(t) \/ AcquireToSend(t) \/ AcquireToSeal(t)
           \/ AcquireToSync(t) \/ AcquireForReceipt(t)
           \/ AcquireToDecrypt(t) \/ AcquireToArchive(t)
  BY <1>3
     DEF AcquireAborted, AcquireToSend, AcquireToSeal, AcquireToSync,
         AcquireForReceipt, AcquireToDecrypt, AcquireToArchive, WarmStart,
         BundleStart, Ends, Goes, Continue, SameSessions, TypeInv, TypeOK
<1>4. CASE \/ LoadSession(t) \/ Built(t) \/ Sealed(t) \/ FetchLocked(t)
           \/ ReceiptFetch(t) \/ AllDropped(t)
  BY <1>4
     DEF LoadSession, Built, Sealed, FetchLocked, ReceiptFetch, AllDropped,
         Ends, Goes, Continue, SameSessions, TypeInv, TypeOK
<1>5. CASE \/ SendAccepted(t) \/ GroupAccepted(t) \/ SealedAnswered(t)
           \/ SyncAnswered(t) \/ SendRejected(t) \/ RequestFails(t)
  BY <1>5
     DEF SendAccepted, GroupAccepted, SealedAnswered, SyncAnswered,
         SendRejected, RequestFails, Fails, Ends, Continue, SameSessions,
         TypeInv, TypeOK
<1> QED BY <1>1, <1>2, <1>3, <1>4, <1>5 DEF Runs, Locked

LEMMA ReadyInit == Init => ReadyInv
  BY DEF Init, Idle, ReadyInv, PlacesOK, InFlight

LEMMA ReadyStep ==
    Shape /\ LockInv /\ TypeInv /\ ReadyInv /\ [Next]_vars => ReadyInv'
<1> SUFFICES ASSUME LockInv, TypeInv, ReadyInv, [Next]_vars PROVE ReadyInv'
  OBVIOUS
<1>1. ASSUME NEW t \in Task, Start(t) \/ Abort(t) \/ Runs(t) PROVE ReadyInv'
  BY <1>1, StepReady, StepSteady, StepsOne, OneReady
<1>2. CASE DevicesChange
  <2>1. \A t \in Task : PlacesOK(op[t])'
    BY <1>2 DEF DevicesChange, ReadyInv, PlacesOK
  <2>2. moved' \/ \A t \in Task : ~InFlight(t)'
    BY <1>2 DEF DevicesChange, InFlight
  <2> QED BY <2>1, <2>2 DEF ReadyInv
<1>3. CASE UNCHANGED vars
  <2>1. \A t \in Task : PlacesOK(op[t])'
    BY <1>3 DEF vars, ReadyInv, PlacesOK
  <2>2. ASSUME ~moved, NEW t \in Task, InFlight(t) PROVE Ready(op[t])'
    BY <1>3, <2>2, ReadyKept DEF vars, ReadyInv, Steady
  <2> QED BY <1>3, <2>1, <2>2 DEF vars, ReadyInv, InFlight
<1> QED BY <1>1, <1>2, <1>3 DEF Next

(* What the server accepts of a warm send is of the devices' registrations.*)
LEMMA WarmAccepted ==
    ASSUME TypeInv, ReadyInv, NEW t \in Task, ~moved, AtServer(t),
           Matches(op[t].contents), op[t].warm, NEW c \in op[t].contents
    PROVE  c.reg = registered[c.device]
<1>1. /\ op[t] \in Call /\ PlacesOK(op[t]) /\ Ready(op[t])
      /\ op[t].act \in Sends /\ op[t].pc \in {"send", "fanout"}
  BY DEF AtServer, ReadyInv, InFlight, TypeInv, TypeOK, PlacesOK, Sends
<1>2. c.label = registered[c.device]
  <2>1. c.device \in Linked
    BY DEF Matches, Extra, Addressed
  <2> QED BY <2>1 DEF Matches, Stale
<1>3. CASE op[t].pc = "fanout"
  BY <1>1, <1>2, <1>3 DEF Ready, AnsweredOK
<1>4. CASE op[t].pc = "send" /\ Direct(op[t])
  BY <1>1, <1>2, <1>4 DEF Ready, DirectOK, Encrypting
<1>5. CASE op[t].pc = "send" /\ ~Direct(op[t])
  BY <1>1, <1>5 DEF Ready, GivenOK, RepairedOK, Encrypting
<1> QED BY <1>1, <1>3, <1>4, <1>5

LEMMA WarmStep ==
    TypeInv /\ ReadyInv /\ WarmSendsAreReadable /\ [Next]_vars
      => WarmSendsAreReadable'
<1> SUFFICES ASSUME TypeInv, ReadyInv, WarmSendsAreReadable, [Next]_vars
             PROVE  WarmSendsAreReadable'
  OBVIOUS
<1>1. CASE UNCHANGED unreadable
  <2>1. ~moved' => ~moved
    BY WorldTypes DEF Next, DevicesChange, vars
  <2> QED BY <1>1, <2>1 DEF WarmSendsAreReadable
<1>2. CASE ~UNCHANGED unreadable
  <2>1. PICK t \in Task : /\ AtServer(t) /\ Matches(op[t].contents)
                          /\ Deliver(op[t]) /\ UNCHANGED moved
    <3>1. PICK t \in Task : Runs(t)
      BY <1>2 DEF Next, DevicesChange, Start, Abort, vars
    <3>2. \/ SendAccepted(t) \/ GroupAccepted(t) \/ SealedAnswered(t)
          \/ SyncAnswered(t) \/ RequestFails(t)
      BY <1>2, <3>1
         DEF Runs, Locked, Peek, UseCached, Fetch, AcquireAborted, AcquireToSend,
             AcquireToSeal, AcquireToSync, AcquireForReceipt, AcquireToDecrypt,
             AcquireToArchive, LoadSession, SaveSession, Built, Sealed,
             FetchLocked, ReceiptFetch, SendRejected, DropSession, AllDropped
    <3>3. UNCHANGED moved
      BY <3>1, WorldTypes
    <3> QED
      BY <1>2, <3>2, <3>3
         DEF SendAccepted, GroupAccepted, SealedAnswered, SyncAnswered,
             RequestFails, Accepted
  <2> SUFFICES ASSUME ~moved, op[t].warm,
                      NEW c \in op[t].contents, c.reg # registered[c.device]
               PROVE  FALSE
    BY <2>1 DEF WarmSendsAreReadable, Deliver
  <2> QED BY <2>1, WarmAccepted
<1> QED BY <1>1, <1>2

(* A repaired send, a repaired receipt and a fanout have nothing that the  *)
(* server rejects.                                                         *)
LEMMA RepairedMatches ==
    ASSUME TypeInv, ReadyInv, NEW t \in Task, ~moved,
           budget.failures = MaxFailures, op[t].pc \in {"send", "fanout"},
           op[t].act \in Sends \cup {"receipt"}, ~Repairable(op[t])
    PROVE  Matches(op[t].contents)
<1>1. PlacesOK(op[t]) /\ Ready(op[t])
  BY DEF ReadyInv, InFlight
<1>2. CASE op[t].pc = "fanout" \/ op[t].act = "receipt"
  BY <1>1, <1>2 DEF Ready, AnsweredOK, Repairable
<1>3. CASE op[t].pc = "send" /\ op[t].act \in Sends
  <2>1. ~Direct(op[t]) /\ op[t].todo = {}
    BY <1>1, <1>3 DEF Direct, Repairable, PlacesOK
  <2>2. /\ Addressed(op[t].contents) = Linked
        /\ \A c \in op[t].contents : c.label = registered[c.device]
    BY <1>1, <1>3, <2>1 DEF Ready, BundledOK, Encrypting, Repairable
  <2> QED BY <2>2 DEF Matches, Missing, Extra, Stale
<1> QED BY <1>2, <1>3

(* The end of a call other than with a mismatch.                           *)
LEMMA EndsMatched ==
    ASSUME TypeInv, RepairSuffices, NEW t \in Task, NEW r, Ends(t, r), Steady,
           \/ r # "mismatch"
           \/ op[t].act \notin {"content", "given", "group", "receipt"}
    PROVE  RepairSuffices'
<1> DEFINE next == IF r = "ok" /\ op[t].parts # <<>> THEN NextPart(op[t])
                   ELSE [Idle EXCEPT !.act = op[t].act, !.pc = "done",
                                     !.repairing = op[t].repairing,
                                     !.result = r]
<1>1. next.act \in {"content", "given", "group", "receipt"}
        => next.result # "mismatch"
  <2>1. CASE r = "ok" /\ op[t].parts # <<>>
    <3>1. next.result = "none"
      BY <2>1 DEF NextPart, Idle
    <3> QED BY <3>1
  <2>2. CASE ~(r = "ok" /\ op[t].parts # <<>>)
    BY <2>2 DEF Idle
  <2> QED BY <2>1, <2>2
<1>2. op' = [op EXCEPT ![t] = next]
  BY DEF Ends, Continue
<1> HIDE DEF next
<1> QED BY <1>1, <1>2 DEF TypeInv, TypeOK, RepairSuffices, Steady

(* A call that goes on has no result, or none that is new.                 *)
LEMMA GoesOnMatched ==
    ASSUME TypeInv, RepairSuffices, NEW t \in Task, NEW o, Steady,
           op' = [op EXCEPT ![t] = o],
           \/ o.result = "none"
           \/ o.result = op[t].result /\ o.act = op[t].act
    PROVE  RepairSuffices'
  BY DEF TypeInv, TypeOK, RepairSuffices, Steady

LEMMA RunsMatched ==
    ASSUME TypeInv, ReadyInv, RepairSuffices, NEW t \in Task,
           Start(t) \/ Abort(t) \/ Runs(t)
    PROVE  RepairSuffices'
<1> USE DEF Continue, Goes
<1>0. op[t] \in Call /\ Steady
  BY StepSteady DEF TypeInv, TypeOK
<1>1. CASE Start(t)
  <2>1. PICK act \in Operations, d \in Device, r \in Registration :
          Continue(t, Started(act, d, r), queue)
    BY <1>1, Zenon DEF Start
  <2> DEFINE o == Started(act, d, r)
  <2>2. o.result = "none"
    BY DEF Started, Idle
  <2>3. op' = [op EXCEPT ![t] = o]
    BY <2>1
  <2> HIDE DEF o
  <2> QED BY <1>0, <2>2, <2>3, GoesOnMatched
<1> USE DEF Call
<1>2. CASE Abort(t)
  BY <1>0, <1>2, GoesOnMatched DEF Abort
<1>3. CASE Peek(t) \/ Fetch(t)
  BY ZenonT(40), <1>0, <1>3, GoesOnMatched DEF Peek, Fetch
<1>18. CASE UseCached(t)
  BY ZenonT(120), <1>0, <1>18, GoesOnMatched DEF UseCached
<1>4. CASE AcquireAborted(t)
  BY <1>0, <1>4, EndsMatched DEF AcquireAborted
<1>5. CASE AcquireToSend(t) \/ AcquireToSeal(t) \/ AcquireToSync(t)
  BY ZenonT(40), <1>0, <1>5, GoesOnMatched
     DEF AcquireToSend, AcquireToSeal, AcquireToSync, BundleStart, WarmStart
<1>6. CASE AcquireForReceipt(t)
  BY ZenonT(40), <1>0, <1>6, GoesOnMatched, EndsMatched DEF AcquireForReceipt
<1>7. CASE AcquireToDecrypt(t) \/ AcquireToArchive(t)
  BY ZenonT(40), <1>0, <1>7, GoesOnMatched DEF AcquireToDecrypt, AcquireToArchive
<1>8. CASE LoadSession(t)
  BY <1>0, <1>8, GoesOnMatched, EndsMatched DEF LoadSession
<1>9. CASE SaveSession(t)
  BY <1>0, <1>9, GoesOnMatched, EndsMatched DEF SaveSession
<1>10. CASE Built(t) \/ AllDropped(t)
  BY <1>0, <1>10, GoesOnMatched, EndsMatched DEF Built, AllDropped
<1>11. CASE Sealed(t) \/ FetchLocked(t)
  BY <1>0, <1>11, GoesOnMatched DEF Sealed, FetchLocked
<1>12. CASE ReceiptFetch(t)
  BY <1>0, <1>12, GoesOnMatched, EndsMatched DEF ReceiptFetch
<1>13. CASE DropSession(t)
  BY <1>0, <1>13, GoesOnMatched, EndsMatched DEF DropSession
<1>14. CASE SendAccepted(t) \/ SealedAnswered(t) \/ SyncAnswered(t)
  BY <1>0, <1>14, EndsMatched DEF SendAccepted, SealedAnswered, SyncAnswered
<1>15. CASE GroupAccepted(t)
  BY <1>0, <1>15, GoesOnMatched, EndsMatched DEF GroupAccepted
<1>16. CASE SendRejected(t)
  <2>1. CASE op' = [op EXCEPT ![t] = Repair(op[t])]
    BY <1>0, <2>1, GoesOnMatched DEF Repair
  <2>2. CASE op' = [op EXCEPT ![t] = RepairAll(op[t])]
    BY <1>0, <2>2, GoesOnMatched DEF RepairAll, Repair
  <2>3. CASE ~Repairable(op[t]) /\ Ends(t, "mismatch")
    <3>1. /\ ~Matches(op[t].contents) /\ UNCHANGED <<registered, moved, budget>>
          /\ op[t].act \notin {"sealed", "sync"} /\ AtServer(t)
      BY <1>16, <2>3 DEF SendRejected, SameWorld
    <3>2. op[t].pc \in {"send", "fanout"}
      BY <3>1 DEF AtServer, ReadyInv, PlacesOK
    <3>3. CASE ~moved /\ budget.failures = MaxFailures
      <4>1. op[t].act \notin {"content", "given", "group", "receipt"}
        BY <2>3, <3>1, <3>2, <3>3, RepairedMatches DEF Sends
      <4> QED BY <1>0, <2>3, <4>1, EndsMatched
    <3>4. CASE ~(~moved /\ budget.failures = MaxFailures)
      BY <3>1, <3>4 DEF RepairSuffices
    <3> QED BY <3>3, <3>4
  <2> QED BY <1>16, <2>1, <2>2, <2>3 DEF SendRejected
<1>17. CASE RequestFails(t)
  BY <1>0, <1>17, EndsMatched DEF RequestFails, Fails
<1> QED
  BY <1>1, <1>2, <1>3, <1>4, <1>5, <1>6, <1>7, <1>8, <1>9, <1>10, <1>11,
     <1>12, <1>13, <1>14, <1>15, <1>16, <1>17, <1>18 DEF Runs, Locked

(* The invariants of the lock, the types and the readiness are inductive   *)
(* together.                                                               *)
LEMMA ReadyInvariant == Spec => [](TypeInv /\ ReadyInv)
<1>1. Shape /\ LockInv /\ TypeInv /\ ReadyInv /\ [Next]_vars
      => Shape' /\ LockInv' /\ TypeInv' /\ ReadyInv'
  BY LockStep, TypeStep, ReadyStep
<1>2. Init => Shape /\ LockInv /\ TypeInv /\ ReadyInv
  BY InitialLock, InitTypes, ReadyInit
<1> QED BY <1>1, <1>2, PTL DEF Spec

(* Every device can read what the server accepts of a warm send, with or   *)
(* without a repair, unless devices change under way: for any devices, any *)
(* sessions and any number of calls (buildWarmContentMessageContents,      *)
(* repairMismatchedDevices).                                               *)
THEOREM WarmReadable == Spec => []WarmSendsAreReadable
<1>1. Init => WarmSendsAreReadable
  BY DEF Init, WarmSendsAreReadable
<1> QED BY <1>1, WarmStep, ReadyInvariant, PTL DEF Spec

(* No send ends with a mismatch after its repair, nor a group message in   *)
(* its fanout, unless a request fails or devices change under way          *)
(* (sendContentMessageLocked).                                             *)
THEOREM OneRepairSuffices == Spec => []RepairSuffices
<1>1. Init => RepairSuffices
  BY DEF Init, Idle, RepairSuffices
<1>2. TypeInv /\ ReadyInv /\ RepairSuffices /\ [Next]_vars => RepairSuffices'
  <2> SUFFICES ASSUME TypeInv, ReadyInv, RepairSuffices, [Next]_vars
               PROVE  RepairSuffices'
    OBVIOUS
  <2>1. CASE \E t \in Task : Start(t) \/ Abort(t) \/ Runs(t)
    BY <2>1, RunsMatched
  <2>2. CASE DevicesChange
    <3>1. op' = op /\ (~moved' => ~moved)
      BY <2>2 DEF DevicesChange
    <3>2. budget'.failures = budget.failures
      BY <2>2 DEF DevicesChange, Spend, TypeInv, TypeOK
    <3> QED BY <3>1, <3>2 DEF RepairSuffices
  <2>3. CASE UNCHANGED vars
    BY <2>3 DEF vars, RepairSuffices
  <2> QED BY <2>1, <2>2, <2>3 DEF Next
<1> QED BY <1>1, <1>2, ReadyInvariant, PTL DEF Spec

(* A warm send goes out again to all linked devices; what it encrypted for *)
(* them is of their sessions, and no session of another device is left.    *)
LEMMA SessionsHealed ==
    ASSUME TypeInv, ReadyInv, ~moved, budget.failures = MaxFailures,
           NEW t \in Task, op[t].pc = "send", op[t].warm, op[t].retried
    PROVE  /\ listSessionDeviceIds = Linked
           /\ \A d \in Linked : session[d] = Current(registered[d])
<1>1. /\ PlacesOK(op[t]) /\ Ready(op[t])
      /\ op[t].act \in Sends /\ op[t].todo = {}
      /\ op[t].given = NoBundles /\ ~Direct(op[t])
  BY DEF ReadyInv, InFlight, Ready, PlacesOK, GivenOK, Direct
<1>2. Addressed(op[t].contents) = Linked
  BY <1>1 DEF Ready, BundledOK, Encrypting
<1>3. ASSUME NEW d \in Linked PROVE session[d] = Current(registered[d])
  <2>1. PICK c \in op[t].contents : c.device = d
    BY <1>2 DEF Addressed
  <2> QED BY <1>1, <2>1 DEF Ready, RepairedOK, Encrypting
<1>4. listSessionDeviceIds \subseteq Linked
  BY <1>1 DEF Ready, NoneLeftOver, Encrypting
<1>5. Linked \subseteq listSessionDeviceIds
  <2>1. Linked \subseteq Device
    BY DEF Linked
  <2>2. \A r : Current(r).state = "current"
    BY DEF Current
  <2>3. \A d \in Linked : session[d].state = "current"
    BY <1>3, <2>2
  <2> QED BY <2>1, <2>3 DEF listSessionDeviceIds
<1> QED BY <1>3, <1>4, <1>5

(* No send goes out again over sessions that the next send would have to   *)
(* repair once more, unless a request fails or devices change under way    *)
(* (repairMismatchedDevices).                                              *)
THEOREM RepairsHeal == Spec => []RepairHeals
<1>1. TypeInv /\ ReadyInv => RepairHeals
  BY SessionsHealed DEF RepairHeals
<1> QED BY <1>1, ReadyInvariant, PTL

-----------------------------------------------------------------------------
(* No call goes round in circles.                                          *)

(* How far a call has come: where it is, in its first attempt or in the    *)
(* second one, after a repair.                                             *)
Stage(o) ==
    CASE o.pc = "idle" -> 13
      [] o.pc = "peek" -> 12
      [] o.pc = "fetch" -> 11
      [] o.pc = "queued" -> 10
      [] o.pc = "fallback" -> 9
      [] o.pc \in {"build", "save"} -> IF o.retried THEN 4 ELSE 8
      [] o.pc = "send" -> IF o.retried THEN 3 ELSE 7
      [] o.pc = "drop" -> 6
      [] o.pc = "refetch" -> 5
      [] o.pc = "sealed" -> 3
      [] o.pc = "fanout" -> 2
      [] OTHER -> 0

(* What a call has left to do: the parts of a recovery, the stages of a    *)
(* part, and the devices of a stage, each with a load and a save.          *)
Stages(o) == 14 * Len(o.parts) + Stage(o)
PerStage == 2 * Cardinality(Device) + 2
InStage(o) == 2 * Cardinality(o.todo) + (IF o.pc = "build" THEN 1 ELSE 0)
Left(o) == Stages(o) * PerStage + InStage(o)

(* A call repairs once: what leads to a first attempt is not of a second,  *)
(* and what follows a repair is not of a first.                            *)
AttemptOK(o) ==
    /\ o.pc \in {"idle", "peek", "fetch", "queued", "fallback"} => ~o.retried
    /\ o.pc = "refetch" => o.retried
    /\ o.pc = "drop" /\ o.act \notin {"archive", "renew"} => o.retried

AttemptsOK == \A t \in Task : AttemptOK(op[t])

(* One step of a call, from o to p.                                        *)
Advances(o, p) ==
    \/ Len(p.parts) < Len(o.parts)
    \/ p.parts = o.parts /\ Stage(p) < Stage(o)
    \/ /\ p.parts = o.parts /\ Stage(p) = Stage(o)
       /\ \/ \E d \in o.todo : p.todo = o.todo \ {d}
          \/ p.todo = o.todo /\ o.pc = "build" /\ p.pc = "save"

Ahead(t) == AttemptOK(op'[t]) /\ Advances(op[t], op'[t])

(* A part that ends leaves fewer of them, or a call that is over.          *)
LEMMA EndsAhead ==
    ASSUME TypeInv, NEW t \in Task, InFlight(t), NEW r, Ends(t, r)
    PROVE  Ahead(t)
<1> DEFINE over == [Idle EXCEPT !.act = op[t].act, !.pc = "done",
                                !.repairing = op[t].repairing, !.result = r]
           next == IF r = "ok" /\ op[t].parts # <<>> THEN NextPart(op[t]) ELSE over
<1>1. op'[t] = next
  BY DEF Ends, Continue, TypeInv, TypeOK
<1>2. /\ op[t].parts \in {<<>>, <<"receipt">>, <<"content", "receipt">>}
      /\ op[t].pc \in {"idle", "peek", "fetch", "queued", "build", "save", "fallback",
                       "send", "drop", "refetch", "sealed", "fanout", "done"}
  BY DEF TypeInv, TypeOK, Call
<1>3. CASE r = "ok" /\ op[t].parts # <<>>
  <2>1. /\ next.parts = Tail(op[t].parts) /\ ~next.retried
        /\ next.pc = FirstStep(Head(op[t].parts))
    BY <1>3 DEF NextPart, Idle
  <2>2. Len(Tail(op[t].parts)) < Len(op[t].parts)
    <3>1. CASE op[t].parts = <<"receipt">>
      BY <3>1
    <3>2. CASE op[t].parts = <<"content", "receipt">>
      BY <3>2
    <3> QED BY <1>2, <1>3, <3>1, <3>2
  <2> HIDE DEF next
  <2>3. next.pc \in {"peek", "fetch", "queued"}
    BY <2>1 DEF FirstStep
  <2> QED BY <1>1, <2>1, <2>2, <2>3 DEF Ahead, AttemptOK, Advances
<1>4. CASE ~(r = "ok" /\ op[t].parts # <<>>)
  <2>1. next.parts = <<>> /\ next.pc = "done"
    BY <1>4 DEF Idle
  <2> HIDE DEF next
  <2>2. Stage(next) = 0
    BY <2>1 DEF Stage
  <2>3. Stage(op[t]) > 0
    BY <1>2 DEF Stage, InFlight
  <2>4. op[t].parts = <<>> \/ Len(op[t].parts) > 0
    BY <1>2
  <2> QED BY <1>1, <2>1, <2>2, <2>3, <2>4 DEF Ahead, AttemptOK, Advances
<1> QED BY <1>3, <1>4

(* A call that goes on, at a later stage of the same part.                 *)
LEMMA GoesAhead ==
    ASSUME TypeInv, NEW t \in Task, NEW o, NEW chain, Continue(t, o, chain),
           o.parts = op[t].parts, AttemptOK(o), Stage(o) < Stage(op[t])
    PROVE  Ahead(t)
  BY DEF Continue, TypeInv, TypeOK, Ahead, Advances

(* The place of a call decides.                                            *)
Later(o, p) ==
    /\ p.parts = o.parts /\ p.act = o.act /\ p.retried = o.retried
    /\ <<o.pc, p.pc>> \in
         {<<"peek", "queued">>, <<"peek", "fetch">>, <<"fetch", "queued">>,
          <<"queued", "build">>, <<"queued", "fallback">>, <<"queued", "send">>,
          <<"fallback", "build">>, <<"fallback", "send">>, <<"build", "send">>,
          <<"build", "sealed">>, <<"refetch", "build">>, <<"refetch", "send">>,
          <<"drop", "refetch">>, <<"send", "fanout">>}

LEMMA LaterAhead ==
    ASSUME TypeInv, NEW t \in Task, AttemptOK(op[t]), NEW o, NEW chain,
           Continue(t, o, chain), Later(op[t], o),
           o.pc = "refetch" => o.retried
    PROVE  Ahead(t)
<1>1. op[t].retried \in BOOLEAN
  BY DEF TypeInv, TypeOK, Call
<1>2. AttemptOK(o)
  BY DEF Later, AttemptOK
<1>3. Stage(o) < Stage(op[t])
  BY <1>1 DEF Later, AttemptOK, Stage
<1> QED BY <1>2, <1>3, GoesAhead DEF Later

(* A device of the stage is done, or its record is loaded.                 *)
LEMMA DeviceAhead ==
    ASSUME TypeInv, NEW t \in Task, AttemptOK(op[t]), NEW o, NEW chain,
           Continue(t, o, chain), op[t].pc \in {"build", "save", "drop"},
           o.parts = op[t].parts, o.act = op[t].act, o.retried = op[t].retried,
           \/ /\ \E d \in op[t].todo : o.todo = op[t].todo \ {d}
              /\ o.pc = IF op[t].pc = "save" THEN "build" ELSE op[t].pc
           \/ o.todo = op[t].todo /\ op[t].pc = "build" /\ o.pc = "save"
    PROVE  Ahead(t)
<1>1. Stage(o) = Stage(op[t])
  BY DEF Stage
<1>2. AttemptOK(o)
  BY DEF AttemptOK
<1>3. op'[t] = o
  BY DEF Continue, TypeInv, TypeOK
<1> QED BY <1>1, <1>2, <1>3 DEF Ahead, Advances

LEMMA RunsAhead ==
    ASSUME TypeInv, NEW t \in Task, AttemptOK(op[t]), Runs(t)
    PROVE  Ahead(t)
<1>0. op[t] \in Call
  BY DEF TypeInv, TypeOK
<1> USE DEF Call, Goes, Later, InFlight, HasLock, Acquire, AtServer
<1>1. CASE Peek(t)
  BY <1>0, <1>1, LaterAhead DEF Peek
<1>2. CASE UseCached(t)
  BY <1>0, <1>2, LaterAhead DEF UseCached
<1>3. CASE Fetch(t)
  BY <1>0, <1>3, LaterAhead DEF Fetch
<1>4. CASE AcquireAborted(t)
  BY <1>4, EndsAhead DEF AcquireAborted
<1>5. CASE AcquireToSend(t) \/ AcquireToSeal(t) \/ AcquireToSync(t)
  BY <1>0, <1>5, LaterAhead
     DEF AcquireToSend, AcquireToSeal, AcquireToSync, BundleStart, WarmStart
<1>6. CASE AcquireForReceipt(t)
  BY <1>0, <1>6, LaterAhead, EndsAhead DEF AcquireForReceipt
<1>7. CASE AcquireToDecrypt(t)
  BY <1>0, <1>7, LaterAhead DEF AcquireToDecrypt
<1>8. CASE AcquireToArchive(t)
  <2> DEFINE todo == IF op[t].act = "archive" THEN {op[t].device}
                     ELSE {d \in Device : session[d].state # "none"}
             o == [op[t] EXCEPT !.pc = "drop", !.todo = todo]
  <2>1. Continue(t, o, queue)
    BY <1>8, Zenon DEF AcquireToArchive
  <2>2. o.pc = "drop" /\ o.act = op[t].act /\ o.parts = op[t].parts
    BY <1>0
  <2>3. op[t].pc = "queued" /\ op[t].act \in {"archive", "renew"}
    BY <1>8 DEF AcquireToArchive
  <2> HIDE DEF o
  <2>4. AttemptOK(o) /\ Stage(o) < Stage(op[t])
    BY <2>2, <2>3 DEF AttemptOK, Stage
  <2> QED BY <2>1, <2>2, <2>4, GoesAhead
<1>9. CASE LoadSession(t)
  BY <1>0, <1>9, DeviceAhead, EndsAhead DEF LoadSession
<1>10. CASE SaveSession(t)
  <2>1. NextDevice(op[t]) \in op[t].todo
    BY <1>0, <1>10, NextDeviceListed DEF SaveSession, TypeInv, Sane
  <2> QED BY <1>0, <1>10, <2>1, DeviceAhead, EndsAhead DEF SaveSession
<1>11. CASE Built(t) \/ Sealed(t)
  BY <1>0, <1>11, LaterAhead, EndsAhead DEF Built, Sealed
<1>12. CASE FetchLocked(t)
  BY <1>0, <1>12, LaterAhead DEF FetchLocked
<1>13. CASE ReceiptFetch(t)
  BY <1>0, <1>13, LaterAhead, EndsAhead DEF ReceiptFetch
<1>14. CASE DropSession(t)
  <2>1. NextDevice(op[t]) \in op[t].todo
    BY <1>0, <1>14, NextDeviceListed DEF DropSession
  <2> QED BY <1>0, <1>14, <2>1, DeviceAhead, EndsAhead DEF DropSession
<1>15. CASE AllDropped(t)
  BY <1>0, <1>15, LaterAhead, EndsAhead DEF AllDropped, AttemptOK
<1>16. CASE SendAccepted(t) \/ SealedAnswered(t) \/ SyncAnswered(t)
  BY <1>16, EndsAhead DEF SendAccepted, SealedAnswered, SyncAnswered, Accepted
<1>17. CASE GroupAccepted(t)
  BY <1>0, <1>17, LaterAhead, EndsAhead DEF GroupAccepted, Accepted
<1>18. CASE SendRejected(t)
  <2>1. ASSUME NEW o \in {Repair(op[t]), RepairAll(op[t])}, Repairable(op[t]),
               Continue(t, o, queue)
        PROVE  Ahead(t)
    <3>1. o.pc = "drop" /\ o.retried /\ o.parts = op[t].parts
      BY <1>0 DEF Repair, RepairAll
    <3>2. AttemptOK(o) /\ Stage(o) < Stage(op[t])
      BY <2>1, <3>1 DEF AttemptOK, Stage, Repairable
    <3> QED BY <2>1, <3>1, <3>2, GoesAhead
  <2> QED BY <1>18, <2>1, EndsAhead DEF SendRejected
<1>19. CASE RequestFails(t)
  BY <1>19, EndsAhead DEF RequestFails, Fails
<1> QED
  BY <1>1, <1>2, <1>3, <1>4, <1>5, <1>6, <1>7, <1>8, <1>9, <1>10, <1>11, <1>12,
     <1>13, <1>14, <1>15, <1>16, <1>17, <1>18, <1>19 DEF Runs, Locked

(* Numbers of two digits: the higher one decides.                          *)
LEMMA Digits ==
    ASSUME NEW m \in Nat, NEW a \in Nat, NEW b \in Nat, NEW x \in Nat, NEW y \in Nat,
           x < m, a < b \/ (a = b /\ x < y)
    PROVE  a * m + x \in Nat /\ a * m + x < b * m + y
<1>1. a * m \in Nat /\ b * m \in Nat
  OBVIOUS
<1>2. CASE a < b
  <2>1. PICK c \in Nat : b = a + 1 + c
    <3>1. b - a - 1 \in Nat /\ b = a + 1 + (b - a - 1)
      BY <1>2
    <3> QED BY <3>1
  <2>2. b * m = a * m + m + c * m /\ c * m \in Nat
    BY <2>1
  <2> QED BY <1>1, <2>2
<1>3. CASE a = b /\ x < y
  BY <1>1, <1>3
<1> QED BY <1>2, <1>3

(* What a call has left is a number.                                       *)
LEMMA LeftIsNumber ==
    ASSUME NEW o \in Call
    PROVE  /\ Stage(o) \in Nat /\ Len(o.parts) \in Nat
           /\ Stage(o) < 14
           /\ IsFiniteSet(o.todo) /\ Cardinality(o.todo) \in Nat
           /\ Stages(o) \in Nat /\ PerStage \in Nat
           /\ InStage(o) \in Nat /\ InStage(o) < PerStage
           /\ Left(o) \in Nat
<1>1. IsFiniteSet(Device) /\ Cardinality(Device) \in Nat
  BY SendAssumption, FS_CardinalityType DEF SendAssumption
<1>2. /\ IsFiniteSet(o.todo) /\ Cardinality(o.todo) \in Nat
      /\ Cardinality(o.todo) <= Cardinality(Device)
  <2>1. o.todo \subseteq Device
    BY DEF Call
  <2>2. IsFiniteSet(o.todo) /\ Cardinality(o.todo) <= Cardinality(Device)
    BY <1>1, <2>1, FS_Subset
  <2> QED BY <2>2, FS_CardinalityType
<1>3. Stage(o) \in Nat /\ Stage(o) < 14
  BY DEF Stage
<1>4. Len(o.parts) \in Nat
  BY DEF Call
<1>5. Stages(o) \in Nat
  BY <1>3, <1>4 DEF Stages
<1>6. PerStage \in Nat
  BY <1>1 DEF PerStage
<1>7. InStage(o) \in Nat /\ InStage(o) < PerStage
  BY <1>1, <1>2 DEF InStage, PerStage
<1>8. Left(o) \in Nat
  BY <1>5, <1>6, <1>7 DEF Left
<1> QED BY <1>2, <1>3, <1>4, <1>5, <1>6, <1>7, <1>8

(* A step of a call leaves it less to do.                                  *)
LEMMA AdvancesLowers ==
    ASSUME NEW o \in Call, NEW p \in Call, Advances(o, p)
    PROVE  Left(p) < Left(o)
<1>1. ASSUME \/ Stages(p) < Stages(o)
             \/ Stages(p) = Stages(o) /\ InStage(p) < InStage(o)
      PROVE  Left(p) < Left(o)
  BY <1>1, LeftIsNumber, Digits DEF Left
<1>2. /\ Stage(o) \in Nat /\ Stage(p) \in Nat /\ Stage(o) < 14 /\ Stage(p) < 14
      /\ Len(o.parts) \in Nat /\ Len(p.parts) \in Nat
      /\ IsFiniteSet(o.todo) /\ Cardinality(o.todo) \in Nat
  BY LeftIsNumber
<1>3. CASE Len(p.parts) < Len(o.parts)
  <2>1. \A a, b, s, u \in Nat : a < b /\ s < 14 => 14 * a + s < 14 * b + u
    OBVIOUS
  <2>2. Stages(p) < Stages(o)
    BY <1>2, <1>3, <2>1 DEF Stages
  <2> QED BY <1>1, <2>2
<1>4. CASE p.parts = o.parts /\ Stage(p) < Stage(o)
  BY <1>1, <1>2, <1>4 DEF Stages
<1>5. CASE /\ p.parts = o.parts /\ Stage(p) = Stage(o)
           /\ \E d \in o.todo : p.todo = o.todo \ {d}
  <2>1. Cardinality(p.todo) = Cardinality(o.todo) - 1
    BY <1>2, <1>5, FS_RemoveElement
  <2> QED BY <1>1, <1>2, <1>5, <2>1 DEF Stages, InStage
<1>6. CASE /\ p.parts = o.parts /\ Stage(p) = Stage(o)
           /\ p.todo = o.todo /\ o.pc = "build" /\ p.pc = "save"
  BY <1>1, <1>2, <1>6 DEF Stages, InStage
<1> QED BY <1>3, <1>4, <1>5, <1>6 DEF Advances

LEMMA StartAttempt ==
    ASSUME TypeInv, NEW t \in Task, Start(t)
    PROVE  AttemptOK(op'[t])
<1>1. PICK act \in Operations, d \in Device, r \in Registration :
        Continue(t, Started(act, d, r), queue)
  BY Zenon DEF Start
<1>2. op'[t] = Started(act, d, r)
  BY <1>1 DEF Continue, TypeInv, TypeOK
<1>3. ~Started(act, d, r).retried /\ Started(act, d, r).pc \in {"peek", "fetch", "queued"}
  BY DEF Started, Idle, FirstStep
<1> QED BY <1>2, <1>3 DEF AttemptOK

(* The caller's signal leaves a call where it is.                          *)
LEMMA AbortStays ==
    ASSUME TypeInv, NEW t \in Task, Abort(t)
    PROVE  /\ op'[t].parts = op[t].parts /\ op'[t].pc = op[t].pc
           /\ op'[t].retried = op[t].retried /\ op'[t].todo = op[t].todo
           /\ op'[t].act = op[t].act
  BY DEF Abort, TypeInv, TypeOK, Call

(* What any step does to a call that is under way: nothing, but for its    *)
(* caller's signal, or it brings it ahead.                                 *)
LEMMA StepAhead ==
    ASSUME TypeInv, AttemptsOK, [Next]_vars
    PROVE  /\ AttemptsOK'
           /\ \A t \in Task : InFlight(t) =>
                \/ Ahead(t)
                \/ /\ ~Runs(t)
                   /\ op'[t].parts = op[t].parts /\ op'[t].pc = op[t].pc
                   /\ op'[t].retried = op[t].retried /\ op'[t].todo = op[t].todo
<1> DEFINE Stays(t) == /\ op'[t].parts = op[t].parts /\ op'[t].pc = op[t].pc
                       /\ op'[t].retried = op[t].retried
                       /\ op'[t].todo = op[t].todo
<1>1. \A t \in Task : Runs(t) => Ahead(t)
  BY RunsAhead DEF AttemptsOK
<1>2. CASE UNCHANGED op
  BY <1>1, <1>2 DEF AttemptsOK
<1>3. CASE \E t \in Task : Start(t) \/ Abort(t) \/ Runs(t)
  <2>1. PICK t \in Task : Start(t) \/ Abort(t) \/ Runs(t)
    BY <1>3
  <2>2. \A u \in Task \ {t} : op'[u] = op[u]
    BY <2>1, StepsOne
  <2>3. CASE Start(t)
    <3>1. ~InFlight(t)
      BY <2>3 DEF Start, InFlight
    <3> QED BY <1>1, <2>2, <2>3, <3>1, StartAttempt DEF AttemptsOK
  <2>4. CASE Abort(t)
    <3>1. Stays(t) /\ op'[t].act = op[t].act
      BY <2>4, AbortStays
    <3>2. AttemptOK(op'[t])
      BY <3>1 DEF AttemptsOK, AttemptOK
    <3> QED BY <1>1, <2>2, <3>1, <3>2 DEF AttemptsOK
  <2>5. CASE Runs(t)
    BY <1>1, <2>2, <2>5 DEF AttemptsOK, Ahead
  <2> QED BY <2>1, <2>3, <2>4, <2>5
<1>4. CASE DevicesChange \/ UNCHANGED vars
  BY <1>2, <1>4 DEF DevicesChange, vars
<1> QED BY <1>3, <1>4 DEF Next

(* The provable half of EveryCallSettles: a call that is under way has a   *)
(* number of steps left, every step of its own lowers it, and no step of   *)
(* another call, of a device or of its caller raises it.  So no call goes  *)
(* round in circles, through rejections, repairs and refetches alike       *)
(* (sendContentMessageLocked, recoverIncomingDecryptionFailure).           *)
THEOREM EveryCallRunsOut ==
  Spec => /\ [](\A t \in Task : Left(op[t]) \in Nat)
          /\ [][\A t \in Task : InFlight(t) =>
                 /\ Left(op'[t]) <= Left(op[t])
                 /\ Runs(t) => Left(op'[t]) < Left(op[t])]_vars
<1>1. Shape /\ LockInv /\ TypeInv /\ AttemptsOK /\ [Next]_vars
      => /\ Shape' /\ LockInv' /\ TypeInv' /\ AttemptsOK'
         /\ [\A t \in Task : InFlight(t) =>
               /\ Left(op'[t]) <= Left(op[t])
               /\ Runs(t) => Left(op'[t]) < Left(op[t])]_vars
  <2> SUFFICES ASSUME Shape, LockInv, TypeInv, AttemptsOK, [Next]_vars
               PROVE  /\ Shape' /\ LockInv' /\ TypeInv' /\ AttemptsOK'
                      /\ \A t \in Task : InFlight(t) =>
                           /\ Left(op'[t]) <= Left(op[t])
                           /\ Runs(t) => Left(op'[t]) < Left(op[t])
    OBVIOUS
  <2>1. Shape' /\ LockInv' /\ TypeInv'
    BY LockStep, TypeStep
  <2>2. ASSUME NEW t \in Task, InFlight(t)
        PROVE  /\ Left(op'[t]) <= Left(op[t])
               /\ Runs(t) => Left(op'[t]) < Left(op[t])
    <3>1. op[t] \in Call /\ op'[t] \in Call
      BY <2>1 DEF TypeInv, TypeOK
    <3>2. Left(op[t]) \in Nat /\ Left(op'[t]) \in Nat
      BY <3>1, LeftIsNumber
    <3>3. CASE Ahead(t)
      <4>1. Left(op'[t]) < Left(op[t])
        BY <3>1, <3>3, AdvancesLowers DEF Ahead
      <4> QED BY <3>2, <4>1
    <3>4. CASE /\ ~Runs(t)
               /\ op'[t].parts = op[t].parts /\ op'[t].pc = op[t].pc
               /\ op'[t].retried = op[t].retried /\ op'[t].todo = op[t].todo
      <4>1. Left(op'[t]) = Left(op[t])
        BY <3>4 DEF Left, Stages, InStage, Stage
      <4> QED BY <3>2, <3>4, <4>1
    <3> QED BY <2>2, <3>3, <3>4, StepAhead
  <2> QED BY <2>1, <2>2, StepAhead
<1>2. Init => Shape /\ LockInv /\ TypeInv /\ AttemptsOK
  BY InitialLock, InitTypes DEF Init, Idle, AttemptsOK, AttemptOK
<1>3. TypeInv => \A t \in Task : Left(op[t]) \in Nat
  BY LeftIsNumber DEF TypeInv, TypeOK
<1> QED BY <1>1, <1>2, <1>3, PTL DEF Spec

-----------------------------------------------------------------------------
(* Nobody waits in vain.                                                   *)

(* Whoever waits for the lock is in the chain.                             *)
Listed ==
    \A t \in Task : op[t].pc = "queued" => \E i \in 1 .. Len(queue) : queue[i] = t

(* A call that begins, goes on or ends keeps its place, leaves the head, or*)
(* queues up at the tail.                                                  *)
Moves(t) == \E o : Continue(t, o, queue) \/ Continue(t, o, Released(t))

LEMMA StepsMove ==
    ASSUME NEW t \in Task, Start(t) \/ Runs(t)
    PROVE  Moves(t)
<1>1. \A o : /\ Continue(t, o, queue) => Moves(t)
             /\ Continue(t, o, Released(t)) => Moves(t)
  BY DEF Moves
<1>2. \A r : Ends(t, r) => Moves(t)
  BY <1>1 DEF Ends
<1>3. \A pc : Goes(t, pc) => Moves(t)
  BY <1>1 DEF Goes
<1>4. CASE Start(t) \/ Peek(t) \/ UseCached(t) \/ Fetch(t)
  BY <1>1, <1>3, <1>4, Zenon DEF Start, Peek, UseCached, Fetch
<1>5. CASE \/ AcquireAborted(t) \/ AcquireToSend(t) \/ AcquireToSeal(t)
           \/ AcquireToSync(t) \/ AcquireForReceipt(t)
           \/ AcquireToDecrypt(t) \/ AcquireToArchive(t)
  BY <1>1, <1>2, <1>3, <1>5, ZenonT(60)
     DEF AcquireAborted, AcquireToSend, AcquireToSeal, AcquireToSync,
         AcquireForReceipt, AcquireToDecrypt, AcquireToArchive, WarmStart,
         BundleStart
<1>6. CASE \/ LoadSession(t) \/ SaveSession(t) \/ Built(t) \/ Sealed(t)
           \/ FetchLocked(t) \/ ReceiptFetch(t) \/ DropSession(t) \/ AllDropped(t)
  BY <1>1, <1>2, <1>3, <1>6, ZenonT(60)
     DEF LoadSession, SaveSession, Built, Sealed, FetchLocked, ReceiptFetch,
         DropSession, AllDropped
<1>7. CASE \/ SendAccepted(t) \/ GroupAccepted(t) \/ SealedAnswered(t)
           \/ SyncAnswered(t) \/ SendRejected(t) \/ RequestFails(t)
  BY <1>1, <1>2, <1>3, <1>7, ZenonT(60)
     DEF SendAccepted, GroupAccepted, SealedAnswered, SyncAnswered,
         SendRejected, RequestFails, Fails
<1> QED BY <1>4, <1>5, <1>6, <1>7 DEF Runs, Locked

LEMMA MovesList ==
    ASSUME Shape, Listed, NEW t \in Task, Moves(t)
    PROVE  Listed'
<1>1. PICK o, chain : Continue(t, o, chain) /\ chain \in {queue, Released(t)}
  BY DEF Moves
<1>2. op'[t] = o /\ \A u \in Task \ {t} : op'[u] = op[u]
  BY <1>1 DEF Continue, Shape
<1>3. /\ chain \in Seq(Task)
      /\ \A i \in 1 .. Len(queue) : queue[i] # t =>
           \E j \in 1 .. Len(chain) : chain[j] = queue[i]
  <2>1. CASE chain = queue
    BY <2>1 DEF Shape
  <2>2. CASE queue # <<>> /\ Head(queue) = t /\ chain = Tail(queue)
    <3>1. /\ Tail(queue) \in Seq(Task) /\ Len(Tail(queue)) = Len(queue) - 1
          /\ Len(queue) \in Nat
          /\ \A j \in 1 .. Len(queue) - 1 : Tail(queue)[j] = queue[j + 1]
      BY <2>2 DEF Shape
    <3>2. ASSUME NEW i \in 1 .. Len(queue), queue[i] # t
          PROVE  i - 1 \in 1 .. Len(queue) - 1 /\ i - 1 + 1 = i
      BY <2>2, <3>1, <3>2 DEF Shape
    <3> QED BY <2>2, <3>1, <3>2
  <2> QED BY <1>1, <2>1, <2>2 DEF Released
<1>4. /\ \A j \in 1 .. Len(chain) : j \in 1 .. Len(queue') /\ queue'[j] = chain[j]
      /\ o.pc = "queued" => \E j \in 1 .. Len(queue') : queue'[j] = t
  <2>1. CASE o.pc = "queued"
    <3>1. queue' = Append(chain, t)
      BY <1>1, <2>1 DEF Continue
    <3>2. Len(queue') = Len(chain) + 1 /\ Len(chain) \in Nat
      BY <1>3, <3>1
    <3>3. queue'[Len(chain) + 1] = t
      BY <1>3, <3>1
    <3>4. Len(chain) + 1 \in 1 .. Len(queue')
      BY <3>2
    <3> QED BY <1>3, <3>1, <3>2, <3>3, <3>4
  <2>2. CASE o.pc # "queued"
    BY <1>1, <1>3, <2>2 DEF Continue
  <2> QED BY <2>1, <2>2
<1>5. ASSUME NEW u \in Task, op'[u].pc = "queued"
      PROVE  \E j \in 1 .. Len(queue') : queue'[j] = u
  <2>1. CASE u = t
    BY <1>2, <1>4, <1>5, <2>1
  <2>2. CASE u # t
    BY <1>2, <1>3, <1>4, <1>5, <2>2 DEF Listed
  <2> QED BY <2>1, <2>2
<1> QED BY <1>5 DEF Listed

(* As long as a call waits for the lock there is a call before it, or it   *)
(* is itself the one, whose turn it is and who need not wait: one that is  *)
(* inside, or one whose predecessors have all released.  So the calls never*)
(* wait for each other alone, on any path out of the serialized mutation   *)
(* (runSerializedSignalStateMutation).                                     *)
THEOREM NobodyWaitsInVain ==
  Spec => [](\A t \in Task : op[t].pc = "queued" =>
               \E u \in Task : op[u].pc \in Inside \/ HasLock(u))
<1>1. Shape /\ LockInv /\ TypeInv /\ Listed /\ [Next]_vars
      => Shape' /\ LockInv' /\ TypeInv' /\ Listed'
  <2> SUFFICES ASSUME Shape, LockInv, TypeInv, Listed, [Next]_vars
               PROVE  Shape' /\ LockInv' /\ TypeInv' /\ Listed'
    OBVIOUS
  <2>1. Shape' /\ LockInv' /\ TypeInv'
    BY LockStep, TypeStep
  <2>2. ASSUME NEW t \in Task, Start(t) \/ Runs(t)
        PROVE  Listed'
    BY <2>2, StepsMove, MovesList
  <2>3. ASSUME NEW t \in Task, Abort(t)
        PROVE  Listed'
    <3>1. queue' = queue /\ \A u \in Task : op'[u].pc = op[u].pc
      BY <2>3, AbortStays, StepsOne DEF Abort
    <3> QED BY <3>1 DEF Listed
  <2>4. CASE DevicesChange \/ UNCHANGED vars
    <3>1. queue' = queue /\ \A u \in Task : op'[u].pc = op[u].pc
      BY <2>4 DEF DevicesChange, vars
    <3> QED BY <2>1, <3>1 DEF Listed
  <2> QED BY <2>1, <2>2, <2>3, <2>4 DEF Next
<1>2. Init => Shape /\ LockInv /\ TypeInv /\ Listed
  BY InitialLock, InitTypes DEF Init, Idle, Listed
<1>3. Shape /\ LockInv /\ Listed =>
        \A t \in Task : op[t].pc = "queued" =>
          \E u \in Task : op[u].pc \in Inside \/ HasLock(u)
  <2> SUFFICES ASSUME Shape, LockInv, Listed, NEW t \in Task, op[t].pc = "queued"
               PROVE  \E u \in Task : op[u].pc \in Inside \/ HasLock(u)
    OBVIOUS
  <2>1. PICK i \in 1 .. Len(queue) : queue[i] = t
    BY DEF Listed
  <2>2. queue # <<>> /\ queue[1] \in Task /\ Head(queue) = queue[1] /\ 1 \in 1 .. Len(queue)
    BY <2>1 DEF Shape
  <2>3. op[queue[1]].pc \in Inside \cup {"queued"}
    BY <2>2 DEF LockInv
  <2> QED BY <2>2, <2>3 DEF HasLock
<1> QED BY <1>1, <1>2, <1>3, PTL DEF Spec

====
