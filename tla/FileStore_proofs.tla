------------------------- MODULE FileStore_proofs -------------------------
(* What a FileSignalRepository promises holds for any number of slots,     *)
(* calls, changes, failing steps and crashes, and it implements            *)
(* StableStore.                                                            *)
EXTENDS FileStore, SequenceTheorems, TLAPS

(* Contents are at least as new as whatever the setter of d vouches for.   *)
Covers(of, d) ==
  \A c \in Persists :
    Live(c) /\ call[c].stamp <= call[d].stamp => of[call[c].slot] >= call[c].stamp

(* The chain: one entry per waiting call, and the head runs.               *)
ChainInv ==
  /\ \A i, j \in 1 .. Len(queue) : queue[i] = queue[j] => i = j
  /\ \A i \in 1 .. Len(queue) : call[queue[i]].pc = "waiting"
  /\ phase = "idle" <=> queue = <<>>

(* Without a repository nothing waits; the one that is opening persists    *)
(* for open() only, so that a failure has no setter to forget.             *)
OpeningInv ==
  /\ repository = "closed" => queue = <<>>
  /\ repository = "opening" => queue = <<Opener>>
  /\ repository # "open" =>
       \A c \in Calls : call[c].pc \notin {"waiting", "rejected"}
  /\ repository = "closed" => call[Opener].pc \notin {"waiting", "rejected"}

(* Stamps come from the clock, so a new change is newer than everything.   *)
ClockInv ==
  /\ \A s \in Slots : memory[s] <= clock /\ file.of[s] <= clock /\ temporary.of[s] <= clock
  /\ \A c \in Persists : call[c].stamp <= clock

(* Memory has every change whose call is not over, and all that is stored. *)
MemoryInv ==
  repository # "closed" =>
    /\ \A c \in Persists : Live(c) => call[c].stamp <= memory[call[c].slot]
    /\ file.kind = "whole" => \A s \in Slots : file.of[s] <= memory[s]

(* The snapshot under way lies between the file and memory, and covers the *)
(* call it is written for.                                                 *)
SnapshotInv ==
  /\ phase = "rename" => temporary.kind = "whole"
  /\ phase \in {"write", "rename"} =>
       /\ \A s \in Slots : temporary.of[s] <= memory[s]
       /\ file.kind = "whole" => \A s \in Slots : file.of[s] <= temporary.of[s]
       /\ Covers(temporary.of, Head(queue))

(* So does the file, once the snapshot has become the file.                *)
FileInv ==
  /\ phase = "settle" => file.kind = "whole" /\ Covers(file.of, Head(queue))
  /\ \A d \in Persists :
       call[d].pc = "resolved" => file.kind = "whole" /\ Covers(file.of, d)

StoreInv ==
  /\ TypeOK
  /\ ChainInv /\ OpeningInv /\ ClockInv /\ MemoryInv /\ SnapshotInv /\ FileInv
  /\ PromisedSurvives

-----------------------------------------------------------------------------
(* The chain as a sequence.                                                *)

LEMMA HeadOfChain ==
  ASSUME TypeOK, queue # <<>>
  PROVE  /\ Head(queue) \in Persists /\ Head(queue) = queue[1]
         /\ Tail(queue) \in Seq(Persists)
         /\ Len(queue) \in Nat /\ Len(queue) > 0
         /\ Len(Tail(queue)) = Len(queue) - 1
         /\ \A i \in 1 .. Len(Tail(queue)) : Tail(queue)[i] = queue[i + 1]
  BY DEF TypeOK

LEMMA LongerChain ==
  ASSUME TypeOK, NEW c \in Persists
  PROVE  /\ Append(queue, c) \in Seq(Persists) /\ Append(queue, c) # <<>>
         /\ Len(queue) \in Nat
         /\ Len(Append(queue, c)) = Len(queue) + 1
         /\ \A i \in 1 .. Len(queue) : Append(queue, c)[i] = queue[i]
         /\ Append(queue, c)[Len(queue) + 1] = c
         /\ queue # <<>> => Head(Append(queue, c)) = Head(queue)
         /\ queue = <<>> => Append(queue, c) = <<c>>
<1>1. queue \in Seq(Persists)
  BY DEF TypeOK
<1>2. queue = <<>> => Append(queue, c) = <<c>>
  OBVIOUS
<1> QED
  BY <1>1, <1>2, AppendProperties, HeadTailAppend

(* A step of a persist has one at the head.                                *)
LEMMA HeadRuns ==
  ASSUME TypeOK, ChainInv, phase # "idle"
  PROVE  /\ queue # <<>> /\ Head(queue) \in Persists
         /\ call[Head(queue)].pc = "waiting"
  BY HeadOfChain DEF ChainInv

LEMMA PersistsAre ==
  /\ Opener \in Persists /\ Opener \notin Calls
  /\ \A c \in Calls : c \in Persists /\ c # Opener
  /\ \A c \in Persists : c \in Calls \/ c = Opener
  BY StoreAssumption DEF Persists, StoreAssumption

-----------------------------------------------------------------------------
(* Types.                                                                  *)

LEMMA InitType == Init => TypeOK
  BY StoreAssumption
  DEF Init, TypeOK, StoreAssumption, Contents, Blank, Nothing, Disk, Call, Persists

LEMMA OpenType ==
  ASSUME TypeOK, NEW initialData \in BOOLEAN, Open(initialData)
  PROVE  TypeOK'
<1>1. memory' \in Contents /\ clock' \in Nat
  <2>1. clock \in Nat /\ file.of \in Contents
    BY DEF TypeOK, Disk
  <2>2. Initial(clock + 1) \in Contents
    BY <2>1, StoreAssumption DEF Initial, Blank, Contents, StoreAssumption
  <2> QED
    BY <2>1, <2>2 DEF Open, ReadStoreFile
<1>2. queue' \in Seq(Persists)
  BY LongerChain, PersistsAre DEF TypeOK, Open, Enqueue
<1>3. call' \in [Persists -> Call]
  <2>1. Identity \in Slots /\ memory'[Identity] \in Nat
    BY <1>1, StoreAssumption DEF Contents, StoreAssumption
  <2>2. [pc |-> "waiting", slot |-> Identity, stamp |-> memory'[Identity]] \in Call
    BY <2>1 DEF Call
  <2> QED
    BY <2>2 DEF TypeOK, Open
<1> QED
  BY <1>1, <1>2, <1>3 DEF TypeOK, Open, Enqueue, disk, bounds

LEMMA WriteType ==
  ASSUME TypeOK, NEW c \in Calls, NEW s \in Slots, Write(c, s)
  PROVE  TypeOK'
<1>1. queue' \in Seq(Persists)
  BY LongerChain, PersistsAre DEF Write, Enqueue
<1>2. call' \in [Persists -> Call]
  BY PersistsAre DEF TypeOK, Write, Call
<1>3. memory' \in Contents /\ clock' \in Nat
  BY DEF TypeOK, Write, Contents
<1> QED
  BY <1>1, <1>2, <1>3 DEF TypeOK, Write, Enqueue, disk, bounds

LEMMA SettleType == TypeOK /\ ChainInv /\ Settle => TypeOK'
<1> SUFFICES ASSUME TypeOK, ChainInv, Settle PROVE TypeOK'
  OBVIOUS
<1>1. Head(queue) \in Persists /\ queue # <<>>
  BY HeadRuns DEF Settle
<1>2. queue' \in Seq(Persists)
  BY <1>1, HeadOfChain DEF Settle, Dequeue
<1>3. call' \in [Persists -> Call]
  BY <1>1 DEF TypeOK, Settle, Call
<1>4. promised' \in Contents
  BY <1>1 DEF TypeOK, Settle, Call, Contents
<1> QED
  BY <1>2, <1>3, <1>4 DEF TypeOK, Settle, Dequeue, disk, bounds

LEMMA FailType == TypeOK /\ ChainInv /\ Fail => TypeOK'
<1> SUFFICES ASSUME TypeOK, ChainInv, Fail PROVE TypeOK'
  OBVIOUS
<1>1. Head(queue) \in Persists /\ queue # <<>>
  BY HeadRuns DEF Fail
<1>2. queue' \in Seq(Persists)
  BY <1>1, HeadOfChain DEF Fail, Dequeue
<1>3. call' \in [Persists -> Call]
  BY ZenonT(40), <1>1 DEF TypeOK, Fail, Call
<1>4. memory' \in Contents /\ faults' \in Nat
  BY DEF TypeOK, Fail, Contents, Blank
<1> QED
  BY <1>2, <1>3, <1>4 DEF TypeOK, Fail, Dequeue, disk

LEMMA CrashType == TypeOK /\ Crash => TypeOK'
<1> SUFFICES ASSUME TypeOK, Crash PROVE TypeOK'
  OBVIOUS
<1>1. call' \in [Persists -> Call]
  BY DEF TypeOK, Crash, Call
<1>2. memory' \in Contents /\ crashes' \in Nat /\ queue' \in Seq(Persists)
  BY DEF TypeOK, Crash, Contents, Blank
<1> QED
  BY <1>1, <1>2 DEF TypeOK, Crash, disk

LEMMA TypeStep == TypeOK /\ ChainInv /\ [Next]_vars => TypeOK'
<1> SUFFICES ASSUME TypeOK, ChainInv, [Next]_vars PROVE TypeOK'
  OBVIOUS
<1>1. CASE BeginWrite
  BY <1>1 DEF TypeOK, BeginWrite, Snapshot, Disk, bounds
<1>2. CASE EndWrite
  BY <1>2 DEF TypeOK, EndWrite, Disk, bounds
<1>3. CASE Rename
  BY <1>3 DEF TypeOK, Rename, Nothing, Disk, Contents, Blank, bounds
<1>4. CASE UNCHANGED vars
  BY <1>4 DEF TypeOK, vars
<1> QED
  BY <1>1, <1>2, <1>3, <1>4, OpenType, WriteType, SettleType, FailType, CrashType
  DEF Next, Persisting

-----------------------------------------------------------------------------
(* The chain and the life of the repository.                               *)

LEMMA EnqueueChain ==
  ASSUME TypeOK, ChainInv, NEW c \in Persists, call[c].pc # "waiting",
         Enqueue(c), call'[c].pc = "waiting",
         \A d \in Persists : d # c => call'[d] = call[d]
  PROVE  ChainInv'
<1>1. \A i \in 1 .. Len(queue) : queue[i] \in Persists /\ queue[i] # c
  BY DEF TypeOK, ChainInv
<1>2. /\ Len(queue) \in Nat /\ queue' # <<>>
      /\ \A i \in 1 .. Len(queue') : i \in 1 .. Len(queue) \/ i = Len(queue) + 1
      /\ \A i \in 1 .. Len(queue) : queue'[i] = queue[i]
      /\ queue'[Len(queue) + 1] = c
  BY LongerChain DEF Enqueue
<1>3. \A i, j \in 1 .. Len(queue') : queue'[i] = queue'[j] => i = j
  BY <1>1, <1>2 DEF ChainInv
<1>4. \A i \in 1 .. Len(queue') : call'[queue'[i]].pc = "waiting"
  BY <1>1, <1>2 DEF ChainInv
<1>5. phase' # "idle"
  BY DEF ChainInv, Enqueue
<1> QED
  BY <1>2, <1>3, <1>4, <1>5 DEF ChainInv

LEMMA DequeueChain ==
  ASSUME TypeOK, ChainInv, phase # "idle", Dequeue,
         \A d \in Persists : d # Head(queue) => call'[d] = call[d]
  PROVE  ChainInv'
<1>1. queue # <<>> /\ queue' = Tail(queue)
  BY HeadRuns DEF Dequeue
<1>2. /\ Len(queue) \in Nat /\ Len(queue) > 0 /\ Len(queue') = Len(queue) - 1
      /\ \A i \in 1 .. Len(queue') : queue'[i] = queue[i + 1] /\ i + 1 \in 1 .. Len(queue)
      /\ Head(queue) = queue[1]
  BY <1>1, HeadOfChain
<1>3. \A i \in 1 .. Len(queue) : queue[i] \in Persists
  BY DEF TypeOK
<1>4. \A i \in 1 .. Len(queue') : queue'[i] # Head(queue)
  BY <1>2 DEF ChainInv
<1>5. \A i, j \in 1 .. Len(queue') : queue'[i] = queue'[j] => i = j
  BY <1>2 DEF ChainInv
<1>6. \A i \in 1 .. Len(queue') : call'[queue'[i]].pc = "waiting"
  BY <1>2, <1>3, <1>4 DEF ChainInv
<1>7. phase' = "idle" <=> queue' = <<>>
  BY DEF Dequeue
<1> QED
  BY <1>5, <1>6, <1>7 DEF ChainInv

(* What the actions that move the chain do to the calls.                   *)
LEMMA HeadLeaves ==
  ASSUME TypeOK, ChainInv, Settle \/ Fail
  PROVE  /\ phase # "idle" /\ Dequeue
         /\ \A d \in Persists : d # Head(queue) => call'[d] = call[d]
<1>1. call \in [Persists -> Call]
  BY DEF TypeOK
<1> QED
  BY <1>1 DEF Settle, Fail

LEMMA HeadKeepsChange ==
  ASSUME TypeOK, ChainInv, Settle \/ Fail
  PROVE  \A d \in Persists : /\ Live(d)' => Live(d)
                             /\ call'[d].stamp = call[d].stamp
                             /\ call'[d].slot = call[d].slot
<1>1. /\ call \in [Persists -> Call] /\ Head(queue) \in Persists
      /\ call[Head(queue)].pc = "waiting"
  BY HeadLeaves, HeadRuns DEF TypeOK
<1>2. PICK pc \in {"resolved", "rejected", "dead"} :
        call' = [call EXCEPT ![Head(queue)].pc = pc]
  BY DEF Settle, Fail
<1> QED
  BY <1>1, <1>2 DEF Live, Call

LEMMA WriteEnters ==
  ASSUME TypeOK, NEW c \in Calls, NEW s \in Slots, Write(c, s)
  PROVE  /\ c \in Persists /\ c # Opener
         /\ call[c].pc = "idle" /\ Enqueue(c)
         /\ call'[c].pc = "waiting" /\ call'[c].slot = s /\ call'[c].stamp = clock + 1
         /\ \A d \in Persists : d # c => call'[d] = call[d]
<1>1. call \in [Persists -> Call]
  BY DEF TypeOK
<1> QED
  BY <1>1, PersistsAre DEF Write

LEMMA OpenEnters ==
  ASSUME TypeOK, OpeningInv, Open(TRUE)
  PROVE  /\ repository = "closed" /\ repository' = "opening" /\ queue = <<>>
         /\ call[Opener].pc # "waiting" /\ Enqueue(Opener)
         /\ call'[Opener].pc = "waiting" /\ call'[Opener].slot = Identity
         /\ call'[Opener].stamp = memory'[Identity]
         /\ \A d \in Persists : d # Opener => call'[d] = call[d]
<1>1. call \in [Persists -> Call]
  BY DEF TypeOK
<1> QED
  BY <1>1, PersistsAre DEF Open, OpeningInv

LEMMA OpenQuietly ==
  ASSUME Open(FALSE)
  PROVE  /\ repository = "closed" /\ repository' = "open"
         /\ UNCHANGED <<queue, phase, call>>
  BY DEF Open

(* A step that writes the snapshot leaves the chain and the calls alone.   *)
LEMMA WritingKeepsChain ==
  ASSUME BeginWrite \/ EndWrite \/ Rename
  PROVE  /\ UNCHANGED <<repository, memory, queue, call, clock, promised>>
         /\ phase # "idle" /\ phase' # "idle"
  BY DEF BeginWrite, EndWrite, Rename

(* After a kill only calls that have resolved are remembered.              *)
LEMMA CrashEnds ==
  ASSUME TypeOK, Crash
  PROVE  /\ queue' = <<>> /\ phase' = "idle" /\ repository' = "closed"
         /\ \A d \in Persists : call'[d].pc \notin {"waiting", "rejected"}
         /\ \A d \in Persists : call'[d].pc = "resolved" => call'[d] = call[d]
         /\ \A d \in Persists : call'[d].stamp = call[d].stamp
<1>1. call \in [Persists -> Call]
  BY DEF TypeOK
<1> QED
  BY <1>1 DEF Crash, Call

LEMMA ChainStep == TypeOK /\ ChainInv /\ OpeningInv /\ [Next]_vars => ChainInv'
<1> SUFFICES ASSUME TypeOK, ChainInv, OpeningInv, [Next]_vars PROVE ChainInv'
  OBVIOUS
<1>1. CASE BeginWrite \/ EndWrite \/ Rename
  BY <1>1, WritingKeepsChain DEF ChainInv
<1>2. CASE Settle \/ Fail
  BY <1>2, HeadLeaves, DequeueChain
<1>3. CASE Crash
  BY <1>3, CrashEnds DEF ChainInv
<1>4. ASSUME NEW c \in Calls, NEW s \in Slots, Write(c, s) PROVE ChainInv'
  <2>1. call'[c].pc = "waiting" /\ call[c].pc # "waiting"
    BY <1>4, WriteEnters
  <2> QED
    BY <1>4, <2>1, WriteEnters, EnqueueChain
<1>5. CASE Open(TRUE)
  BY <1>5, OpenEnters, EnqueueChain, PersistsAre
<1>6. CASE Open(FALSE)
  BY <1>6, OpenQuietly DEF ChainInv
<1>7. CASE UNCHANGED vars
  BY <1>7 DEF ChainInv, vars
<1> QED
  BY <1>1, <1>2, <1>3, <1>4, <1>5, <1>6, <1>7 DEF Next, Persisting

LEMMA OpeningStep == TypeOK /\ ChainInv /\ OpeningInv /\ [Next]_vars => OpeningInv'
<1> SUFFICES ASSUME TypeOK, ChainInv, OpeningInv, [Next]_vars PROVE OpeningInv'
  OBVIOUS
<1> USE PersistsAre
<1>1. CASE BeginWrite \/ EndWrite \/ Rename
  BY <1>1, WritingKeepsChain DEF OpeningInv
<1>2. CASE Settle
  BY <1>2 DEF OpeningInv, Settle
<1>3. CASE Fail
  <2>1. /\ repository \in {"opening", "open"} /\ queue # <<>>
        /\ \A d \in Persists : d # Head(queue) => call'[d] = call[d]
    BY <1>3, HeadLeaves, HeadRuns DEF Fail
  <2>2. CASE repository = "open"
    BY <1>3, <2>2 DEF OpeningInv, Fail
  <2>3. CASE repository = "opening"
    <3>1. queue = <<Opener>>
      BY <2>3 DEF OpeningInv
    <3>2. Head(queue) = Opener /\ Tail(queue) = <<>>
      BY <3>1
    <3>3. call'[Opener].pc = "dead" /\ repository' = "closed" /\ queue' = <<>>
      BY <1>3, <2>3, <3>2 DEF Fail, Dequeue, TypeOK, Call
    <3> QED
      BY <2>1, <2>3, <3>2, <3>3 DEF OpeningInv
  <2> QED
    BY <2>1, <2>2, <2>3
<1>4. CASE Crash
  BY <1>4, CrashEnds DEF OpeningInv
<1>5. ASSUME NEW c \in Calls, NEW s \in Slots, Write(c, s) PROVE OpeningInv'
  BY <1>5 DEF OpeningInv, Write
<1>6. CASE Open(TRUE)
  <2>1. queue' = <<Opener>>
    BY <1>6, OpenEnters, LongerChain DEF Enqueue
  <2> QED
    BY <1>6, <2>1, OpenEnters DEF OpeningInv
<1>7. CASE Open(FALSE)
  BY <1>7, OpenQuietly DEF OpeningInv
<1>8. CASE UNCHANGED vars
  BY <1>8 DEF OpeningInv, vars
<1> QED
  BY <1>1, <1>2, <1>3, <1>4, <1>5, <1>6, <1>7, <1>8 DEF Next, Persisting

-----------------------------------------------------------------------------
(* Stamps, memory, the snapshot and the file.                              *)

LEMMA Types ==
  ASSUME TypeOK
  PROVE  /\ clock \in Nat
         /\ \A s \in Slots : /\ memory[s] \in Nat /\ file.of[s] \in Nat
                             /\ temporary.of[s] \in Nat /\ promised[s] \in Nat
         /\ \A c \in Persists : call[c].stamp \in Nat /\ call[c].slot \in Slots
         /\ DOMAIN memory = Slots /\ DOMAIN promised = Slots
  BY DEF TypeOK, Contents, Disk, Call

LEMMA ReadStamps ==
  ASSUME TypeOK, ClockInv, NEW initialData \in BOOLEAN, Open(initialData)
  PROVE  /\ clock' \in Nat /\ clock <= clock'
         /\ \A s \in Slots : memory'[s] \in Nat /\ memory'[s] <= clock'
         /\ \/ file.kind = "whole" /\ memory' = file.of
            \/ file.kind = "none"
<1>1. Identity \in Slots
  BY StoreAssumption DEF StoreAssumption
<1>2. CASE file.kind = "whole" /\ memory' = file.of /\ clock' = clock
  BY <1>2, Types DEF ClockInv
<1>3. CASE file.kind = "none" /\ memory' = Initial(clock + 1) /\ clock' = clock + 1
  <2>1. \A s \in Slots : memory'[s] \in {0, clock + 1}
    BY <1>1, <1>3 DEF Initial, Blank
  <2> QED
    BY <1>3, <2>1, Types
<1> QED
  BY <1>2, <1>3 DEF Open, ReadStoreFile

LEMMA ClockStep ==
  TypeOK /\ ChainInv /\ OpeningInv /\ ClockInv /\ [Next]_vars => ClockInv'
<1> SUFFICES ASSUME TypeOK, ChainInv, OpeningInv, ClockInv, [Next]_vars PROVE ClockInv'
  OBVIOUS
<1> USE Types
<1>1. CASE BeginWrite
  BY <1>1 DEF ClockInv, BeginWrite, Snapshot
<1>2. CASE EndWrite
  BY <1>2 DEF ClockInv, EndWrite, TypeOK, Disk
<1>3. CASE Rename
  BY <1>3 DEF ClockInv, Rename, Nothing, Blank
<1>4. CASE Settle
  <2>1. \A d \in Persists : call'[d].stamp = call[d].stamp
    BY <1>4, HeadKeepsChange
  <2> QED
    BY <1>4, <2>1 DEF ClockInv, Settle, disk
<1>5. CASE Fail
  <2>1. \A d \in Persists : call'[d].stamp = call[d].stamp
    BY <1>5, HeadKeepsChange
  <2> QED
    BY <1>5, <2>1 DEF ClockInv, Fail, disk, Blank
<1>6. CASE Crash
  BY <1>6, CrashEnds DEF ClockInv, Crash, disk, Blank
<1>7. ASSUME NEW c \in Calls, NEW s \in Slots, Write(c, s) PROVE ClockInv'
  <2>1. \A d \in Persists : call'[d].stamp <= clock'
    BY <1>7, WriteEnters DEF ClockInv, Write
  <2>2. \A t \in Slots : memory'[t] <= clock'
    BY <1>7 DEF ClockInv, Write
  <2> QED
    BY <1>7, <2>1, <2>2 DEF ClockInv, Write, disk
<1>8. CASE Open(TRUE)
  <2>1. Identity \in Slots
    BY StoreAssumption DEF StoreAssumption
  <2>2. \A d \in Persists : call'[d].stamp <= clock'
    <3>1. call'[Opener].stamp <= clock'
      BY <1>8, <2>1, OpenEnters, ReadStamps
    <3>2. \A d \in Persists : d # Opener => call'[d].stamp <= clock /\ call'[d].stamp \in Nat
      BY <1>8, OpenEnters DEF ClockInv
    <3>3. clock <= clock' /\ clock' \in Nat
      BY <1>8, ReadStamps
    <3> QED
      BY <3>1, <3>2, <3>3
  <2>3. \A t \in Slots : memory'[t] <= clock' /\ clock <= clock' /\ clock' \in Nat
    BY <1>8, ReadStamps
  <2> QED
    BY <1>8, <2>2, <2>3 DEF ClockInv, Open, disk
<1>9. CASE Open(FALSE)
  <2>1. \A t \in Slots : memory'[t] <= clock' /\ clock <= clock' /\ clock' \in Nat
    BY <1>9, ReadStamps
  <2> QED
    BY <1>9, <2>1 DEF ClockInv, Open, disk
<1>10. CASE UNCHANGED vars
  BY <1>10 DEF ClockInv, vars
<1> QED
  BY <1>1, <1>2, <1>3, <1>4, <1>5, <1>6, <1>7, <1>8, <1>9, <1>10 DEF Next, Persisting

LEMMA MemoryStep == StoreInv /\ [Next]_vars => MemoryInv'
<1> SUFFICES ASSUME StoreInv, [Next]_vars, repository' # "closed" PROVE MemoryInv'
  BY DEF MemoryInv
<1>0. /\ TypeOK /\ ChainInv /\ OpeningInv /\ ClockInv /\ MemoryInv
      /\ SnapshotInv /\ FileInv
  BY DEF StoreInv
<1> USE <1>0
<1>1. CASE BeginWrite
  BY <1>1 DEF MemoryInv, BeginWrite, Live
<1>2. CASE EndWrite
  BY <1>2 DEF MemoryInv, EndWrite, Live
<1>3. CASE Rename
  BY <1>3, Types DEF MemoryInv, SnapshotInv, Rename, Live
<1>4. CASE Settle
  <2>1. \A d \in Persists : /\ Live(d)' => Live(d)
                            /\ call'[d].stamp = call[d].stamp
                            /\ call'[d].slot = call[d].slot
    BY <1>4, HeadKeepsChange
  <2>2. repository # "closed"
    BY <1>4, HeadRuns DEF Settle, OpeningInv
  <2> QED
    BY <1>4, <2>1, <2>2 DEF MemoryInv, Settle, disk
<1>5. CASE Fail
  <2>1. \A d \in Persists : /\ Live(d)' => Live(d)
                            /\ call'[d].stamp = call[d].stamp
                            /\ call'[d].slot = call[d].slot
    BY <1>5, HeadKeepsChange
  <2> QED
    BY <1>5, <2>1 DEF MemoryInv, Fail, disk
<1>6. CASE Crash
  BY <1>6 DEF Crash
<1>7. ASSUME NEW c \in Calls, NEW s \in Slots, Write(c, s) PROVE MemoryInv'
  <2>1. /\ repository = "open" /\ UNCHANGED file /\ memory'[s] = clock + 1
        /\ \A t \in Slots : t # s => memory'[t] = memory[t]
    BY <1>7, Types DEF Write, disk
  <2>2. \A t \in Slots : memory[t] <= memory'[t]
    BY <2>1, Types DEF ClockInv
  <2>3. \A t \in Slots : memory'[t] \in Nat
    BY <2>1, Types
  <2>4. \A d \in Persists : Live(d)' => call'[d].stamp <= memory'[call'[d].slot]
    <3> SUFFICES ASSUME NEW d \in Persists, Live(d)'
                 PROVE  call'[d].stamp <= memory'[call'[d].slot]
      OBVIOUS
    <3>1. CASE d = c
      BY <1>7, <2>1, <3>1, WriteEnters, Types
    <3>2. CASE d # c
      <4>1. call'[d] = call[d] /\ Live(d)
        BY <1>7, <3>2, WriteEnters DEF Live
      <4>2. call[d].stamp <= memory[call[d].slot]
        BY <2>1, <4>1 DEF MemoryInv
      <4> QED
        BY <2>2, <2>3, <4>1, <4>2, Types
    <3> QED
      BY <3>1, <3>2
  <2>5. file'.kind = "whole" => \A t \in Slots : file'.of[t] <= memory'[t]
    BY <2>1, <2>2, <2>3, Types DEF MemoryInv
  <2> QED
    BY <2>4, <2>5 DEF MemoryInv
<1>8. ASSUME NEW b \in BOOLEAN, Open(b) PROVE MemoryInv'
  <2>1. repository = "closed" /\ UNCHANGED file
    BY <1>8 DEF Open, disk
  <2>2. \/ file.kind = "whole" /\ memory' = file.of
        \/ file.kind = "none"
    BY <1>8, ReadStamps
  <2>3. \A d \in Persists :
          Live(d)' => \/ call'[d] = call[d] /\ call[d].pc = "resolved"
                      \/ call'[d].slot = Identity /\ call'[d].stamp = memory'[Identity]
    <3> SUFFICES ASSUME NEW d \in Persists, Live(d)'
                 PROVE  \/ call'[d] = call[d] /\ call[d].pc = "resolved"
                        \/ call'[d].slot = Identity /\ call'[d].stamp = memory'[Identity]
      OBVIOUS
    <3>1. call[d].pc \notin {"waiting", "rejected"}
      BY <2>1, PersistsAre DEF OpeningInv
    <3>2. CASE Open(TRUE)
      <4>1. CASE d = Opener
        BY <3>2, <4>1, OpenEnters
      <4>2. CASE d # Opener
        BY <3>1, <3>2, <4>2, OpenEnters DEF Live
      <4> QED
        BY <4>1, <4>2
    <3>3. CASE Open(FALSE)
      <4>1. call' = call
        BY <3>3, OpenQuietly
      <4> QED
        BY <3>1, <4>1 DEF Live
    <3>4. Open(TRUE) \/ Open(FALSE)
      BY <1>8
    <3> QED
      BY <3>2, <3>3, <3>4
  <2>4. \A d \in Persists :
          call[d].pc = "resolved" =>
            file.kind = "whole" /\ file.of[call[d].slot] >= call[d].stamp
    BY Types DEF FileInv, Covers, Live
  <2>5. Identity \in Slots /\ \A t \in Slots : memory'[t] \in Nat
    BY <1>8, ReadStamps, StoreAssumption DEF StoreAssumption
  <2>6. \A d \in Persists : Live(d)' => call'[d].stamp <= memory'[call'[d].slot]
    BY <2>2, <2>3, <2>4, <2>5, Types
  <2>7. file'.kind = "whole" => \A t \in Slots : file'.of[t] <= memory'[t]
    BY <2>1, <2>2, Types
  <2> QED
    BY <2>6, <2>7 DEF MemoryInv
<1>9. CASE UNCHANGED vars
  BY <1>9 DEF MemoryInv, Live, vars
<1> QED
  BY <1>1, <1>2, <1>3, <1>4, <1>5, <1>6, <1>7, <1>8, <1>9 DEF Next, Persisting

(* Whatever is at most as new as the change of d was so before a setter    *)
(* made its own.                                                           *)
LEMMA WriteIsNewest ==
  ASSUME TypeOK, ClockInv, NEW c \in Calls, NEW s \in Slots, Write(c, s),
         NEW d \in Persists, call[d].pc # "idle"
  PROVE  \A e \in Persists :
           Live(e)' /\ call'[e].stamp <= call'[d].stamp =>
             Live(e) /\ call'[e] = call[e] /\ call[e].stamp <= call[d].stamp
<1> SUFFICES ASSUME NEW e \in Persists, Live(e)', call'[e].stamp <= call'[d].stamp
             PROVE  Live(e) /\ call'[e] = call[e] /\ call[e].stamp <= call[d].stamp
  OBVIOUS
<1>1. d # c /\ call'[d] = call[d] /\ call[d].stamp <= clock
  BY WriteEnters DEF ClockInv
<1>2. CASE e = c
  <2>1. call'[e].stamp = clock + 1
    BY <1>2, WriteEnters
  <2> QED
    BY <1>1, <2>1, Types
<1>3. CASE e # c
  BY <1>1, <1>3, WriteEnters DEF Live
<1> QED
  BY <1>2, <1>3

LEMMA SnapshotStep == StoreInv /\ [Next]_vars => SnapshotInv'
<1> SUFFICES ASSUME StoreInv, [Next]_vars PROVE SnapshotInv'
  OBVIOUS
<1>0. TypeOK /\ ChainInv /\ OpeningInv /\ ClockInv /\ MemoryInv /\ SnapshotInv
  BY DEF StoreInv
<1> USE <1>0
<1>1. CASE BeginWrite
  <2>1. repository # "closed" /\ Head(queue) \in Persists
    BY <1>1, HeadRuns DEF BeginWrite, OpeningInv
  <2>2. /\ temporary'.of = memory /\ phase' = "write"
        /\ UNCHANGED <<memory, file, queue, call>>
    BY <1>1 DEF BeginWrite, Snapshot
  <2>3. Covers(temporary.of, Head(queue))'
    BY <2>1, <2>2, Types DEF MemoryInv, Covers, Live
  <2> QED
    BY <2>1, <2>2, <2>3, Types DEF MemoryInv, SnapshotInv
<1>2. CASE EndWrite
  <2>1. /\ temporary'.of = temporary.of /\ temporary'.kind = "whole" /\ phase = "write"
        /\ UNCHANGED <<memory, file, queue, call>>
    BY <1>2 DEF EndWrite, TypeOK, Disk
  <2> QED
    BY <2>1 DEF SnapshotInv, Covers, Live
<1>3. CASE Rename \/ Settle \/ Fail \/ Crash \/ \E b \in BOOLEAN : Open(b)
  <2>1. phase' \notin {"write", "rename"}
    BY <1>3 DEF Rename, Settle, Fail, Crash, Open, Enqueue, Dequeue, ChainInv, OpeningInv
  <2> QED
    BY <2>1 DEF SnapshotInv
<1>4. ASSUME NEW c \in Calls, NEW s \in Slots, Write(c, s) PROVE SnapshotInv'
  <2> SUFFICES ASSUME phase' \in {"write", "rename"} PROVE SnapshotInv'
    BY DEF SnapshotInv
  <2>1. /\ phase' = phase /\ UNCHANGED <<file, temporary>> /\ repository = "open"
        /\ memory'[s] = clock + 1
        /\ \A t \in Slots : t # s => memory'[t] = memory[t]
    BY <1>4, Types DEF Write, Enqueue, disk
  <2>2. queue # <<>> /\ Head(queue) \in Persists /\ call[Head(queue)].pc = "waiting"
    BY <2>1, HeadRuns
  <2>3. Head(queue') = Head(queue)
    BY <1>4, <2>2, WriteEnters, LongerChain DEF Enqueue
  <2>4. \A t \in Slots : temporary.of[t] <= memory'[t]
    BY <2>1, Types DEF SnapshotInv, ClockInv
  <2>5. Covers(temporary.of, Head(queue))'
    <3>1. Covers(temporary.of, Head(queue))
      BY <2>1 DEF SnapshotInv
    <3> QED
      BY <1>4, <2>1, <2>2, <2>3, <3>1, WriteIsNewest DEF Covers
  <2> QED
    BY <2>1, <2>4, <2>5 DEF SnapshotInv
<1>5. CASE UNCHANGED vars
  BY <1>5 DEF SnapshotInv, Covers, Live, vars
<1> QED
  BY <1>1, <1>2, <1>3, <1>4, <1>5 DEF Next, Persisting

(* A step that neither replaces the file nor settles a call leaves what    *)
(* the resolved calls vouch for as it was.                                 *)
LEMMA ResolvedKept ==
  ASSUME FileInv, UNCHANGED file, phase' # "settle",
         \A d \in Persists : call'[d].pc = "resolved" => call[d].pc = "resolved",
         \A d, e \in Persists :
           call'[d].pc = "resolved" /\ Live(e)' /\ call'[e].stamp <= call'[d].stamp =>
             \/ Live(e) /\ call'[e].slot = call[e].slot /\ call'[e].stamp = call[e].stamp
                /\ call[e].stamp <= call[d].stamp
             \/ file.of[call'[e].slot] >= call'[e].stamp
  PROVE  FileInv'
  BY DEF FileInv, Covers

LEMMA FileStep == StoreInv /\ [Next]_vars => FileInv'
<1> SUFFICES ASSUME StoreInv, [Next]_vars PROVE FileInv'
  OBVIOUS
<1>0. TypeOK /\ ChainInv /\ OpeningInv /\ ClockInv /\ SnapshotInv /\ FileInv
  BY DEF StoreInv
<1> USE <1>0
<1>1. CASE BeginWrite \/ EndWrite
  <2>1. UNCHANGED <<file, call>> /\ phase' # "settle"
    BY <1>1 DEF BeginWrite, EndWrite
  <2> QED
    BY <2>1 DEF FileInv, Covers, Live
<1>2. CASE Rename
  <2>1. /\ phase = "rename" /\ file' = temporary /\ temporary.kind = "whole"
        /\ UNCHANGED <<queue, call>>
    BY <1>2 DEF Rename, SnapshotInv
  <2>2. Covers(file.of, Head(queue))'
    BY <2>1 DEF SnapshotInv, Covers, Live
  <2>3. \A d \in Persists : call[d].pc = "resolved" => Covers(file.of, d)'
    BY <2>1, Types DEF SnapshotInv, FileInv, Covers, Live
  <2> QED
    BY <2>1, <2>2, <2>3 DEF FileInv
<1>3. CASE Settle
  <2>1. phase = "settle" /\ phase' # "settle" /\ UNCHANGED file
    BY <1>3 DEF Settle, Dequeue, disk
  <2>2. \A d \in Persists :
          call'[d].pc = "resolved" => call[d].pc = "resolved" \/ d = Head(queue)
    BY <1>3, HeadLeaves
  <2>3. \A d \in Persists :
          call'[d].pc = "resolved" => file.kind = "whole" /\ Covers(file.of, d)
    BY <2>1, <2>2 DEF FileInv
  <2>4. \A d \in Persists : Covers(file.of, d) => Covers(file.of, d)'
    BY <1>3, <2>1, HeadKeepsChange DEF Covers
  <2> QED
    BY <2>1, <2>3, <2>4 DEF FileInv
<1>4. CASE Fail
  <2>1. phase' # "settle" /\ UNCHANGED file
    BY <1>4 DEF Fail, Dequeue, disk
  <2>2. \A d \in Persists : call'[d].pc = "resolved" => call[d].pc = "resolved"
    <3>1. call'[Head(queue)].pc # "resolved"
      BY <1>4, HeadLeaves, HeadRuns DEF Fail, TypeOK, Call
    <3> QED
      BY <1>4, <3>1, HeadLeaves
  <2> QED
    BY <1>4, <2>1, <2>2, HeadKeepsChange, ResolvedKept
<1>5. CASE Crash
  <2>1. phase' # "settle" /\ UNCHANGED file
    BY <1>5 DEF Crash, disk
  <2>2. \A d \in Persists : Live(d)' => Live(d) /\ call'[d] = call[d]
    BY <1>5, CrashEnds DEF Live
  <2>3. \A d \in Persists : call'[d].pc = "resolved" => call'[d] = call[d]
    BY <1>5, CrashEnds
  <2> QED
    BY <2>1, <2>2, <2>3, ResolvedKept
<1>6. ASSUME NEW c \in Calls, NEW s \in Slots, Write(c, s) PROVE FileInv'
  <2>1. UNCHANGED file /\ (phase' = phase \/ phase' = "mkdir")
    BY <1>6 DEF Write, Enqueue, disk
  <2>2. \A d \in Persists : call'[d].pc = "resolved" => call'[d] = call[d]
    BY <1>6, WriteEnters
  <2>3. \A d \in Persists : call[d].pc # "idle" /\ Covers(file.of, d) => Covers(file.of, d)'
    BY <1>6, <2>1, WriteIsNewest DEF Covers
  <2>4. phase = "settle" =>
          /\ Head(queue) \in Persists /\ call[Head(queue)].pc = "waiting"
          /\ Head(queue') = Head(queue)
    BY <1>6, HeadRuns, WriteEnters, LongerChain DEF Enqueue
  <2>5. phase' = "settle" => file'.kind = "whole" /\ Covers(file.of, Head(queue))'
    <3> SUFFICES ASSUME phase = "settle"
                 PROVE  file'.kind = "whole" /\ Covers(file.of, Head(queue))'
      BY <2>1
    <3>1. file.kind = "whole" /\ Covers(file.of, Head(queue))
      BY DEF FileInv
    <3> QED
      BY <1>6, <2>1, <2>4, <3>1, WriteIsNewest DEF Covers
  <2>6. \A d \in Persists :
          call'[d].pc = "resolved" => file'.kind = "whole" /\ Covers(file.of, d)'
    BY <2>1, <2>2, <2>3 DEF FileInv
  <2> QED
    BY <2>5, <2>6 DEF FileInv
<1>7. CASE Open(TRUE)
  <2>1. UNCHANGED file /\ phase' # "settle"
    BY <1>7, OpenEnters DEF Open, Enqueue, disk
  <2>2. \A d \in Persists : d # Opener => call'[d] = call[d]
    BY <1>7, OpenEnters
  <2>3. call'[Opener].pc = "waiting"
    BY <1>7, OpenEnters
  <2>4. file.kind = "whole" => file.of[call'[Opener].slot] >= call'[Opener].stamp
    <3>1. Identity \in Slots
      BY StoreAssumption DEF StoreAssumption
    <3>2. file.kind = "whole" => memory' = file.of
      BY <1>7, ReadStamps
    <3> QED
      BY <1>7, <3>1, <3>2, OpenEnters, Types
  <2>5. \A d \in Persists : call'[d].pc = "resolved" =>
          call[d].pc = "resolved" /\ call'[d] = call[d] /\ file.kind = "whole"
    BY <2>2, <2>3 DEF FileInv
  <2>6. \A e \in Persists : Live(e)' => e = Opener \/ (Live(e) /\ call'[e] = call[e])
    <3> SUFFICES ASSUME NEW e \in Persists, Live(e)', e # Opener
                 PROVE  Live(e) /\ call'[e] = call[e]
      OBVIOUS
    <3>1. call'[e] = call[e]
      BY <2>2
    <3> QED
      BY <3>1 DEF Live
  <2> QED
    BY <2>1, <2>4, <2>5, <2>6, ResolvedKept
<1>8. CASE Open(FALSE)
  <2>1. UNCHANGED <<file, call, phase, queue>>
    BY <1>8 DEF Open, disk
  <2> QED
    BY <2>1 DEF FileInv, Covers, Live
<1>9. CASE UNCHANGED vars
  BY <1>9 DEF FileInv, Covers, Live, vars
<1> QED
  BY <1>1, <1>2, <1>3, <1>4, <1>5, <1>6, <1>7, <1>8, <1>9 DEF Next, Persisting

LEMMA PromisedStep == StoreInv /\ [Next]_vars => PromisedSurvives'
<1> SUFFICES ASSUME StoreInv, [Next]_vars PROVE PromisedSurvives'
  OBVIOUS
<1>0. TypeOK /\ ChainInv /\ SnapshotInv /\ FileInv /\ PromisedSurvives
  BY DEF StoreInv
<1> USE <1>0
<1>1. CASE Rename
  <2>1. phase = "rename" /\ file' = temporary /\ promised' = promised
    BY <1>1 DEF Rename
  <2> QED
    BY <2>1, Types DEF SnapshotInv, PromisedSurvives
<1>2. CASE Settle
  <2> DEFINE c == Head(queue)
  <2>1. c \in Persists /\ call[c].pc = "waiting" /\ UNCHANGED file
    BY <1>2, HeadRuns DEF Settle, disk
  <2>2. file.kind = "whole" /\ file.of[call[c].slot] >= call[c].stamp
    BY <1>2, <2>1, Types DEF Settle, FileInv, Covers, Live
  <2>3. \A s \in Slots : /\ s # call[c].slot => promised'[s] = promised[s]
                         /\ promised'[s] \in {promised[s], call[c].stamp}
    BY <1>2, Types DEF Settle
  <2> QED
    BY <2>1, <2>2, <2>3, Types DEF PromisedSurvives
<1>3. CASE BeginWrite \/ EndWrite \/ Fail \/ Crash \/ (\E b \in BOOLEAN : Open(b))
  BY <1>3 DEF PromisedSurvives, BeginWrite, EndWrite, Fail, Crash, Open, disk
<1>4. CASE \E c \in Calls, s \in Slots : Write(c, s)
  BY <1>4 DEF PromisedSurvives, Write, disk
<1>5. CASE UNCHANGED vars
  BY <1>5 DEF PromisedSurvives, vars
<1> QED
  BY <1>1, <1>2, <1>3, <1>4, <1>5 DEF Next, Persisting

-----------------------------------------------------------------------------
(* The theorems.                                                           *)

LEMMA InitInv == Init => StoreInv
<1> SUFFICES ASSUME Init PROVE StoreInv
  OBVIOUS
<1>1. TypeOK
  BY InitType
<1>2. \A c \in Persists : call[c].pc = "idle" /\ call[c].stamp = 0
  BY DEF Init
<1>3. ChainInv /\ OpeningInv
  BY <1>2, PersistsAre DEF Init, ChainInv, OpeningInv
<1>4. ClockInv
  BY <1>2 DEF Init, ClockInv, Blank, Nothing
<1>5. MemoryInv /\ SnapshotInv
  BY DEF Init, MemoryInv, SnapshotInv
<1>6. FileInv
  BY <1>2 DEF Init, FileInv
<1>7. PromisedSurvives
  BY DEF Init, PromisedSurvives, Nothing, Blank
<1> QED
  BY <1>1, <1>3, <1>4, <1>5, <1>6, <1>7 DEF StoreInv

LEMMA InvStep == StoreInv /\ [Next]_vars => StoreInv'
  BY TypeStep, ChainStep, OpeningStep, ClockStep, MemoryStep, SnapshotStep,
     FileStep, PromisedStep
  DEF StoreInv

(* The invariant that all others rest on: the snapshot under way lies      *)
(* between the file and memory, and covers the call it is written for.     *)
THEOREM StoreInvariant == Spec => []StoreInv
  BY InitInv, InvStep, PTL DEF Spec

(* Every variable keeps its type, whatever fails and whenever the process  *)
(* is killed.                                                              *)
THEOREM TypeCorrect == Spec => []TypeOK
<1>1. StoreInv => TypeOK
  BY DEF StoreInv
<1> QED
  BY <1>1, StoreInvariant, PTL

(* What a setter has resolved for stays in the state file, which is never  *)
(* torn.                                                                   *)
THEOREM PromisesKept == Spec => []PromisedSurvives
<1>1. StoreInv => PromisedSurvives
  BY DEF StoreInv
<1> QED
  BY <1>1, StoreInvariant, PTL

(* A setter that resolves vouches for all changes before its own, those of *)
(* rejected setters included.                                              *)
THEOREM EarlierChangesCovered == Spec => []ResolvedCoversEarlier
<1>1. StoreInv => ResolvedCoversEarlier
  BY DEF StoreInv, FileInv, Covers, ResolvedCoversEarlier
<1> QED
  BY <1>1, StoreInvariant, PTL

-----------------------------------------------------------------------------
(* The refinement of StableStore.                                          *)

LEMMA StableInit == Init => Stable!Init
  BY DEF Init, Stable!Init, Stable!Blank, Stable!Nothing, Blank, Nothing

LEMMA StableOpen ==
  ASSUME StoreInv, NEW b \in BOOLEAN, Open(b)
  PROVE  Stable!Start
<1>1. TypeOK /\ ChainInv /\ OpeningInv /\ ClockInv
  BY DEF StoreInv
<1>2. /\ repository = "closed" /\ repository' # "closed" /\ UNCHANGED <<file, promised>>
      /\ queue = <<>>
  BY <1>1 DEF Open, OpeningInv, disk
<1>3. phase \notin {"write", "rename"} /\ phase' \notin {"write", "rename"}
  BY <1>1, <1>2 DEF Open, Enqueue, ChainInv
<1>4. \/ file.kind = "whole" /\ memory' = file.of
      \/ file.kind = "none" /\ memory' \in Contents
  BY <1>1, OpenType, ReadStamps DEF Open, TypeOK
<1> QED
  BY <1>2, <1>3, <1>4
  DEF Stable!Start, Stable!Contents, Contents

LEMMA StableWrite ==
  ASSUME StoreInv, NEW c \in Calls, NEW s \in Slots, Write(c, s)
  PROVE  Stable!Change(s)
<1>1. TypeOK /\ ChainInv /\ ClockInv
  BY DEF StoreInv
<1>2. /\ repository = "open" /\ UNCHANGED <<repository, file, temporary, promised>>
      /\ memory' = [memory EXCEPT ![s] = clock + 1]
  BY DEF Write, disk
<1>3. memory'[s] = clock + 1 /\ memory'[s] > memory[s]
  BY <1>1, <1>2, Types DEF ClockInv
<1>4. phase \in {"write", "rename"} <=> phase' \in {"write", "rename"}
  BY <1>1 DEF Write, Enqueue, ChainInv
<1> QED
  BY <1>2, <1>3, <1>4 DEF Stable!Change

LEMMA StableSettle ==
  ASSUME StoreInv, Settle
  PROVE  Stable!Vouch(call[Head(queue)].slot) /\ call[Head(queue)].slot \in Slots
<1> DEFINE c == Head(queue)
           v == IF promised[call[c].slot] < call[c].stamp
                  THEN call[c].stamp ELSE promised[call[c].slot]
<1>1. TypeOK /\ ChainInv /\ OpeningInv /\ FileInv /\ PromisedSurvives
  BY DEF StoreInv
<1>2. c \in Persists /\ call[c].pc = "waiting" /\ call[c].slot \in Slots
  BY <1>1, HeadRuns, Types DEF Settle
<1>3. file.kind = "whole" /\ file.of[call[c].slot] >= call[c].stamp
  BY <1>1, <1>2, Types DEF Settle, FileInv, Covers, Live
<1>4. v \in 0 .. file.of[call[c].slot] /\ v >= promised[call[c].slot]
  BY <1>1, <1>2, <1>3, Types DEF PromisedSurvives
<1>5. promised' = [promised EXCEPT ![call[c].slot] = v]
  BY <1>1, <1>2, Types DEF Settle
<1>6. repository # "closed" /\ repository' # "closed" /\ UNCHANGED <<memory, file>>
  BY <1>1, HeadRuns DEF Settle, OpeningInv, disk
<1>7. phase \notin {"write", "rename"} /\ phase' \notin {"write", "rename"}
  BY DEF Settle, Dequeue
<1> HIDE DEF v
<1> QED
  BY <1>2, <1>3, <1>4, <1>5, <1>6, <1>7 DEF Stable!Vouch

LEMMA StableFail == ASSUME StoreInv, Fail PROVE Stable!GiveUp \/ Stable!Stop
<1>1. phase' \notin {"write", "rename"} /\ UNCHANGED <<file, promised>>
  BY DEF Fail, Dequeue, disk
<1>2. \/ repository = "open" /\ UNCHANGED <<repository, memory>>
      \/ repository' = "closed" /\ memory' = Blank
  BY DEF Fail
<1> QED
  BY <1>1, <1>2
  DEF Stable!GiveUp, Stable!Stop, Stable!Nothing, Stable!Blank, Blank

LEMMA StableStep == StoreInv /\ [Next]_vars => [Stable!Next]_(Stable!vars)
<1> SUFFICES ASSUME StoreInv, [Next]_vars PROVE [Stable!Next]_(Stable!vars)
  OBVIOUS
<1>0. TypeOK /\ ChainInv /\ OpeningInv /\ SnapshotInv
  BY DEF StoreInv
<1>1. CASE BeginWrite
  <2>1. repository # "closed"
    BY <1>0, <1>1, HeadRuns DEF BeginWrite, OpeningInv
  <2>2. Stable!Snapshot
    BY <1>1, <2>1 DEF BeginWrite, Snapshot, Stable!Snapshot
  <2> QED
    BY <2>2 DEF Stable!Next
<1>2. CASE EndWrite
  <2>1. temporary'.of = temporary.of /\ phase = "write" /\ phase' = "rename"
    BY <1>0, <1>2 DEF EndWrite, TypeOK, Disk
  <2> QED
    BY <1>2, <2>1 DEF EndWrite, Stable!vars
<1>3. CASE Rename
  <2>1. temporary.kind = "whole" /\ temporary \in Disk /\ phase = "rename"
    BY <1>0, <1>3 DEF Rename, SnapshotInv, TypeOK
  <2>2. temporary = [kind |-> "whole", of |-> temporary.of]
    BY <2>1 DEF Disk
  <2>3. Stable!Commit
    BY <1>3, <2>1, <2>2
    DEF Rename, Stable!Commit, Stable!Nothing, Stable!Blank, Blank
  <2> QED
    BY <2>3 DEF Stable!Next
<1>4. CASE Settle
  BY <1>4, StableSettle DEF Stable!Next
<1>5. CASE Fail
  BY <1>5, StableFail DEF Stable!Next
<1>6. CASE Crash
  <2>1. Stable!Stop
    BY <1>6 DEF Crash, disk, Stable!Stop, Stable!Nothing, Stable!Blank, Blank
  <2> QED
    BY <2>1 DEF Stable!Next
<1>7. CASE \E b \in BOOLEAN : Open(b)
  BY <1>7, StableOpen DEF Stable!Next
<1>8. CASE \E c \in Calls, s \in Slots : Write(c, s)
  BY <1>8, StableWrite DEF Stable!Next
<1>9. CASE UNCHANGED vars
  BY <1>9 DEF vars, Stable!vars
<1> QED
  BY <1>1, <1>2, <1>3, <1>4, <1>5, <1>6, <1>7, <1>8, <1>9 DEF Next, Persisting

(* The state file is replaced as a whole and only by what memory once was, *)
(* and nothing is promised that is not on it.                              *)
THEOREM StableRefinement == Spec => ImplementsStableStore
  BY StableInit, StableStep, StoreInvariant, PTL
  DEF Spec, ImplementsStableStore, Stable!Spec

-----------------------------------------------------------------------------
(* The safety half of WritesLandAfterFailures.                             *)

(* Every call that waits is in the chain.                                  *)
Listed ==
  \A c \in Persists : call[c].pc = "waiting" => \E i \in 1 .. Len(queue) : queue[i] = c

(* The file operations before the persist at a place of the chain is over, *)
(* its own included, when the head is at this phase.                       *)
PhaseLeft(p) == CASE p = "mkdir" -> 4 [] p = "write" -> 3 [] p = "rename" -> 2 [] OTHER -> 1
Before(i, p) == 4 * (i - 1) + PhaseLeft(p)

(* Who waits on at a place waits on at the same or at an earlier one, and  *)
(* at an earlier point of its head's work if that work is what has moved.  *)
GetsOn(i) ==
  call'[queue[i]].pc = "waiting" =>
    \E j \in 1 .. Len(queue') :
      /\ queue'[j] = queue[i]
      /\ Before(j, phase') <= Before(i, phase)
      /\ Persisting \/ Fail => Before(j, phase') < Before(i, phase)

LEMMA BeforeIsNumber ==
  ASSUME NEW i \in Nat, NEW p, i > 0
  PROVE  Before(i, p) \in Nat /\ PhaseLeft(p) \in 1 .. 4
BY DEF Before, PhaseLeft

(* One place is worth more than a whole persist.                           *)
LEMMA OnePlaceOn ==
  ASSUME NEW i \in Nat, NEW p \in 1 .. 4, NEW q \in 1 .. 4
  PROVE  /\ 4 * (i - 1 - 1) + q < 4 * (i - 1) + p
         /\ 4 * (i - 1 - 1) + q <= 4 * (i - 1) + p
OBVIOUS

LEMMA EnterGetsOn ==
  ASSUME TypeOK, ChainInv, Listed, NEW c \in Persists, Enqueue(c), ~Persisting, ~Fail,
         \A d \in Persists : d # c => call'[d] = call[d]
  PROVE  Listed' /\ \A i \in 1 .. Len(queue) : GetsOn(i)
<1>1. /\ Len(queue) \in Nat /\ Len(queue') = Len(queue) + 1
      /\ \A i \in 1 .. Len(queue) : queue'[i] = queue[i] /\ i \in 1 .. Len(queue')
      /\ queue'[Len(queue) + 1] = c /\ Len(queue) + 1 \in 1 .. Len(queue')
  BY LongerChain DEF Enqueue
<1>2. Listed'
  BY <1>1 DEF Listed
<1>3. queue # <<>> => phase' = phase
  BY DEF Enqueue
<1>4. ASSUME NEW i \in 1 .. Len(queue) PROVE GetsOn(i)
  <2>1. phase' = phase
    BY <1>1, <1>3
  <2> QED
    BY <1>1, <2>1, BeforeIsNumber DEF GetsOn
<1> QED
  BY <1>2, <1>4

LEMMA LeaveGetsOn ==
  ASSUME TypeOK, ChainInv, Listed, Settle \/ Fail
  PROVE  Listed' /\ \A i \in 1 .. Len(queue) : GetsOn(i)
<1>1. /\ phase # "idle" /\ Dequeue /\ queue # <<>> /\ Head(queue) \in Persists
      /\ \A d \in Persists : d # Head(queue) => call'[d] = call[d]
  BY HeadLeaves, HeadRuns
<1>2. call'[Head(queue)].pc # "waiting"
  BY <1>1 DEF Settle, Fail, TypeOK, Call
<1>3. /\ Len(queue) \in Nat /\ Len(queue') = Len(queue) - 1 /\ Head(queue) = queue[1]
      /\ \A i \in 1 .. Len(queue') : queue'[i] = queue[i + 1]
  BY <1>1, HeadOfChain DEF Dequeue
<1>4. ASSUME NEW i \in 1 .. Len(queue), queue[i] # Head(queue)
      PROVE  i - 1 \in 1 .. Len(queue') /\ queue'[i - 1] = queue[i]
  BY <1>3, <1>4
<1>5. Listed'
  <2> SUFFICES ASSUME NEW c \in Persists, call'[c].pc = "waiting"
               PROVE  \E i \in 1 .. Len(queue') : queue'[i] = c
    BY DEF Listed
  <2>1. PICK i \in 1 .. Len(queue) : queue[i] = c
    BY <1>1, <1>2 DEF Listed
  <2> QED
    BY <1>2, <1>4, <2>1
<1>6. ASSUME NEW i \in 1 .. Len(queue), call'[queue[i]].pc = "waiting"
      PROVE  GetsOn(i)
  <2>1. i - 1 \in 1 .. Len(queue') /\ queue'[i - 1] = queue[i]
    BY <1>2, <1>4, <1>6
  <2>2. /\ PhaseLeft(phase') \in 1 .. 4 /\ PhaseLeft(phase) \in 1 .. 4
        /\ i \in Nat
    BY <1>3 DEF PhaseLeft
  <2>3. /\ Before(i - 1, phase') < Before(i, phase)
        /\ Before(i - 1, phase') <= Before(i, phase)
    BY <2>2, OnePlaceOn DEF Before
  <2> QED
    BY <2>1, <2>3 DEF GetsOn
<1> QED
  BY <1>5, <1>6 DEF GetsOn

LEMMA ChainGetsOn ==
  ASSUME StoreInv, Listed, [Next]_vars
  PROVE  Listed' /\ \A i \in 1 .. Len(queue) : GetsOn(i)
<1> USE DEF StoreInv
<1>1. \A i \in 1 .. Len(queue) : i \in Nat /\ i > 0
  BY DEF TypeOK
<1>2. CASE BeginWrite \/ EndWrite \/ Rename
  <2>1. UNCHANGED <<queue, call>>
    BY <1>2 DEF BeginWrite, EndWrite, Rename
  <2>2. PhaseLeft(phase') < PhaseLeft(phase)
    BY <1>2 DEF BeginWrite, EndWrite, Rename, PhaseLeft
  <2>3. \A i \in 1 .. Len(queue) : Before(i, phase') < Before(i, phase)
    <3>1. PhaseLeft(phase') \in Nat /\ PhaseLeft(phase) \in Nat
      BY DEF PhaseLeft
    <3> QED
      BY <1>1, <2>2, <3>1 DEF Before
  <2>4. \A i \in 1 .. Len(queue) : Before(i, phase') <= Before(i, phase)
    <3>1. PhaseLeft(phase') \in Nat /\ PhaseLeft(phase) \in Nat
      BY DEF PhaseLeft
    <3> QED
      BY <1>1, <2>2, <3>1 DEF Before
  <2> QED
    BY <2>1, <2>3, <2>4 DEF Listed, GetsOn
<1>3. CASE Settle \/ Fail
  BY <1>3, LeaveGetsOn
<1>4. CASE Crash
  <2>1. \A d \in Persists : call'[d].pc # "waiting"
    BY <1>4, CrashEnds
  <2> QED
    BY <2>1 DEF Listed, GetsOn, TypeOK
<1>5. ASSUME NEW c \in Calls, NEW s \in Slots, Write(c, s)
      PROVE  Listed' /\ \A i \in 1 .. Len(queue) : GetsOn(i)
  <2>1. ~Persisting /\ ~Fail
    <3>1. clock' = clock + 1 /\ clock \in Nat
      BY <1>5 DEF Write, TypeOK
    <3> QED
      BY <3>1 DEF Persisting, BeginWrite, EndWrite, Rename, Settle, Fail
  <2> QED
    BY <1>5, <2>1, WriteEnters, EnterGetsOn
<1>6. CASE Open(TRUE)
  <2>1. ~Persisting /\ ~Fail
    <3>1. queue = <<>> /\ phase = "idle"
      BY <1>6, OpenEnters DEF ChainInv
    <3> QED
      BY <3>1 DEF Persisting, BeginWrite, EndWrite, Rename, Settle, Fail
  <2> QED
    BY <1>6, <2>1, OpenEnters, EnterGetsOn, PersistsAre
<1>7. CASE Open(FALSE)
  <2>1. queue = <<>> /\ UNCHANGED <<queue, call>>
    BY <1>7, OpenQuietly DEF OpeningInv
  <2> QED
    BY <2>1 DEF Listed
<1>8. CASE UNCHANGED vars
  <2>1. UNCHANGED <<queue, call, phase>> /\ ~Persisting /\ ~Fail
    <3>1. UNCHANGED <<queue, call, phase, faults>>
      BY <1>8 DEF vars
    <3> QED
      BY <3>1 DEF Persisting, BeginWrite, EndWrite, Rename, Settle, Dequeue, Fail, TypeOK
  <2> QED
    BY <1>1, <2>1, BeforeIsNumber DEF Listed, GetsOn
<1> QED
  BY <1>2, <1>3, <1>4, <1>5, <1>6, <1>7, <1>8 DEF Next, Persisting

(* The provable half of WritesLandAfterFailures: a setter that waits is in *)
(* the chain, whose head is at work; each file operation, whether it       *)
(* succeeds or not, brings every setter that waits on nearer to its end,   *)
(* and no later setter holds it up (persist, pendingPersist).              *)
THEOREM EveryPersistGetsOn ==
  Spec => /\ [](\A c \in Persists : call[c].pc = "waiting" =>
                  phase # "idle" /\ \E i \in 1 .. Len(queue) : queue[i] = c)
          /\ [][\A i \in 1 .. Len(queue) : GetsOn(i)]_vars
<1>1. Init => Listed
  BY DEF Init, Listed
<1>2. StoreInv /\ Listed /\ [Next]_vars
      => Listed' /\ [\A i \in 1 .. Len(queue) : GetsOn(i)]_vars
  BY ChainGetsOn
<1>3. StoreInv /\ Listed =>
        \A c \in Persists : call[c].pc = "waiting" =>
          phase # "idle" /\ \E i \in 1 .. Len(queue) : queue[i] = c
  BY DEF StoreInv, TypeOK, ChainInv, Listed
<1> QED
  BY <1>1, <1>2, <1>3, StoreInvariant, PTL DEF Spec
=============================================================================
