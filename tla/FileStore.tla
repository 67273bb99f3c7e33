---------------------------- MODULE FileStore ----------------------------
(* FileSignalRepository (src/src/file-store.ts): every setter changes the  *)
(* maps in memory at once and then awaits persist(), which waits for the   *)
(* persists before it, makes the directory, takes a snapshot of memory,    *)
(* writes it to a temporary file and renames that over the state file.     *)
(* Any of the three steps may fail and the process may be killed between   *)
(* them.  There is one repository on the file; what a file that has been   *)
(* renamed but not synced holds after a power failure is not modelled.     *)
(*                                                                         *)
(* Contents are abstracted to stamps: clock counts the changes ever made   *)
(* and a slot holds the number of the change that made it what it is.      *)
EXTENDS Naturals, Sequences

CONSTANTS
  Slots,       \* the records that setters replace or delete
  Identity,    \* the slot that a new store draws at random
  Calls,       \* the calls of setters the host may make, each once
  Opener,      \* the persist() of open() with initial data
  MaxChanges,  \* bound: changes, fresh identities included
  MaxFaults,   \* bound: failing steps of persists
  MaxCrashes,  \* bound: crashes
  MaxTrouble   \* bound: both together

ASSUME StoreAssumption ==
  /\ Identity \in Slots
  /\ Opener \notin Calls
  /\ MaxChanges \in Nat /\ MaxFaults \in Nat /\ MaxCrashes \in Nat
  /\ MaxTrouble \in Nat

VARIABLES
  repository,  \* "closed", "opening" (its first persist) or "open"
  memory,      \* the maps, the account and the identity
  file,        \* the state file
  temporary,   \* the temporary file: torn until writeFile has ended
  queue,       \* the pendingPersist chain: calls whose persist is not over
  phase,       \* what the persist at the head awaits
  call,        \* the calls of setters and of open()
  clock,       \* changes so far
  promised,    \* the newest stamp of each slot that a call resolved for
  faults,      \* failed steps so far
  crashes      \* crashes so far

disk == <<file, temporary>>
bounds == <<faults, crashes>>
vars == <<repository, memory, file, temporary, queue, phase, call, clock,
          promised, faults, crashes>>

Persists == Calls \cup {Opener}
Contents == [Slots -> Nat]
Blank == [s \in Slots |-> 0]
Disk == [kind : {"none", "torn", "whole"}, of : Contents]
Nothing == [kind |-> "none", of |-> Blank]
Call == [pc : {"idle", "waiting", "resolved", "rejected", "dead"},
         slot : Slots, stamp : Nat]

Init ==
  /\ repository = "closed"
  /\ memory = Blank
  /\ file = Nothing
  /\ temporary = Nothing
  /\ queue = <<>>
  /\ phase = "idle"
  /\ call = [c \in Persists |-> [pc |-> "idle", slot |-> Identity, stamp |-> 0]]
  /\ clock = 0
  /\ promised = Blank
  /\ faults = 0
  /\ crashes = 0

-----------------------------------------------------------------------------
(* The persist chain                                                       *)

Enqueue(c) ==
  /\ queue' = Append(queue, c)
  /\ phase' = IF queue = <<>> THEN "mkdir" ELSE phase

Dequeue ==
  /\ queue' = Tail(queue)
  /\ phase' = IF Tail(queue) = <<>> THEN "idle" ELSE "mkdir"

(* snapshot(): what a persist writes is memory as it is now.               *)
Snapshot == [kind |-> "torn", of |-> memory]

(* Seeded fault: the state file is written in place.                       *)
BeginWriteInPlace ==
  /\ phase = "mkdir"
  /\ temporary' = Snapshot
  /\ file' = Snapshot
  /\ phase' = "write"
  /\ UNCHANGED <<repository, memory, queue, call, clock, promised, bounds>>

(* Seeded fault: pendingPersist keeps the rejection, so every later persist*)
(* rejects without trying.                                                 *)
BeginWritePoisoned ==
  /\ phase = "mkdir"
  /\ IF \E c \in Calls : call[c].pc = "rejected"
       THEN /\ call' = [call EXCEPT ![Head(queue)].pc = "rejected"]
            /\ Dequeue
            /\ UNCHANGED temporary
       ELSE /\ temporary' = Snapshot
            /\ phase' = "write"
            /\ UNCHANGED <<queue, call>>
  /\ UNCHANGED <<repository, memory, file, clock, promised, bounds>>

(* The directory is there; the snapshot is taken now, with whatever later  *)
(* setters have changed, and writeFile starts to replace the old temporary *)
(* file.                                                                   *)
BeginWrite ==
  /\ phase = "mkdir"
  /\ temporary' = Snapshot
  /\ phase' = "write"
  /\ UNCHANGED <<repository, memory, file, queue, call, clock, promised, bounds>>

EndWrite ==
  /\ phase = "write"
  /\ temporary' = [temporary EXCEPT !.kind = "whole"]
  /\ phase' = "rename"
  /\ UNCHANGED <<repository, memory, file, queue, call, clock, promised, bounds>>

Rename ==
  /\ phase = "rename"
  /\ file' = temporary
  /\ temporary' = Nothing
  /\ phase' = "settle"
  /\ UNCHANGED <<repository, memory, queue, call, clock, promised, bounds>>

(* Seeded fault: one persist settles every setter that waits.              *)
SettleAll ==
  /\ phase = "settle"
  /\ call' = [c \in Persists |-> IF call[c].pc = "waiting"
                THEN [call[c] EXCEPT !.pc = "resolved"] ELSE call[c]]
  /\ repository' = "open"
  /\ queue' = <<>>
  /\ phase' = "idle"
  /\ UNCHANGED <<memory, disk, clock, promised, bounds>>

(* The setter (or open) at the head resolves; the next persist begins.     *)
Settle ==
  LET c == Head(queue) IN
  /\ phase = "settle"
  /\ call' = [call EXCEPT ![c].pc = "resolved"]
  /\ promised' = [promised EXCEPT ![call[c].slot] =
                    IF @ < call[c].stamp THEN call[c].stamp ELSE @]
  /\ repository' = "open"
  /\ Dequeue
  /\ UNCHANGED <<memory, disk, clock, bounds>>

(* A step fails: the setter rejects, memory keeps the change and the chain *)
(* goes on.  When it is open() that fails the repository is dropped.       *)
Fail ==
  LET c == Head(queue) IN
  /\ phase \in {"mkdir", "write", "rename"}
  /\ faults < MaxFaults /\ faults + crashes < MaxTrouble
  /\ faults' = faults + 1
  /\ Dequeue
  /\ \/ /\ repository = "open"
        /\ call' = [call EXCEPT ![c].pc = "rejected"]
        /\ UNCHANGED <<repository, memory>>
     \/ /\ repository = "opening"
        /\ call' = [call EXCEPT ![c].pc = "dead"]
        /\ repository' = "closed"
        /\ memory' = Blank
  /\ UNCHANGED <<disk, clock, promised, crashes>>

-----------------------------------------------------------------------------
(* The host                                                                *)

(* createInitialStoreData: a random identity and nothing else.             *)
Initial(stamp) == [Blank EXCEPT ![Identity] = stamp]

(* Seeded fault: initial data wins over the file.                          *)
OpenAfresh(initialData) ==
  /\ repository = "closed"
  /\ initialData
  /\ clock < MaxChanges
  /\ memory' = Initial(clock + 1)
  /\ clock' = clock + 1
  /\ repository' = "opening"
  /\ call' = [call EXCEPT ![Opener] =
       [pc |-> "waiting", slot |-> Identity, stamp |-> clock + 1]]
  /\ Enqueue(Opener)
  /\ UNCHANGED <<disk, promised, bounds>>

(* readStoreFile and the constructor: the state file, or new data when     *)
(* there is none; open() rejects a file that does not parse.               *)
ReadStoreFile ==
  \/ /\ file.kind = "whole"
     /\ memory' = file.of
     /\ UNCHANGED clock
  \/ /\ file.kind = "none"
     /\ clock < MaxChanges
     /\ memory' = Initial(clock + 1)
     /\ clock' = clock + 1

(* open(): what it has read is persisted at once only when the caller      *)
(* gives initial data, which a file that is there outranks.                *)
Open(initialData) ==
  /\ repository = "closed"
  /\ ReadStoreFile
  /\ \/ /\ initialData
        /\ repository' = "opening"
        /\ call' = [call EXCEPT ![Opener] =
             [pc |-> "waiting", slot |-> Identity, stamp |-> memory'[Identity]]]
        /\ Enqueue(Opener)
     \/ /\ ~initialData
        /\ repository' = "open"
        /\ UNCHANGED <<queue, phase, call>>
  /\ UNCHANGED <<disk, promised, bounds>>

(* A setter or deleter: memory first, then persist().                      *)
Write(c, s) ==
  /\ repository = "open"
  /\ call[c].pc = "idle"
  /\ clock < MaxChanges
  /\ clock' = clock + 1
  /\ memory' = [memory EXCEPT ![s] = clock + 1]
  /\ call' = [call EXCEPT ![c] =
       [pc |-> "waiting", slot |-> s, stamp |-> clock + 1]]
  /\ Enqueue(c)
  /\ UNCHANGED <<repository, disk, promised, bounds>>

(* The process is killed; the files stay as they are.                      *)
Crash ==
  /\ repository # "closed"
  /\ crashes < MaxCrashes /\ faults + crashes < MaxTrouble
  /\ crashes' = crashes + 1
  /\ repository' = "closed"
  /\ memory' = Blank
  /\ queue' = <<>>
  /\ phase' = "idle"
  /\ call' = [c \in Persists |->
       IF call[c].pc \in {"waiting", "rejected"}
         THEN [call[c] EXCEPT !.pc = "dead"] ELSE call[c]]
  /\ UNCHANGED <<disk, clock, promised, faults>>

Persisting == BeginWrite \/ EndWrite \/ Rename \/ Settle

Next ==
  \/ \E initialData \in BOOLEAN : Open(initialData)
  \/ \E c \in Calls, s \in Slots : Write(c, s)
  \/ Persisting
  \/ Fail
  \/ Crash

Spec == Init /\ [][Next]_vars

(* File operations end, one way or the other.                              *)
FairSpec == Spec /\ WF_vars(Persisting)

-----------------------------------------------------------------------------
(* Properties                                                              *)

TypeOK ==
  /\ repository \in {"closed", "opening", "open"}
  /\ memory \in Contents
  /\ file \in Disk
  /\ temporary \in Disk
  /\ queue \in Seq(Persists)
  /\ phase \in {"idle", "mkdir", "write", "rename", "settle"}
  /\ call \in [Persists -> Call]
  /\ clock \in Nat
  /\ promised \in Contents
  /\ faults \in Nat /\ crashes \in Nat

(* What a setter has resolved for is in the state file, then and after any *)
(* number of crashes and failing writes, until a later change replaces it; *)
(* the file is never torn (persist: temporary file and rename).            *)
PromisedSurvives ==
  /\ file.kind # "torn"
  /\ \A s \in Slots :
       promised[s] > 0 => file.kind = "whole" /\ file.of[s] >= promised[s]

(* A setter that resolves vouches for every change made before its own,    *)
(* also for those whose own setter rejected: a failed persist leaves its   *)
(* change in memory and the next snapshot takes it along.                  *)
Live(c) == call[c].pc \in {"waiting", "rejected", "resolved"}

ResolvedCoversEarlier ==
  \A c, d \in Persists :
    Live(c) /\ call[d].pc = "resolved" /\ call[c].stamp <= call[d].stamp
      => file.kind = "whole" /\ file.of[call[c].slot] >= call[c].stamp

(* One failing persist does not spoil those queued behind it or made       *)
(* later: when nothing fails any more every setter resolves (the catch on  *)
(* pendingPersist).                                                        *)
NoMoreFaults == faults = MaxFaults \/ faults + crashes = MaxTrouble

WritesLandAfterFailures ==
  \A c \in Persists :
    (call[c].pc = "waiting" /\ NoMoreFaults)
      ~> call[c].pc \in {"resolved", "dead"}

(* The abstract promise: a snapshot is under way while one is being        *)
(* written, whatever the files are called.                                 *)
Stable == INSTANCE StableStore WITH
  up      <- repository # "closed",
  current <- memory,
  image   <- IF phase \in {"write", "rename"}
               THEN [kind |-> "whole", of |-> temporary.of]
               ELSE [kind |-> "none", of |-> Blank],
  stored  <- file

ImplementsStableStore == Stable!Spec

=============================================================================
