--------------------------- MODULE StableStore ---------------------------
(* What a FileSignalRepository promises its host: a store whose contents   *)
(* live in memory, are replaced on disk only as a whole, by a snapshot of  *)
(* what was in memory at one moment, and that keeps what it has promised   *)
(* across restarts.  How a snapshot gets to the disk is left open.         *)
(* Contents give each slot the stamp of the change it holds, 0 for none.   *)
EXTENDS Naturals

CONSTANT Slots

VARIABLES
  up,        \* is a repository open
  current,   \* the contents in memory
  image,     \* the snapshot on its way to the disk
  stored,    \* the contents on disk
  promised   \* the newest stamp of each slot that a call has vouched for

vars == <<up, current, image, stored, promised>>

Contents == [Slots -> Nat]
Blank == [s \in Slots |-> 0]
Disk == [kind : {"none", "whole"}, of : Contents]
Nothing == [kind |-> "none", of |-> Blank]

Init ==
  /\ up = FALSE
  /\ current = Blank
  /\ image = Nothing
  /\ stored = Nothing
  /\ promised = Blank

(* A start finds what is stored, or draws new contents when nothing is.    *)
Start ==
  /\ ~up
  /\ up' = TRUE
  /\ \/ stored.kind = "whole" /\ current' = stored.of
     \/ stored.kind = "none" /\ current' \in Contents
  /\ UNCHANGED <<image, stored, promised>>

Change(s) ==
  /\ up
  /\ current' = [current EXCEPT ![s] = current'[s]]
  /\ current'[s] > current[s]
  /\ UNCHANGED <<up, image, stored, promised>>

Snapshot ==
  /\ up
  /\ image' = [kind |-> "whole", of |-> current]
  /\ UNCHANGED <<up, current, stored, promised>>

Commit ==
  /\ image.kind = "whole"
  /\ stored' = image
  /\ image' = Nothing
  /\ UNCHANGED <<up, current, promised>>

GiveUp ==
  /\ image' = Nothing
  /\ UNCHANGED <<up, current, stored, promised>>

(* Only what is stored is promised.                                        *)
Vouch(s) ==
  /\ stored.kind = "whole"
  /\ \E v \in 0 .. stored.of[s] :
       v >= promised[s] /\ promised' = [promised EXCEPT ![s] = v]
  /\ UNCHANGED <<up, current, image, stored>>

(* The process ends, or open() fails; memory and the snapshot are gone.    *)
Stop ==
  /\ up' = FALSE
  /\ current' = Blank
  /\ image' = Nothing
  /\ UNCHANGED <<stored, promised>>

Next ==
  \/ Start \/ Snapshot \/ Commit \/ GiveUp \/ Stop
  \/ \E s \in Slots : Change(s) \/ Vouch(s)

Spec == Init /\ [][Next]_vars

=============================================================================
