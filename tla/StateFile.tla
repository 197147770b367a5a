------------------------------ MODULE StateFile ------------------------------
(* The file that keeps what preprocessing learnt (device/persistence.c): one  *)
(* write of it at a time, the failure of any of its system calls, the death   *)
(* of the process and the loss of power between any two of them.              *)
(*                                                                            *)
(* The file system is the weakest one that gives what fsync promises: contents*)
(* are whole after a loss of power only if they were synced, and a name holds *)
(* any of the contents it had since its directory was synced.                 *)
EXTENDS Naturals

CONSTANTS Record, \* what a file of the right size, owner and digest holds
          Absent, \* no file
          Torn    \* a file whose contents did not reach the disk

ASSUME StateFileAssumption == Absent \notin Record /\ Torn \notin Record \cup {Absent}

VARIABLES
  disk,  \* dir; file: what the name shows; left: what a loss of power may leave
  write, \* the write in progress: step, rec, synced, before
  owed   \* what the writes asked for, and reported, allow a reader to find

fileVars == <<disk, write, owed>>

NoWrite == [step |-> "none", rec |-> Absent, synced |-> FALSE, before |-> {}]

FileInit ==
  /\ disk = [dir |-> "absent", file |-> Absent, left |-> {Absent}]
  /\ write = NoWrite
  /\ owed = {Absent}

Step(step) == write' = [write EXCEPT !.step = step]

Begin(rec) ==
  /\ write.step = "none"
  /\ write' = [step |-> "start", rec |-> rec, synced |-> FALSE, before |-> owed]
  /\ owed' = owed \cup {rec}
  /\ UNCHANGED disk

\* ---------------------------------------------------------------------------
\* goodix_milan_state_open_directory.

OpenDirectory ==
  /\ write.step = "start" /\ disk.dir # "absent"
  /\ Step("open") /\ UNCHANGED <<disk, owed>>

MakeDirectory ==
  /\ write.step = "start" /\ disk.dir = "absent"
  /\ disk' = [disk EXCEPT !.dir = "unsynced"]
  /\ Step("made") /\ UNCHANGED owed

SyncParent ==
  /\ write.step = "made"
  /\ disk' = [disk EXCEPT !.dir = "durable"]
  /\ Step("open") /\ UNCHANGED owed

\* ---------------------------------------------------------------------------
\* goodix_milan_state_write.

WriteTemporary ==
  /\ write.step = "open"
  /\ Step("written") /\ UNCHANGED <<disk, owed>>

SyncTemporary ==
  /\ write.step = "written"
  /\ write' = [write EXCEPT !.step = "synced", !.synced = TRUE]
  /\ UNCHANGED <<disk, owed>>

Settled == IF write.synced THEN {write.rec} ELSE {write.rec, Torn}

\* Mutant of Rename: the new file need not have reached the disk.
Rename_BeforeSync ==
  /\ write.step \in {"written", "synced"}
  /\ disk' = [disk EXCEPT !.file = write.rec, !.left = @ \cup Settled]
  /\ Step("renamed") /\ UNCHANGED owed

Rename ==
  /\ write.step = "synced"
  /\ disk' = [disk EXCEPT !.file = write.rec, !.left = @ \cup Settled]
  /\ Step("renamed") /\ UNCHANGED owed

\* Only a reported success is a promise; the directory's own link may be an
\* earlier writer's, who died before syncing it.
SyncDirectory ==
  /\ write.step = "renamed"
  /\ disk' = [disk EXCEPT !.left = Settled]
  /\ write' = NoWrite
  /\ \/ owed' = {write.rec} \cup (IF disk.dir = "durable" THEN {} ELSE {Absent})
     \/ UNCHANGED owed

\* A failed call: what is not renamed is removed, and an uncommitted directory
\* too, if it can be.
WriteFails ==
  /\ write.step # "none"
  /\ write' = NoWrite
  /\ \/ /\ write.step = "made"
        /\ disk' = [disk EXCEPT !.dir = "absent"]
     \/ UNCHANGED disk
  /\ owed' = IF write.step = "renamed" THEN owed ELSE write.before

\* ---------------------------------------------------------------------------
\* Crashes.

Die ==
  /\ write' = NoWrite
  /\ owed' = IF write.step \in {"none", "renamed"} THEN owed ELSE write.before
  /\ UNCHANGED disk

PowerLoss ==
  /\ write' = NoWrite
  /\ \/ /\ disk.dir # "absent"
        /\ \E rest \in disk.left :
             /\ disk' = [dir |-> "durable", file |-> rest, left |-> {rest}]
             /\ owed' = owed \cap {rest}
     \/ /\ disk.dir # "durable"
        /\ disk' = [dir |-> "absent", file |-> Absent, left |-> {Absent}]
        /\ owed' = owed \cap {Absent}

Writing ==
  \/ OpenDirectory \/ MakeDirectory \/ SyncParent \/ WriteTemporary
  \/ SyncTemporary \/ Rename \/ SyncDirectory

FileNext == (\E rec \in Record : Begin(rec)) \/ Writing \/ WriteFails \/ Die \/ PowerLoss

FileSpec == FileInit /\ [][FileNext]_fileVars

\* What a reader may find, now and after a loss of power, is whole: the record of
\* the last write that reported success, or that of a later write which failed
\* only after its rename, never a mix, and never something older; a write that
\* fails before its rename leaves what was there (persistence.c:417-491).
OldOrNew ==
  /\ disk.file \in owed /\ disk.left \subseteq owed
  /\ disk.dir # "durable" => Absent \in owed
  /\ Torn \notin owed
=============================================================================
