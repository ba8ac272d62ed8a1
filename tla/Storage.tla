------------------------------- MODULE Storage -------------------------------
(***************************************************************************)
(* One private record: write_private of storage.py, by several threads, on *)
(* a file system that keeps unsynced data and directory entries in memory. *)
(* A process crash loses the threads, a power loss also what is unsynced.  *)
(***************************************************************************)
EXTENDS RecordState

vars == <<visible, stable, folder, writers>>

Idle == [at |-> "idle", value |-> NoValue, synced |-> FALSE]
NoFile == [value |-> NoValue, synced |-> TRUE]

Init ==
  /\ visible = NoFile
  /\ stable = {NoFile}
  /\ folder \in {"none", "new", "stable"}
  /\ writers = [w \in Thread |-> Idle]

Goes(w, at, synced) ==
  writers' = [writers EXCEPT ![w] = [at |-> at, value |-> writers[w].value, synced |-> synced]]

(* The directories it needs, and a temporary file of a name of its own. *)
Open(w) ==
  /\ writers[w].at = "idle"
  /\ folder' = (IF folder = "none" THEN "new" ELSE folder)
  /\ \E v \in Value : writers' = [writers EXCEPT ![w] = [at |-> "open", value |-> v, synced |-> FALSE]]
  /\ UNCHANGED <<visible, stable>>

Write(w) == writers[w].at = "open" /\ Goes(w, "written", FALSE) /\ UNCHANGED <<visible, stable, folder>>

(* Mistaken variant: the data is left to the file system. *)
SyncedLater(w) == Goes(w, "synced", FALSE)

Synced(w) == Goes(w, "synced", TRUE)

Fsync(w) == writers[w].at = "written" /\ Synced(w) /\ UNCHANGED <<visible, stable, folder>>

File(w) == [value |-> writers[w].value, synced |-> writers[w].synced]

(* Until the directory is synced, either file may have the name. *)
Replace(w) ==
  /\ writers[w].at = "synced"
  /\ visible' = File(w)
  /\ stable' = stable \cup {File(w)}
  /\ Goes(w, "replaced", writers[w].synced)
  /\ UNCHANGED folder

FsyncDirectory(w) ==
  /\ writers[w].at = "replaced"
  /\ stable' = {visible}
  /\ writers' = [writers EXCEPT ![w] = Idle]
  /\ UNCHANGED <<visible, folder>>

(* An error at any step; the temporary file is unlinked. *)
Fail(w) ==
  /\ writers[w].at # "idle"
  /\ writers' = [writers EXCEPT ![w] = Idle]
  /\ UNCHANGED <<visible, stable, folder>>

Crash ==
  /\ writers' = [w \in Thread |-> Idle]
  /\ UNCHANGED <<visible, stable, folder>>

Survives(file) == IF file.synced THEN file ELSE [value |-> Torn, synced |-> TRUE]

(* What nobody has synced reaches the disk in its own time: the entry of a *)
(* new directory in its parent.                                            *)
Writeback == folder = "new" /\ folder' = "stable" /\ UNCHANGED <<visible, stable, writers>>

(* A new directory is found again, or gone with everything in it. *)
PowerLoss ==
  /\ \/ /\ folder # "none" /\ folder' = "stable"
        /\ \E file \in stable : visible' = Survives(file) /\ stable' = {Survives(file)}
     \/ /\ folder # "stable" /\ folder' = "none"
        /\ visible' = NoFile /\ stable' = {NoFile}
  /\ writers' = [w \in Thread |-> Idle]

Next ==
  \/ \E w \in Thread :
       Open(w) \/ Write(w) \/ Fsync(w) \/ Replace(w) \/ FsyncDirectory(w) \/ Fail(w)
  \/ Crash \/ Writeback \/ PowerLoss

Spec == Init /\ [][Next]_vars

=============================================================================
