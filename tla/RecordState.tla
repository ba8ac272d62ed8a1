------------------------------ MODULE RecordState ------------------------------
(***************************************************************************)
(* One private record on a file system, and what is promised of it.  The   *)
(* steps are in Storage.                                                   *)
(***************************************************************************)
EXTENDS FiniteSets

CONSTANTS
  Thread, Value, NoValue,
  Torn        \* what a reader makes of a file with missing data

VARIABLES
  visible,    \* the file the name stands for: its value, synced or not
  stable,     \* the files it may stand for after a power loss
  folder,     \* its directory: there is none, a new one, one on the disk
  writers     \* what each thread is doing, and its temporary file

-----------------------------------------------------------------------------
(* write_private keeps the promise of a record: whole values only, whoever *)
(* writes and whatever fails, and none older after a write that returned;  *)
(* but it never syncs the entry of a new directory in its own parent, with *)
(* which a power loss may take the first records after their writes        *)
(* returned.                                                               *)
Promise == INSTANCE AtomicRecord
  WITH record <- visible.value,
       safe <- { file.value : file \in stable },
       owed <- { w \in Thread : writers[w].at = "replaced" },
       rooted <- folder = "stable"

RecordKept == Promise!Spec
=============================================================================
