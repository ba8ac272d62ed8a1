--------------------------- MODULE AcquisitionState ----------------------------
(***************************************************************************)
(* What is kept of one model's way to the evaluator, and what is promised  *)
(* of it.  The steps are in Acquisition.                                   *)
(***************************************************************************)
EXTENDS Integers, Sequences, FiniteSets

CONSTANTS
  Budget,        \* MODEL_DOWNLOAD_BUDGET_S, one turn may use all of it
  Chunks,        \* chunks of the model
  Connections,   \* DOWNLOAD_CONNECTIONS
  MaxWindow, MaxTime   \* bounds

AcquisitionAssumption ==
  /\ {Budget, Chunks, Connections} \subseteq Nat \ {0}
  /\ {MaxWindow, MaxTime} \subseteq Nat

Downloader == {"prefetch", "attempt"}

VARIABLES
  window,     \* the open window
  block,      \* finalized readmissions of the hotkey so far
  admitted,   \* the model is queued, not withdrawn
  at,         \* where the thread of each downloader is
  entry,      \* window and readmission block each was started with
  held,       \* self.prefetch is not None
  slot,       \* the prefetch: its error, asked to stop, attempts it has failed (2: or more)
  record,     \* file download-budgets: charge and readmission block
  lease,      \* the held lock: by whom, used before, reserved, spent
  queue,      \* chunks requested, in order
  part,       \* file .part: chunks in the order they were appended
  done,       \* the verified model is in the cache
  total       \* time downloaded, ever

(* is_alive of the prefetch thread *)
Alive == at["prefetch"] \notin {"off", "ready", "failed"}

-----------------------------------------------------------------------------
(* A model takes no more download time than one budget for each finalized  *)
(* admission of its hotkey, whatever crashes, restarts and second          *)
(* downloaders do in between.                                              *)
QuotaPerAdmission == total <= Budget * (1 + block)

(* The part file always holds the first chunks of the model in order, so   *)
(* that any later turn may go on where it ends.                            *)
PartIsPrefix == \A i \in DOMAIN part : part[i] = i

(* Two downloaders never meet at the budget lock of one process: an        *)
(* attempt begins its download when no prefetch of the model is alive.     *)
OneDownloader == at["attempt"] \in {"renew", "enter", "get"} => ~ Alive
=============================================================================
