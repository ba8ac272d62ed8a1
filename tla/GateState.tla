------------------------------- MODULE GateState -------------------------------
(***************************************************************************)
(* The state of one streamed measurement, and what holds of it.  The steps *)
(* are in StreamGate.                                                      *)
(***************************************************************************)
EXTENDS Integers

CONSTANTS
  Clips,        \* clips of the window
  PerVideo,     \* clips_per_video
  Gate,         \* clips before the early-stop look
  MaxAttempts   \* bound

VARIABLES
  kept,       \* files executions/: clips with an answer
  progress,   \* file progress.json: grades of complete videos
  score,      \* file score.json: "none", "early" or "full"
  attempts,   \* file attempt.json
  worker,     \* the evaluation: where it is, grades at its start, gate, look, error
  graded,     \* grades in memory
  judge,      \* each clip in the pool of judges
  job,        \* the supervisor and the files of its job: output, cancel, continue
  watcher,    \* the thread that delivers rows: where it is, rows delivered
  clock       \* of _cancelled: "open", "closed" (the window) or "late" (the deadline)

-----------------------------------------------------------------------------
(* The look always finds exactly the grades of the gate, and a measurement  *)
(* that owes the look asks a clip past the gate only after it has been told *)
(* to go on.  It owes none when its job has no clip of the gate left to     *)
(* ask: PodRunner then sets no pause, also if earlier attempts kept every   *)
(* answer of the gate without grading them, and the clips past the gate run *)
(* unseen, although the documents let the worker pause after three videos.  *)
GateAtPrefix ==
  /\ worker.error # "early_stop_prefix_incomplete"
  /\ \A i \in 1 .. job.ran : job.tasks[i] > Gate =>
       job.continue = "go" \/ ~ worker.gated \/ job.tasks[1] > Gate

(* A clip whose answer was kept is never put to the model again: there is  *)
(* no second chance, over failures, crashes and resumed measurements.      *)
NoSecondAnswer == [][job'.ran > job.ran => job.tasks[job'.ran] \notin kept]_<<kept, job>>
================================================================================
