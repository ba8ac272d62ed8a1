------------------------------ MODULE BatchState -------------------------------
(***************************************************************************)
(* The files and the memory that hold the clips of one window, and what is *)
(* promised of them.  The steps are in WindowBatch.                        *)
(***************************************************************************)
EXTENDS Integers, FiniteSets

CONSTANTS
  Videos,   \* videos of the catalogue
  Size      \* videos of a batch

BatchAssumption == {Videos, Size} \subseteq Nat \ {0} /\ Size <= Videos

Video == 1 .. Videos
Draw == [i \in 1 .. Size |-> i]
Reserve == Size + 1 .. Videos

VARIABLES
  rejected,   \* file media-rejections.json, of all windows
  rows,       \* file clips.jsonl: a row of each video cut, in order of completion
  locked,     \* file selected.json, or the empty sequence
  batch,      \* file batch.json, or the empty sequence
  stage,      \* where the evaluator is
  selected,   \* in memory: the videos of the batch, by place
  served      \* every batch that was handed to an evaluation

(* Whatever is rejected, lost or cut again, every evaluation of the window *)
(* gets the same clips in the same order, and every video of the draw that *)
(* was not rejected is at its own place: a king and its challengers, and   *)
(* the early-stop prefix, are measured on the same random sample.          *)
OneBatchServed ==
  /\ Cardinality(served) <= 1
  /\ \A b \in served, i \in 1 .. Size : b[i] = Draw[i] \/ Draw[i] \in rejected
=============================================================================
