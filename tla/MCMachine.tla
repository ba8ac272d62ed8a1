------------------------------- MODULE MCMachine -------------------------------
(***************************************************************************)
(* The parts of a validator's machine that share no state, side by side:   *)
(* in each behaviour one of them moves and the others rest, so that one    *)
(* run explores the sum of their states, and not the product.              *)
(***************************************************************************)
EXTENDS WeightWriter, BatchState, AcquisitionState, ScheduleState, RecordState, GateState,
        FutilityState

VARIABLE moving

Batch == INSTANCE WindowBatch
Acquire == INSTANCE Acquisition
Stream == INSTANCE StreamGate
Early == INSTANCE Futility
Schedule == INSTANCE PolicySchedule
Private == INSTANCE Storage

ASSUME MachineAssumption ==
  /\ Batch!BatchAssumption /\ Acquire!AcquisitionAssumption /\ Stream!GateAssumption
  /\ FutilityAssumption /\ Schedule!ScheduleAssumption
  /\ Clips = Size * PerVideo

batchVars == <<rejected, rows, locked, batch, stage, selected, served>>
acquireVars == <<window, block, admitted, at, entry, held, slot, record, lease, queue, part, done, total>>
streamVars == <<kept, progress, score, attempts, worker, graded, judge, job, watcher, clock>>
earlyVars == <<reward, king, verdict>>
scheduleVars == <<saved, next, opened, reported, inherited>>
privateVars == <<visible, stable, folder, writers>>
MCvars == <<moving, vars, batchVars, acquireVars, streamVars, earlyVars, scheduleVars, privateVars>>

(* A part that rests is in one of its initial states. *)
MCInit ==
  /\ moving \in {"weights", "batch", "acquire", "stream", "early", "schedule", "private"}
  /\ Init /\ (moving # "weights" => want = CHOOSE v \in Vector : TRUE)
  /\ Batch!Init /\ (moving # "batch" => rejected = {})
  /\ Acquire!Init /\ Stream!Init /\ Private!Init /\ (moving # "private" => folder = "none")
  /\ Schedule!Init /\ (moving # "schedule" => saved = Unset)
  /\ Early!Init /\ (moving # "early" => reward = [v \in Rank |-> Levels] /\ ~ Clears(Quantized(Total(Rank))))

Moves(one) ==
  /\ moving = one /\ UNCHANGED moving
  /\ one # "weights" => UNCHANGED vars
  /\ one # "batch" => UNCHANGED batchVars
  /\ one # "acquire" => UNCHANGED acquireVars
  /\ one # "stream" => UNCHANGED streamVars
  /\ one # "early" => UNCHANGED earlyVars
  /\ one # "schedule" => UNCHANGED scheduleVars
  /\ one # "private" => UNCHANGED privateVars

MCNext ==
  \/ Moves("weights") /\ Next
  \/ Moves("batch") /\ Batch!Next
  \/ Moves("acquire") /\ Acquire!Next
  \/ Moves("stream") /\ Stream!Next
  \/ Moves("early") /\ Early!Look
  \/ Moves("schedule") /\ Schedule!Next
  \/ Moves("private") /\ Private!Next

(* What WeightWriter and StreamGate assume of their threads; a part that   *)
(* rests has nothing to do.                                                *)
MCFairness ==
  /\ SF_vars(moving = "weights" /\ Step) /\ WF_vars(moving = "weights" /\ Writer)
  /\ WF_vars(moving = "weights" /\ Tick) /\ WF_vars(moving = "weights" /\ Land)
  /\ Stream!Fairness

MCSpec == MCInit /\ [][MCNext]_MCvars /\ MCFairness

-----------------------------------------------------------------------------
(* The other properties come from the modules of the state of the parts.   *)
WeightsFollowDecision == moving = "weights" => WeightsFollow
AttemptEnds == Stream!AttemptEnds
=============================================================================
