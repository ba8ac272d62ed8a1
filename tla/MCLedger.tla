------------------------------ MODULE MCLedger -------------------------------
(***************************************************************************)
(* TLC instances of Ledger: three miners of two owners, two evaluators.    *)
(***************************************************************************)
EXTENDS Ledger, TLC

CONSTANT Scripted   \* blocks of the script that are played

MCColdkeyOf == 1 :> 1 @@ 2 :> 2 @@ 3 :> 1
AllRegistered == { 1 :> 1 @@ 2 :> 2 @@ 3 :> 3 }
OneChallenger == { 1 :> 1 @@ 3 :> 3 }
\* the second miner leaves and returns in another slot
Churn == { 1 :> 1 @@ 3 :> 3, 1 :> 1 @@ 2 :> 4 @@ 3 :> 3 }
OneEvaluator == { 11 :> 1 }
TwoEvaluators == { 11 :> 1 @@ 12 :> 2 }

Shape(q, r, kq, kr, flags) ==
  [quality |-> q, reward |-> r, king_quality |-> kq, king_reward |-> kr, flags |-> flags]

Baseline == Shape(50, 40, 0, 0, {"CONTROLS_OK", "BASELINE"})
Better   == Shape(60, 50, 50, 40, {"CONTROLS_OK"})
Worse    == Shape(50, 42, 50, 40, {"CONTROLS_OK"})
Rejected == Shape(0, 0, 50, 40, {"CONTROLS_OK", "REJECTED"})
Failed   == Shape(60, 50, 50, 40, {})
BoundOpen == Shape(70, 60, 50, 40, {"CONTROLS_OK", "EARLY_STOP"})
BoundLost == Shape(50, 42, 50, 40, {"CONTROLS_OK", "EARLY_STOP"})

BootstrapShapes == { Better, Failed, Shape(5, 5, 0, 0, {"CONTROLS_OK"}) }
LateTerminal == { Better }
ReignShapes == { Baseline, Better, Rejected, Failed, BoundOpen, BoundLost }
ResetShapes == { Baseline, Better, Failed, BoundLost }

(* A first king: three submissions, one evaluator's complete pair, the     *)
(* close, and the baseline of the king in the window that follows.         *)
Script ==
  LET digest == CHOOSE n \in Model : TRUE
      Submits(b, h) == [block |-> b, hotkey |-> h, value |-> [kind |-> "submission", model |-> digest]]
      Finds(b, w, h, s) ==
        [ block |-> b, hotkey |-> 11,
          value |-> [ kind |-> "result", window |-> w, uid |-> h, model |-> <<h, digest>>,
                      policy |-> PolicyFor(w), quality |-> s.quality, reward |-> s.reward,
                      king_quality |-> s.king_quality, king_reward |-> s.king_reward, flags |-> s.flags ] ]
  IN  << <<Submits(1, 1), Submits(1, 2), Submits(1, 3)>>,
         <<Finds(2, 1, 1, Better), Finds(2, 1, 2, Worse)>>,
         <<>>,
         <<Finds(4, 2, 1, Baseline)>> >>

ScriptedBlock ==
  LET b == snapshot.block + 1
  IN  \E uids \in (IF b <= 2 THEN AllRegistered ELSE Registrations), validators \in Stakes :
        Ingest([ block |-> b, epoch |-> IF b <= 3 THEN b - 1 ELSE 2,
                 uids |-> uids, validators |-> validators ], Script[b])

(* The chain follows the script for Scripted blocks and is free afterwards. *)
MCNext == IF snapshot.block < Scripted THEN ScriptedBlock ELSE NextBlock
MCSpec == Init /\ [][MCNext]_vars
=============================================================================
