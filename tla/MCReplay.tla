------------------------------- MODULE MCReplay --------------------------------
(* TLC instance of Replay: slots and stakes change while a king reigns. *)
EXTENDS Replay, TLC

CONSTANT Opening0   \* blocks before the chain is free

MCColdkeyOf == 1 :> 1 @@ 2 :> 2
Moves == { 1 :> 1 @@ 2 :> 2, 1 :> 1, 1 :> 2 @@ 2 :> 1 }
Moving == { 11 :> 1 @@ 12 :> 2, 11 :> 2 @@ 12 :> 1 }

Shape(q, r, kq, kr, flags) ==
  [quality |-> q, reward |-> r, king_quality |-> kq, king_reward |-> kr, flags |-> flags]
Scores == { Shape(60, 50, 0, 0, {"CONTROLS_OK"}), Shape(50, 42, 0, 0, {"CONTROLS_OK"}) }

(* Both miners bind in the first block; the chain is free from the second. *)
Bindings ==
  LET digest == CHOOSE n \in Model : TRUE
      Submits(h) == [block |-> 1, hotkey |-> h, value |-> [kind |-> "submission", model |-> digest]]
  IN  <<Submits(1), Submits(2)>>

FirstBlock ==
  ReplayBlock([block |-> 1, epoch |-> 0, uids |-> 1 :> 1 @@ 2 :> 2, validators |-> 11 :> 1 @@ 12 :> 2], Bindings)

MCNext == IF snapshot.block < Opening0 THEN FirstBlock ELSE ReplayNext
MCSpec == ReplayInit /\ [][MCNext]_replayVars
=============================================================================
