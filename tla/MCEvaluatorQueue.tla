--------------------------- MODULE MCEvaluatorQueue ----------------------------
(* Owners and bounds for the instances of EvaluatorQueue. *)
EXTENDS EvaluatorQueue

OneOwner == [h \in {1, 2} |-> 1]

(* The last blocks only for histories without crash, fresh commitment or    *)
(* time-out: they are there for one more turn of the window.                *)
Short == block <= 3 \/ (crashes = 0 /\ commits = {} /\ \A h \in Hotkey : trig[h].timeouts = 0 /\ ~ trig[h].parked)
=============================================================================
