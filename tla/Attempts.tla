------------------------------ MODULE Attempts -------------------------------
(***************************************************************************)
(* What the ledger promises about attempts, and nothing else: an evaluator *)
(* spends its attempt on a hotkey at most once, in the window that is open *)
(* when the attempt is recorded, and what is spent stays as it was; windows *)
(* only move forward; one network-wide reset starts a second generation.   *)
(***************************************************************************)
EXTENDS Integers

CONSTANTS Key, None

VARIABLES current, spent, generation

Init ==
  /\ current = None
  /\ spent = [k \in Key |-> None]
  /\ generation = 0

Kept(k) == spent'[k] = spent[k]
SpentIn(k, ws) == spent[k] = None /\ spent'[k] # None /\ spent'[k].window \in ws

(* Attempts recorded while the window is open. *)
Measure ==
  /\ current # None
  /\ \A k \in Key : Kept(k) \/ SpentIn(k, {current})
  /\ UNCHANGED <<current, generation>>

Forward == current' # None /\ (current # None => current' > current)

(* The close of a window may spend in it, and the same block in the next. *)
Turn ==
  /\ Forward
  /\ \A k \in Key : Kept(k) \/ SpentIn(k, {current, current'})
  /\ UNCHANGED generation

Readmit ==
  /\ Forward
  /\ generation = 0 /\ generation' = 1
  /\ \A k \in Key : spent'[k] # None => spent'[k].window = current'

Next == Measure \/ Turn \/ Readmit

Spec == Init /\ [][Next]_<<current, spent, generation>>
=============================================================================
