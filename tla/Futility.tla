------------------------------- MODULE Futility -------------------------------
(***************************************************************************)
(* The early-stop look put to every batch and the two hardest kings for it.*)
(***************************************************************************)
EXTENDS FutilityState

(* Every batch, with the last king it beats and the first that it does not. *)
Init ==
  /\ reward \in { r \in [Rank -> 0 .. Levels] : \A v, w \in Rank : v < w => r[v] >= r[w] }
  /\ king \in { Quantized(Total(Rank)) - (2 * Scale) \div 100 - d : d \in {0, 1} } \cap (0 .. Scale)
  /\ verdict = "none"

Look ==
  /\ verdict = "none"
  /\ \E n \in {2, 3} : \E seen \in Prefixes(n) : verdict' = Verdict(seen)
  /\ UNCHANGED <<reward, king>>

Spec == Init /\ [][Look]_<<reward, king, verdict>>
=============================================================================
