----------------------------- MODULE FutilityState -----------------------------
(***************************************************************************)
(* The early-stop look of stopping.py.  The rewards of a batch are fixed,  *)
(* the order of its videos is random; after the first three of them an     *)
(* upper bound of the mean is compared with the king, in the integer units *)
(* of the chain.  A reward is a number of Levels, exactly.  The batches    *)
(* and kings it is put to are in Futility.                                 *)
(***************************************************************************)
EXTENDS Integers, FiniteSets, FiniteSetsExt, Functions

CONSTANTS
  Planned,   \* planned_videos
  Levels,    \* rewards are told apart to 1 / Levels
  Scale      \* SCALE

FutilityAssumption == {Planned, Levels, Scale} \subseteq Nat \ {0} /\ Planned >= 3

(* The videos of the batch, numbered from the best on. *)
Rank == 1 .. Planned

VARIABLES
  reward,    \* of each video
  king,      \* the king's reward as it is on the chain
  verdict    \* of the look: "none" yet, "go", or the method of the bound

(* A mean of rewards, as a fraction of Most, in units: to nearest, or up. *)
Most == Planned * Levels
Quantized(total) == (2 * total * Scale + Most) \div (2 * Most)
UpperUnits(total) == (total * Scale + Most - 1) \div Most

Total(S) == SumFunctionOnSet(reward, S)

(* delta <= Fraction(2, 100), and its negation *)
Clears(units) == (units - king) * 100 > 2 * Scale

Choose3(n) == IF n < 3 THEN 0 ELSE (n * (n - 1) * (n - 2)) \div 6

(* Mistaken variant: one video fewer may be missed. *)
MissedFewer == Min({ k \in Rank : Choose3(Planned - k) * 10 <= Choose3(Planned) }) - 1

(* The fewest best videos that three random ones all miss with at most 10%. *)
Missed == Min({ k \in Rank : Choose3(Planned - k) * 10 <= Choose3(Planned) })

BestPossible(seen) == Total(seen) + (Planned - Cardinality(seen)) * Levels
Statistical(seen) ==
  (Missed - 1) * Levels + (Planned - Missed + 1) * Max({ reward[v] : v \in seen })

(* futility *)
Method(seen) ==
  IF Cardinality(seen) = 3 /\ Statistical(seen) < BestPossible(seen) THEN "finite_batch_90" ELSE "best_possible"
Upper(seen) == IF Method(seen) = "finite_batch_90" THEN Statistical(seen) ELSE BestPossible(seen)
Verdict(seen) == IF Clears(UpperUnits(Upper(seen))) THEN "go" ELSE Method(seen)

Prefixes(n) == kSubset(n, Rank)

-----------------------------------------------------------------------------
(* A challenger that beats the king with its whole batch is stopped by at  *)
(* most one in ten of the orders its videos may come in, and never by the  *)
(* bound that is said to be certain, however many videos it has seen; with *)
(* every rounding against it.                                              *)
FutilityHonest ==
  Clears(Quantized(Total(Rank))) /\ verdict = "none" =>
    /\ Cardinality({ S \in Prefixes(3) : Verdict(S) # "go" }) * 10 <= Choose3(Planned)
    /\ \A S \in SUBSET Rank \ {{}, Rank} : Verdict(S) # "best_possible"
=============================================================================
