----------------------------- MODULE ScheduleState -----------------------------
(***************************************************************************)
(* The policies a ledger has stored and opened its windows under, and what *)
(* is promised of them.  The steps are in PolicySchedule.                  *)
(***************************************************************************)
EXTENDS Integers, Sequences, FiniteSets

CONSTANTS
  Legacy,      \* the policy before ZERO_BURN_WINDOW
  Policy,      \* policies of the releases
  Unset,
  ZeroBurn,    \* ZERO_BURN_WINDOW
  LastWindow, MaxSteps   \* bounds

VARIABLES
  saved,      \* activation policy and policy_upgrade of the ledger, or Unset
  next,       \* windows opened so far
  opened,     \* the policy each opening recorded
  reported,   \* windows a finalized result names
  inherited       \* history: no start has taken over a past with a boundary from here on

(* Steps that lie ahead of a window; the earliest of them is the next.     *)
Ahead(c, w) == { i \in 1 .. Len(c.steps) : w < c.steps[i].first }
First(S) == CHOOSE i \in S : \A j \in S : i <= j

(* policy_for_window *)
PolicyFor(c, w) ==
  IF w < ZeroBurn THEN Legacy
  ELSE IF Ahead(c, w) = {} THEN c.policy
  ELSE c.steps[First(Ahead(c, w))].previous

-----------------------------------------------------------------------------
(* However releases, extensions, replacements and migrations came to a      *)
(* ledger, replaying history under the stored schedule opens every window   *)
(* under the policy this ledger opened it under: all of them, unless the    *)
(* ledger had no schedule and took over one with a past of its own, and     *)
(* then those from the last boundary of that past on.                       *)
ReplayAgrees == \A w \in inherited .. next - 1 : opened[w] = PolicyFor(saved, w)

=============================================================================
