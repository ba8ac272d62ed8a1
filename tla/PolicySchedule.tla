---------------------------- MODULE PolicySchedule ----------------------------
(***************************************************************************)
(* Which policy a window is scored under, over the releases of the         *)
(* validator: Ledger.__init__ (a stored schedule is extended, or replaced  *)
(* while it is pending, or a legacy ledger is migrated), policy_for_window *)
(* and the policy that an opening records.  A release comes with its       *)
(* policy and the schedule of upgrades that led to it, oldest first.       *)
(***************************************************************************)
EXTENDS ScheduleState

Step == [first : ZeroBurn .. LastWindow, previous : Policy \cup {Legacy}]

(* The policy that step i of a schedule leads to. *)
LeadsTo(c, i) == IF i = Len(c.steps) THEN c.policy ELSE c.steps[i + 1].previous

(* validate_upgrade *)
Valid(c) ==
  /\ \A i \in 1 .. Len(c.steps) : c.steps[i].previous # LeadsTo(c, i)
  /\ \A i, j \in 1 .. Len(c.steps) : i < j => c.steps[i].first < c.steps[j].first

Release ==
  { c \in [policy : Policy, steps : UNION { [1 .. n -> Step] : n \in 0 .. MaxSteps }] : Valid(c) }

ScheduleAssumption ==
  /\ ZeroBurn \in Nat \ {0} /\ {LastWindow, MaxSteps} \subseteq Nat
  /\ Legacy \notin Policy /\ Unset \notin Release

vars == <<saved, next, opened, reported, inherited>>

(* A fresh ledger, or one of the release before there were schedules. *)
Init ==
  /\ saved \in {Unset, [policy |-> Legacy, steps |-> <<>>]}
  /\ next = 0 /\ opened = [w \in {} |-> Legacy] /\ reported = {} /\ inherited = 0

-----------------------------------------------------------------------------
Newest(c) == c.steps[Len(c.steps)]
Earlier(c) == SubSeq(c.steps, 1, Len(c.steps) - 1)
Scheduled(c) == c # Unset /\ c.steps # <<>>
Unopened(w) == next <= w

(* Mistaken variant: only the new boundary must lie ahead. *)
BoundaryOfNew(old, new) == new

Boundary(old, new) == IF old < new THEN old ELSE new

(* --replace-pending-policy names the stored policy: the last step changes. *)
Replaces(c) ==
  /\ Scheduled(saved) /\ Scheduled(c) /\ saved.policy # c.policy
  /\ Newest(saved).previous = Newest(c).previous
  /\ Earlier(saved) = Earlier(c)
  /\ Unopened(Boundary(Newest(saved).first, Newest(c).first))

(* The stored schedule is the prior_upgrade of the new one. *)
Extends(c) == Scheduled(saved) /\ Scheduled(c) /\ Earlier(c) = saved.steps

(* What is stored must be the release the new one is an upgrade of. *)
Upgrade(c) ==
  /\ saved # Unset => saved.policy = Newest(c).previous
  /\ Unopened(Newest(c).first)

(* A schedule taken over at once: only its newest boundary is looked at.   *)
Takeover(c) ==
  IF saved # Unset /\ saved.steps = <<>> /\ Len(c.steps) > 1 THEN c.steps[Len(c.steps) - 1].first ELSE inherited

(* A start that the ledger refuses changes nothing. *)
Start ==
  \E c \in Release :
    /\ \/ Replaces(c) /\ Unopened(Newest(c).first)
       \/ Extends(c) /\ Upgrade(c)
       \/ ~ Scheduled(saved) /\ Scheduled(c) /\ Upgrade(c)
       \/ saved = Unset /\ ~ Scheduled(c)
       \/ saved = c
    /\ saved' = c
    /\ inherited' = Takeover(c)
    /\ UNCHANGED <<next, opened, reported>>

(* _migrate_media_policy: what is open, unreported and undecided changes.  *)
Migrate ==
  /\ saved # Unset /\ saved.policy = Legacy
  /\ \E c \in Release :
       /\ c.steps = saved.steps
       /\ \A w \in reported : w < ZeroBurn
       /\ next - 1 <= ZeroBurn       \* the last window opened is the only undecided one
       /\ saved' = c
       /\ opened' = [w \in DOMAIN opened |-> IF w < ZeroBurn THEN opened[w] ELSE PolicyFor(c, w)]
  /\ UNCHANGED <<next, reported, inherited>>

(* _open records the policy of the window. *)
Open ==
  /\ saved # Unset /\ next <= LastWindow
  /\ opened' = [w \in 0 .. next |-> IF w = next THEN PolicyFor(saved, w) ELSE opened[w]]
  /\ next' = next + 1
  /\ UNCHANGED <<saved, reported, inherited>>

Report ==
  /\ next > 0
  /\ reported' = reported \cup {next - 1}
  /\ UNCHANGED <<saved, next, opened, inherited>>

Next == Start \/ Migrate \/ Open \/ Report

Spec == Init /\ [][Next]_vars

=============================================================================
