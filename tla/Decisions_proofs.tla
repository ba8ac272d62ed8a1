--------------------------- MODULE Decisions_proofs ----------------------------
(***************************************************************************)
(* What the ledger decides, for every constant: who reigns, what a         *)
(* decision spends, which attempts a bootstrap pair consumes, and what the *)
(* admission reset leaves.  Every invariant here is a strengthening that a *)
(* block of the chain preserves, on top of the types and windows of        *)
(* Ledger_proofs.  And every follower decides the same: a replay with      *)
(* cached snapshots takes the steps of module Ledger, and each block       *)
(* changes the tables as the block's own snapshot would have.              *)
(***************************************************************************)
EXTENDS Replay, Ledger_proofs, SumTheorems, SequenceTheorems

-----------------------------------------------------------------------------
(* The intermediate tables of `ingest`, by the names its steps use. *)

Uses1(snap)    == IF Closes(snap) THEN UsesAfterLosses(Closing(snap)) ELSE uses
King1(snap)    == IF Closes(snap) THEN Closing(snap).king ELSE king
Retired1(snap) == IF Closes(snap) THEN RetiredAfter(Closing(snap), Uses1(snap), snap) ELSE retired
Bound(snap)    == IF Resets(snap) THEN [h \in Hotkey |-> None] ELSE submissions
Uses2(snap)    == IF Resets(snap) THEN [k \in Key |-> None] ELSE Uses1(snap)
Halves(snap)   == IF Resets(snap) THEN {} ELSE pending
Out(snap)      == IF Resets(snap) THEN {} ELSE Retired1(snap)
Last(snap)     == IF Resets(snap) THEN None ELSE after
Entries(snap)  == Admitted(Bound(snap), Out(snap), snap)
Firsts(rows, snap) == FirstOf(rows, Accepted(rows, active', Uses2(snap), snap))

(* One block in terms of them. *)
LEMMA IngestParts ==
  ASSUME NEW snap, NEW rows, Ingest(snap, rows)
  PROVE  /\ snap.block = snapshot.block + 1
         /\ snapshot' = snap
         /\ commitments' = commitments \o rows
         /\ submissions' = [h \in Hotkey |-> FirstBinding(rows, h, snap, Bound(snap))]
         /\ Turns(snap) => active' = Opening(snap, WindowOf(snap.epoch), King1(snap), Entries(snap), Last(snap))
         /\ ~ Turns(snap) => active' = active
         /\ king' = King1(snap)
         /\ pending' = PendingAfterRows(rows, Firsts(rows, snap), active', Halves(snap))
         /\ uses' = UsesAfterPanels(active', pending', UsesAfterRows(rows, Firsts(rows, snap), active', Uses2(snap)))
         /\ Resets(snap) => archive' = [submissions |-> submissions, uses |-> Uses1(snap), pending |-> pending]
         /\ Resets(snap) => reset' = [window |-> ResetWindow, block |-> snap.block]
         /\ ~ Resets(snap) => reset' = reset /\ archive' = archive
  BY DEF Ingest, Transaction, Turns, Closes, Resets, Uses1, King1, Retired1, Bound, Uses2, Halves, Out, Last, Entries, Firsts

(* Windows stay where they are; a block adds at most one, after all others. *)
LEMMA OldWindows ==
  ASSUME TypeOK, WindowInv, NEW snap, Follows(snap), NEW rows \in BlockRows(snap), Ingest(snap, rows)
  PROVE  /\ TypeOK' /\ WindowInv' /\ IsFrame(snap) /\ active' # None
         /\ active'.id \in Nat /\ active'.id = WindowOf(snap.epoch)
         /\ \A w \in DOMAIN windows : w \in DOMAIN windows' /\ w \in Nat /\ w <= active.id /\ active.id \in Nat
         /\ Turns(snap) => \A w \in DOMAIN windows : w < active'.id
         /\ ~ Turns(snap) => active' = active /\ active # None /\ windows'[active.id] = windows[active.id]
         /\ DOMAIN windows' = DOMAIN windows \cup {active'.id}
         /\ windows'[active'.id].opening = active' /\ windows'[active'.id].decision = None
         /\ \A w \in DOMAIN windows :
              /\ windows'[w].opening = windows[w].opening
              /\ w # active.id => windows'[w] = windows[w]
              /\ w = active.id =>
                   /\ active # None /\ windows[w].opening = active /\ windows[w].decision = None
                   /\ windows'[w].decision = IF Closes(snap) THEN Closing(snap) ELSE None
  <1>1. IsFrame(snap)
    BY FollowsFrame DEF TypeOK
  <1>2. TypeOK'
    BY <1>1, RowsTyped, TypeStep
  <1>3. WindowInv' /\ active' # None
    BY WindowStep
  <1>4. snapshot' = snap
    BY IngestParts
  <1>5. active'.id = WindowOf(snap.epoch) /\ active'.id \in Nat
    BY <1>1, <1>3, <1>4, WindowOfNat DEF WindowInv, IsFrame
  <1>6. \A w \in DOMAIN windows : w \in Nat /\ w <= active.id /\ active # None /\ active.id \in Nat
    BY DEF WindowInv, TypeOK, IsOpening, OpeningOf
  <1>7. Turns(snap) => \A w \in DOMAIN windows : w < active'.id
    BY <1>5, <1>6, TurnsForward DEF Turns
  <1>8. DOMAIN windows' = DOMAIN windows \cup {active'.id}
    BY <1>3, <1>5, IngestWindows DEF WindowInv
  <1>9. ~ Turns(snap) => active' = active /\ active # None
    BY IngestParts DEF Turns
  <1>10. windows'[active'.id].opening = active' /\ windows'[active'.id].decision = None
    BY <1>3 DEF WindowInv
  <1>11. ASSUME NEW w \in DOMAIN windows
         PROVE  /\ windows'[w].opening = windows[w].opening
                /\ w # active.id => windows'[w] = windows[w]
                /\ w = active.id =>
                     /\ active # None /\ windows[w].opening = active /\ windows[w].decision = None
                     /\ windows'[w].decision = IF Closes(snap) THEN Closing(snap) ELSE None
    <2>1. w \in DOMAIN windows' /\ (Turns(snap) => w # WindowOf(snap.epoch))
      BY <1>5, <1>6, <1>7, <1>8
    <2>2. \/ windows'[w] = windows[w]
          \/ Closes(snap) /\ w = active.id /\ windows'[w] = [windows[w] EXCEPT !.decision = Closing(snap)]
      BY <2>1, IngestWindows
    <2>3. windows'[w].opening = windows[w].opening
      BY HistoryStep DEF Unchanged
    <2>4. w = active.id => active # None /\ windows[w].opening = active /\ windows[w].decision = None
      BY <1>6 DEF WindowInv
    <2>5. w = active.id /\ ~ Closes(snap) => windows'[w] = windows[w]
      BY <2>2
    <2>6. ASSUME w = active.id, Closes(snap) PROVE windows'[w].decision = Closing(snap)
      <3>1. windows' = [ u \in DOMAIN windows \cup (IF Turns(snap) THEN {WindowOf(snap.epoch)} ELSE {}) |->
                       IF Turns(snap) /\ u = WindowOf(snap.epoch) THEN [opening |-> active', decision |-> None]
                       ELSE IF Closes(snap) /\ u = active.id THEN [windows[u] EXCEPT !.decision = Closing(snap)]
                       ELSE windows[u] ]
        BY DEF Ingest, Transaction, Turns, Closes
      <3>2. windows'[w] = [windows[w] EXCEPT !.decision = Closing(snap)]
        BY <2>1, <2>6, <3>1
      <3> QED
        BY <3>2
    <2> QED
      BY <2>2, <2>3, <2>4, <2>5, <2>6
  <1>12. ~ Turns(snap) => windows'[active.id] = windows[active.id]
    BY <1>9, IngestWindows DEF WindowInv, Turns
  <1> QED
    BY <1>1, <1>2, <1>3, <1>5, <1>6, <1>7, <1>8, <1>9, <1>10, <1>11, <1>12

-----------------------------------------------------------------------------
(* The choice of a decision. *)

(* A crowned hotkey is registered.  It is the king the window opened with, *)
(* or a challenger of the panel whose aggregate is kept and holds no bound. *)
LEMMA DecidedKing ==
  ASSUME NEW rows, NEW history, NEW window, NEW policy, NEW holder, NEW candidates, NEW snap
  PROVE  LET votes == ValidVotes(rows, history, window, policy, holder, candidates, snap)
             all   == Aggregates(rows, votes, candidates, snap)
             d     == Decide(rows, history, window, policy, holder, candidates, snap)
         IN  d.king # None =>
               /\ d.king.hotkey \in DOMAIN snap.uids
               /\ \/ d.king = holder
                  \/ \E m \in DOMAIN all :
                       /\ m \in DOMAIN candidates /\ d.king = candidates[m]
                       /\ ~ all[m].bounded /\ m \in DOMAIN d.aggregates
  <1> DEFINE votes == ValidVotes(rows, history, window, policy, holder, candidates, snap)
             all   == Aggregates(rows, votes, candidates, snap)
             d     == Decide(rows, history, window, policy, holder, candidates, snap)
             kept  == { m \in DOMAIN all : ~ TooPoor(all[m]) }
             open  == { m \in kept : all[m].bounded /\ Improves(all[m]) }
             eligible == { m \in kept : candidates[m].hotkey \in DOMAIN snap.uids /\ Eligible(all[m], holder) }
             chosen == Chosen(all, eligible, open, holder, candidates)
  <1>1. DOMAIN all \subseteq DOMAIN candidates
    BY DEF Aggregates
  <1>2. d.king = Enthroned(Winner(chosen, holder, candidates), snap) /\ DOMAIN d.aggregates = kept
    BY DEF Decide, Weighed, Decision
  <1>3. chosen \subseteq eligible
    BY DEF Chosen
  <1> HIDE DEF all, open, d, chosen
  <1>4. \A n \in eligible : n \in DOMAIN all /\ n \in kept /\ ~ all[n].bounded
    BY DEF Eligible
  <1> HIDE DEF kept, eligible
  <1>5. d.king # None =>
          /\ d.king.hotkey \in DOMAIN snap.uids
          /\ d.king = holder \/ \E n \in chosen : d.king = candidates[n]
    BY <1>2 DEF Enthroned, Winner
  <1>6. d.king # None =>
          /\ d.king.hotkey \in DOMAIN snap.uids
          /\ \/ d.king = holder
             \/ \E n \in DOMAIN all : /\ n \in DOMAIN candidates /\ d.king = candidates[n]
                                      /\ ~ all[n].bounded /\ n \in DOMAIN d.aggregates
    BY <1>1, <1>2, <1>3, <1>4, <1>5
  <1> QED
    BY <1>6 DEF d, all

-----------------------------------------------------------------------------
(* The throne. *)

Before(p, w) == p \in DOMAIN windows /\ p < w /\ \A u \in DOMAIN windows : u < w => u <= p

ThroneInv ==
  /\ active = None => king = None
  /\ \A w \in DOMAIN windows : windows[w].opening.king # None =>
       \E p \in DOMAIN windows : /\ Before(p, w) /\ windows[p].decision.king # None
                                 /\ windows[p].decision.king.model = windows[w].opening.king.model
  /\ \A w \in DOMAIN windows : windows[w].decision # None =>
       LET o == windows[w].opening
           d == windows[w].decision
       IN  d.king # None => \/ o.king # None /\ d.king.model = o.king.model
                            \/ d.king.model \in DOMAIN o.candidates

LEMMA King1Typed ==
  ASSUME TypeOK, NEW snap
  PROVE  King1(snap) \in Entry \cup {None}
  <1>1. active # None => /\ active.king \in Entry \cup {None}
                         /\ \A m \in DOMAIN active.candidates : active.candidates[m] \in Entry
    BY DEF TypeOK, IsOpening, OpeningOf
  <1> QED
    BY <1>1, DecidedKingTyped DEF TypeOK, King1, Closes, Closing

(* The king of an opening is the holder of the throne, in today's slot. *)
LEMMA OpeningKing ==
  ASSUME TypeOK, NEW snap, NEW rows, Ingest(snap, rows), Turns(snap)
  PROVE  active'.king # None => King1(snap) # None /\ active'.king.model = King1(snap).model
  <1>1. active'.king = ReigningKing(King1(snap), snap)
    <2>1. active' = Opening(snap, WindowOf(snap.epoch), King1(snap), Entries(snap), Last(snap))
      BY IngestParts
    <2> QED
      BY <2>1 DEF Opening
  <1>2. CASE King1(snap) = None
    BY <1>1, <1>2 DEF ReigningKing
  <1>3. CASE King1(snap) # None
    <2>1. active'.king # None => active'.king = [King1(snap) EXCEPT !.uid = snap.uids[King1(snap).hotkey]]
      BY <1>1, <1>3 DEF ReigningKing
    <2>2. King1(snap) \in Entry
      BY <1>3, King1Typed
    <2> QED
      BY <1>3, <2>1, <2>2 DEF Entry
  <1> QED
    BY <1>2, <1>3

LEMMA ThroneStep ==
  ASSUME TypeOK, WindowInv, ThroneInv,
         NEW snap, Follows(snap), NEW rows \in BlockRows(snap), Ingest(snap, rows)
  PROVE  ThroneInv'
  <1>1. /\ \A w \in DOMAIN windows : w \in DOMAIN windows' /\ w \in Nat /\ w <= active.id /\ active.id \in Nat
        /\ DOMAIN windows' = DOMAIN windows \cup {active'.id}
        /\ active' # None /\ active'.id \in Nat
        /\ Turns(snap) => \A w \in DOMAIN windows : w < active'.id
        /\ ~ Turns(snap) => active' = active /\ active # None
        /\ windows'[active'.id].opening = active' /\ windows'[active'.id].decision = None
    BY OldWindows
  <1>2. \A w \in DOMAIN windows :
          /\ windows'[w].opening = windows[w].opening
          /\ w # active.id => windows'[w] = windows[w]
          /\ w = active.id =>
               /\ active # None /\ windows[w].opening = active /\ windows[w].decision = None
               /\ windows'[w].decision = IF Closes(snap) THEN Closing(snap) ELSE None
    BY OldWindows
  <1>3. \A w \in DOMAIN windows, p \in DOMAIN windows : Before(p, w) => Before(p, w)' /\ p # active.id
    <2> SUFFICES ASSUME NEW w \in DOMAIN windows, NEW p \in DOMAIN windows, Before(p, w)
                 PROVE  Before(p, w)' /\ p # active.id
      OBVIOUS
    <2>1. p < w /\ w <= active.id /\ p \in Nat /\ w \in Nat /\ active.id \in Nat
      BY <1>1 DEF Before
    <2>2. \A u \in DOMAIN windows' : u < w => u \in DOMAIN windows
      BY <1>1, <2>1, IngestWindows
    <2> QED
      BY <1>1, <2>1, <2>2 DEF Before
  <1>4. ASSUME NEW w \in DOMAIN windows', windows'[w].opening.king # None
        PROVE  \E p \in DOMAIN windows' :
                 /\ Before(p, w)' /\ windows'[p].decision.king # None
                 /\ windows'[p].decision.king.model = windows'[w].opening.king.model
    <2>1. CASE w \in DOMAIN windows
      <3>1. windows[w].opening.king # None
        BY <1>2, <1>4, <2>1
      <3>2. PICK p \in DOMAIN windows :
              /\ Before(p, w) /\ windows[p].decision.king # None
              /\ windows[p].decision.king.model = windows[w].opening.king.model
        BY <2>1, <3>1 DEF ThroneInv
      <3> QED
        BY <1>1, <1>2, <1>3, <2>1, <3>2
    <2>2. CASE w \notin DOMAIN windows
      <3>1. w = active'.id /\ Turns(snap)
        BY <1>1, <2>2, IngestWindows
      <3>2. King1(snap) # None /\ active'.king.model = King1(snap).model
        BY <1>1, <1>4, <3>1, OpeningKing
      <3>3. Closes(snap)
        BY <3>1, <3>2 DEF King1, Turns, ThroneInv
      <3>4. active.id \in DOMAIN windows
        BY <3>3 DEF Closes, WindowInv
      <3>5. windows'[active.id].decision = Closing(snap) /\ King1(snap) = Closing(snap).king
        BY <1>2, <3>3, <3>4 DEF King1
      <3>6. PICK p \in DOMAIN windows : p = active.id
        BY <3>4
      <3>7. Before(p, w)'
        BY <1>1, <3>1, <3>6 DEF Before
      <3> QED
        BY <1>1, <3>1, <3>2, <3>5, <3>6, <3>7
    <2> QED
      BY <2>1, <2>2
  <1>5. ASSUME NEW w \in DOMAIN windows', windows'[w].decision # None, windows'[w].decision.king # None
        PROVE  LET o == windows'[w].opening
                   d == windows'[w].decision
               IN  \/ o.king # None /\ d.king.model = o.king.model
                   \/ d.king.model \in DOMAIN o.candidates
    <2>1. w \in DOMAIN windows
      BY <1>1, <1>5
    <2>2. CASE w # active.id
      BY <1>2, <1>5, <2>1, <2>2 DEF ThroneInv
    <2>3. CASE w = active.id
      <3>1. /\ active # None /\ windows'[w].opening = active /\ windows'[w].decision = Closing(snap)
            /\ Closing(snap).king # None
        BY <1>2, <1>5, <2>1, <2>3
      <3>2. \/ Closing(snap).king = active.king
            \/ \E m \in DOMAIN active.candidates : Closing(snap).king = active.candidates[m]
        BY <3>1, DecidedKing DEF Closing
      <3>3. \A m \in DOMAIN active.candidates : active.candidates[m].model = m
        BY <3>1 DEF TypeOK, IsOpening
      <3> QED
        BY <3>1, <3>2, <3>3
    <2> QED
      BY <2>2, <2>3
  <1> QED
    BY <1>1, <1>4, <1>5 DEF ThroneInv

LEMMA ThroneInvariant == Spec => []ThroneInv
  <1>1. Init => ThroneInv
    BY DEF Init, ThroneInv
  <1>2. TypeOK /\ WindowInv /\ ThroneInv /\ [Next]_vars => ThroneInv'
    <2> SUFFICES ASSUME TypeOK, WindowInv, ThroneInv, [Next]_vars PROVE ThroneInv'
      OBVIOUS
    <2>1. CASE UNCHANGED vars
      BY <2>1 DEF ThroneInv, Before, vars
    <2>2. CASE Next
      BY <2>2, SomeBlock, ThroneStep DEF Next
    <2> QED
      BY <2>1, <2>2
  <1> QED
    BY <1>1, <1>2, TypeInvariant, WindowInvariant, PTL DEF Spec

(* One throne, whatever the chain brings: no window opens with a king that *)
(* the window before it did not decide, and no decision crowns a hotkey    *)
(* from outside its panel.                                                 *)
THEOREM OneThrone == Spec => []Succession
  <1>1. TypeOK /\ ThroneInv => Succession
    <2> SUFFICES ASSUME TypeOK, ThroneInv PROVE Succession
      OBVIOUS
    <2>1. ASSUME NEW w \in DOMAIN windows, windows[w].opening.king # None
          PROVE  LET past == { u \in DOMAIN windows : u < w }
                     p    == CHOOSE u \in past : \A x \in past : x <= u
                 IN  /\ past # {} /\ windows[p].decision.king # None
                     /\ windows[p].decision.king.model = windows[w].opening.king.model
      <3> DEFINE past == { u \in DOMAIN windows : u < w }
                 p    == CHOOSE u \in past : \A x \in past : x <= u
      <3>1. PICK q \in DOMAIN windows :
              /\ Before(q, w) /\ windows[q].decision.king # None
              /\ windows[q].decision.king.model = windows[w].opening.king.model
        BY <2>1 DEF ThroneInv
      <3>2. q \in past /\ \A x \in past : x <= q
        BY <3>1 DEF Before
      <3>3. p \in past /\ \A x \in past : x <= p
        BY <3>2
      <3>4. p = q
        BY <3>2, <3>3 DEF TypeOK
      <3> QED
        BY <3>1, <3>2, <3>4
    <2> QED
      BY <2>1 DEF Succession, ThroneInv, Closed
  <1> QED
    BY <1>1, TypeInvariant, ThroneInvariant, PTL

-----------------------------------------------------------------------------
(* The panel of a new window. *)

(* An entry of the panel is a binding from before the opening block, of a  *)
(* hotkey that is registered now and has not retired.                      *)
LEMMA EntryBound ==
  ASSUME TypeOK, NEW snap, IsFrame(snap), NEW e \in Entries(snap)
  PROVE  /\ e \in Entry
         /\ \E h \in Hotkey : /\ Bound(snap)[h] # None /\ h \notin Out(snap)
                              /\ e.block = Bound(snap)[h].block /\ e.block < snap.block
                              /\ e.hotkey = Bound(snap)[h].hotkey /\ e.model = Bound(snap)[h].model
  <1>1. Bound(snap) \in [Hotkey -> Entry \cup {None}]
    BY DEF Bound, TypeOK
  <1>2. PICK h \in Hotkey : /\ Bound(snap)[h] # None /\ Bound(snap)[h].block < snap.block
                            /\ h \in DOMAIN snap.uids /\ h \notin Out(snap)
                            /\ e = [Bound(snap)[h] EXCEPT !.uid = snap.uids[h]]
    BY DEF Entries, Admitted
  <1>3. Bound(snap)[h] \in Entry /\ snap.uids[h] \in Uid
    BY <1>1, <1>2 DEF IsFrame
  <1> QED
    BY <1>2, <1>3 DEF Entry

(* The panel lists admitted entries by their model, never the king's.      *)
LEMMA OpeningPanel ==
  ASSUME NEW snap, NEW rows, Ingest(snap, rows), Turns(snap)
  PROVE  /\ active'.start_block = snap.block /\ active'.id = WindowOf(snap.epoch)
         /\ active'.end_epoch = WindowEpochs * (active'.id + 1)
         /\ active'.policy_hash = PolicyFor(active'.id)
         /\ active'.king = ReigningKing(King1(snap), snap)
         /\ \A m \in DOMAIN active'.candidates :
              /\ active'.candidates[m] \in Entries(snap) /\ active'.candidates[m].model = m
              /\ active'.king # None => m # active'.king.model
  <1> DEFINE reigning == ReigningKing(King1(snap), snap)
             chosen   == IF reigning = None THEN Pair(Entries(snap), Last(snap))
                         ELSE { e \in Entries(snap) : e.model # reigning.model }
             panel    == Panel(chosen)
             opening  == [ id |-> WindowOf(snap.epoch), start_block |-> snap.block,
                           end_epoch |-> WindowEpochs * (WindowOf(snap.epoch) + 1),
                           king |-> reigning, candidates |-> panel, policy_hash |-> PolicyFor(WindowOf(snap.epoch)) ]
  <1>1. active' = Opening(snap, WindowOf(snap.epoch), King1(snap), Entries(snap), Last(snap))
    BY IngestParts
  <1>2. active' = opening
    BY <1>1 DEF Opening
  <1>3. \A e \in chosen : e \in Entries(snap) /\ (reigning # None => e.model # reigning.model)
    BY DEF Pair
  <1> HIDE DEF chosen, reigning
  <1>4. \A m \in DOMAIN panel : panel[m] \in chosen /\ panel[m].model = m
    BY DEF Panel
  <1> HIDE DEF panel
  <1> QED
    BY <1>2, <1>3, <1>4 DEF reigning

-----------------------------------------------------------------------------
(* The admission reset. *)

ResetInv ==
  /\ reset = None => \A w \in DOMAIN windows : w < ResetWindow
  /\ reset # None =>
       /\ active # None /\ active.id >= ResetWindow
       /\ reset.block <= snapshot.block
       /\ \A h \in Hotkey : submissions[h] # None => submissions[h].block >= reset.block

(* What is bound by a block is what was bound before it, or bound in it. *)
LEMMA BindingKeeps ==
  ASSUME NEW rows, NEW h, NEW snap, NEW bound
  PROVE  LET b == FirstBinding(rows, h, snap, bound)
         IN  \/ b = bound[h]
             \/ b.block = snap.block /\ b.hotkey = h /\ b.model[1] = h
  BY DEF FirstBinding

LEMMA ResetStep ==
  ASSUME TypeOK, WindowInv, ResetInv,
         NEW snap, Follows(snap), NEW rows \in BlockRows(snap), Ingest(snap, rows)
  PROVE  ResetInv'
  <1>1. /\ DOMAIN windows' = DOMAIN windows \cup {active'.id}
        /\ active' # None /\ active'.id \in Nat /\ active'.id = WindowOf(snap.epoch)
        /\ \A w \in DOMAIN windows : w \in Nat /\ w <= active.id /\ active.id \in Nat
        /\ Turns(snap) => \A w \in DOMAIN windows : w < active'.id
        /\ ~ Turns(snap) => active' = active /\ active # None
        /\ IsFrame(snap) /\ TypeOK'
    BY OldWindows
  <1>2. snap.block = snapshot.block + 1 /\ snapshot' = snap /\ snapshot.block \in Nat
    BY IngestParts DEF TypeOK, IsFrame
  <1>3. ResetWindow \in Nat
    BY LedgerAssumption
  <1>4. ASSUME reset' = None PROVE \A w \in DOMAIN windows' : w < ResetWindow
    <2>1. ~ Resets(snap) /\ reset = None
      BY <1>1, <1>4, ResetMarks, IngestParts
    <2>2. Turns(snap) => active'.id < ResetWindow
      BY <1>1, <1>3, <2>1 DEF Resets
    <2>3. ~ Turns(snap) => active'.id \in DOMAIN windows
      BY <1>1 DEF WindowInv
    <2> QED
      BY <1>1, <2>1, <2>2, <2>3 DEF ResetInv
  <1>5. ASSUME reset' # None
        PROVE  /\ active'.id >= ResetWindow /\ reset'.block <= snap.block
               /\ \A h \in Hotkey : submissions'[h] # None => submissions'[h].block >= reset'.block
    <2>1. submissions' = [h \in Hotkey |-> FirstBinding(rows, h, snap, Bound(snap))]
      BY IngestParts
    <2>2. CASE Resets(snap)
      <3>1. reset' = [window |-> ResetWindow, block |-> snap.block] /\ active'.id >= ResetWindow
        BY <1>1, <2>2, IngestParts DEF Resets
      <3>2. \A h \in Hotkey : Bound(snap)[h] = None
        BY <2>2 DEF Bound
      <3>3. \A h \in Hotkey : submissions'[h] # None => submissions'[h].block = snap.block
        BY <2>1, <3>2, BindingKeeps
      <3> QED
        BY <1>2, <3>1, <3>3
    <2>3. CASE ~ Resets(snap)
      <3>1. reset' = reset
        BY <2>3, IngestParts
      <3>2. active # None /\ active.id >= ResetWindow /\ reset.block <= snapshot.block /\ reset.block \in Nat
        BY <1>5, <3>1 DEF ResetInv, TypeOK, Reset
      <3>3. active'.id >= ResetWindow
        <4>1. active.id \in DOMAIN windows
          BY <3>2 DEF WindowInv
        <4> QED
          BY <1>1, <1>3, <3>2, <4>1
      <3>4. Bound(snap) = submissions
        BY <2>3 DEF Bound
      <3>5. \A h \in Hotkey : submissions[h] # None => submissions[h].block >= reset.block
        BY <1>5, <3>1 DEF ResetInv
      <3>6. ASSUME NEW h \in Hotkey, submissions'[h] # None PROVE submissions'[h].block >= reset.block
        <4>1. submissions'[h] = submissions[h] \/ submissions'[h].block = snap.block
          BY <2>1, <3>4, BindingKeeps
        <4> QED
          BY <1>2, <3>2, <3>5, <3>6, <4>1
      <3> QED
        BY <1>2, <3>1, <3>2, <3>3, <3>6
    <2> QED
      BY <2>2, <2>3
  <1> QED
    BY <1>1, <1>2, <1>4, <1>5 DEF ResetInv

LEMMA ResetInvariant == Spec => []ResetInv
  <1>1. Init => ResetInv
    BY DEF Init, ResetInv
  <1>2. TypeOK /\ WindowInv /\ ResetInv /\ [Next]_vars => ResetInv'
    <2> SUFFICES ASSUME TypeOK, WindowInv, ResetInv, [Next]_vars PROVE ResetInv'
      OBVIOUS
    <2>1. CASE UNCHANGED vars
      BY <2>1 DEF ResetInv, vars
    <2>2. CASE Next
      BY <2>2, SomeBlock, ResetStep DEF Next
    <2> QED
      BY <2>1, <2>2
  <1> QED
    BY <1>1, <1>2, TypeInvariant, WindowInvariant, PTL DEF Spec

(* What the property says of one window. *)
Readmitted(w) ==
  LET o == windows[w].opening
  IN  /\ \A m \in DOMAIN o.candidates : o.candidates[m].block \in reset.block..(o.start_block - 1)
      /\ o.start_block = reset.block /\ Closed(w - 1) =>
           LET k == windows[w - 1].decision.king
           IN  k # None => o.king # None /\ o.king.model = k.model

LEMMA ReadmittedAtReset ==
  ASSUME TypeOK, WindowInv, NEW snap, Follows(snap), NEW rows \in BlockRows(snap), Ingest(snap, rows),
         Resets(snap), NEW w \in DOMAIN windows', w = active'.id
  PROVE  Readmitted(w)'
  <1>1. /\ DOMAIN windows' = DOMAIN windows \cup {active'.id}
        /\ active'.id \in Nat
        /\ \A u \in DOMAIN windows : u \in Nat /\ u <= active.id /\ active.id \in Nat /\ u < active'.id
        /\ windows'[active'.id].opening = active'
        /\ \A u \in DOMAIN windows :
             u = active.id => windows'[u].decision = IF Closes(snap) THEN Closing(snap) ELSE None
        /\ IsFrame(snap)
    BY OldWindows DEF Resets
  <1>2. active.id \in DOMAIN windows \/ active = None
    BY DEF WindowInv
  <1>3. \A m \in DOMAIN active'.candidates : active'.candidates[m] \in Entries(snap)
    BY OpeningPanel DEF Resets
  <1>4. Entries(snap) = {}
    <2>1. \A h \in Hotkey : Bound(snap)[h] = None
      BY DEF Bound
    <2> QED
      BY <1>1, <2>1, EntryBound
  <1>5. ASSUME Closed(w - 1)', windows'[w - 1].decision.king # None
        PROVE  active'.king # None /\ active'.king.model = windows'[w - 1].decision.king.model
    <2>1. w - 1 \in DOMAIN windows
      BY <1>1, <1>5 DEF Closed
    <2>2. w - 1 = active.id /\ active # None
      BY <1>1, <1>2, <2>1 DEF WindowInv
    <2>3. Closes(snap) /\ windows'[w - 1].decision = Closing(snap)
      BY <1>1, <1>5, <2>1, <2>2 DEF Closed
    <2>4. King1(snap) = Closing(snap).king /\ King1(snap) # None
      BY <1>5, <2>3 DEF King1
    <2>5. King1(snap).hotkey \in DOMAIN snap.uids
      BY <2>4, DecidedKing DEF Closing
    <2>6. active'.king = ReigningKing(King1(snap), snap)
      BY OpeningPanel DEF Resets
    <2>7. active'.king = [King1(snap) EXCEPT !.uid = snap.uids[King1(snap).hotkey]]
      BY <2>4, <2>5, <2>6 DEF ReigningKing
    <2>8. King1(snap) \in Entry /\ snap.uids[King1(snap).hotkey] \in Uid
      BY <1>1, <2>4, <2>5, King1Typed DEF IsFrame
    <2>9. active'.king \in Entry /\ active'.king.model = King1(snap).model
      BY <2>7, <2>8 DEF Entry
    <2> QED
      BY <2>3, <2>4, <2>9, ConsensusAssumption
  <1> QED
    BY <1>1, <1>3, <1>4, <1>5 DEF Readmitted

LEMMA ReadmittedLater ==
  ASSUME TypeOK, WindowInv, ResetInv,
         NEW snap, Follows(snap), NEW rows \in BlockRows(snap), Ingest(snap, rows),
         Turns(snap), ~ Resets(snap), reset' # None, NEW w \in DOMAIN windows', w = active'.id
  PROVE  Readmitted(w)'
  <1>1. windows'[w].opening = active' /\ IsFrame(snap)
    BY OldWindows
  <1>2. /\ active'.start_block = snap.block
        /\ \A m \in DOMAIN active'.candidates : active'.candidates[m] \in Entries(snap)
    BY OpeningPanel
  <1>3. reset' = reset /\ reset.block \in Nat /\ reset.block <= snapshot.block /\ snapshot.block \in Nat
    BY IngestParts DEF ResetInv, TypeOK, IsFrame, Reset
  <1>4. snap.block = snapshot.block + 1
    BY IngestParts
  <1>5. ASSUME NEW m \in DOMAIN active'.candidates
        PROVE  active'.candidates[m].block \in reset.block..(snap.block - 1)
    <2>1. Bound(snap) = submissions
      BY DEF Bound
    <2>2. PICK h \in Hotkey :
            /\ submissions[h] # None
            /\ active'.candidates[m].block = submissions[h].block /\ active'.candidates[m].block < snap.block
      BY <1>1, <1>2, <2>1, EntryBound
    <2>3. submissions[h].block >= reset.block /\ submissions[h].block \in Nat
      BY <1>3, <2>2 DEF ResetInv, TypeOK, Entry
    <2> QED
      BY <1>3, <1>4, <2>2, <2>3
  <1> QED
    BY <1>1, <1>2, <1>3, <1>4, <1>5 DEF Readmitted

LEMMA ReadmittedStep ==
  ASSUME TypeOK, WindowInv, ResetInv, ReadmittedAfterReset,
         NEW snap, Follows(snap), NEW rows \in BlockRows(snap), Ingest(snap, rows)
  PROVE  ReadmittedAfterReset'
  <1> SUFFICES ASSUME NEW w \in DOMAIN windows', reset' # None, w >= ResetWindow
               PROVE  Readmitted(w)'
    BY DEF ReadmittedAfterReset, Readmitted
  <1>1. /\ DOMAIN windows' = DOMAIN windows \cup {active'.id}
        /\ active'.id \in Nat
        /\ \A u \in DOMAIN windows : u \in Nat /\ u <= active.id /\ active.id \in Nat
        /\ Turns(snap) => \A u \in DOMAIN windows : u < active'.id
        /\ ~ Turns(snap) => active' = active /\ active # None
        /\ \A u \in DOMAIN windows : /\ windows'[u].opening = windows[u].opening
                                     /\ u # active.id => windows'[u] = windows[u]
    BY OldWindows
  <1>2. CASE w \in DOMAIN windows
    <2>1. ~ Resets(snap)
      BY <1>1, <1>2, LedgerAssumption DEF Resets, ResetInv
    <2>2. reset' = reset
      BY <2>1, IngestParts
    <2>3. Readmitted(w)
      BY <1>2, <2>2 DEF ReadmittedAfterReset, Readmitted
    <2>4. Closed(w - 1)' => Closed(w - 1) /\ windows'[w - 1] = windows[w - 1]
      <3> SUFFICES ASSUME Closed(w - 1)'
                   PROVE  Closed(w - 1) /\ windows'[w - 1] = windows[w - 1]
        OBVIOUS
      <3>1. w - 1 \in DOMAIN windows
        BY <1>1, <1>2, IngestWindows DEF Closed
      <3>2. w - 1 # active.id
        BY <1>1, <1>2
      <3> QED
        BY <1>1, <3>1, <3>2 DEF Closed
    <2> QED
      BY <1>1, <1>2, <2>2, <2>3, <2>4 DEF Readmitted
  <1>3. CASE w \notin DOMAIN windows
    <2>1. w = active'.id /\ Turns(snap)
      BY <1>1, <1>3, IngestWindows
    <2> QED
      BY <2>1, ReadmittedAtReset, ReadmittedLater
  <1> QED
    BY <1>2, <1>3

(* After the single reset a panel holds only hotkeys that committed again, *)
(* strictly before it opened, and the king crosses the reset.              *)
THEOREM ResetStartsAfresh == Spec => []ReadmittedAfterReset
  <1>1. Init => ReadmittedAfterReset
    BY DEF Init, ReadmittedAfterReset
  <1>2. TypeOK /\ WindowInv /\ ResetInv /\ ReadmittedAfterReset /\ [Next]_vars => ReadmittedAfterReset'
    <2> SUFFICES ASSUME TypeOK, WindowInv, ResetInv, ReadmittedAfterReset, [Next]_vars
                 PROVE  ReadmittedAfterReset'
      OBVIOUS
    <2>1. CASE UNCHANGED vars
      BY <2>1 DEF ReadmittedAfterReset, Closed, vars
    <2>2. CASE Next
      BY <2>2, SomeBlock, ReadmittedStep DEF Next
    <2> QED
      BY <2>1, <2>2
  <1> QED
    BY <1>1, <1>2, TypeInvariant, WindowInvariant, ResetInvariant, PTL DEF Spec

-----------------------------------------------------------------------------
(* Attempts and their windows: nothing is recorded for a window that has   *)
(* not opened, and the reset separates the two generations.                *)

UsesInv ==
  /\ \A k \in Key : uses[k] # None =>
       active # None /\ uses[k].window <= active.id /\ (reset # None => uses[k].window >= ResetWindow)
  /\ \A p \in pending : active # None /\ p.window <= active.id
  /\ archive # None => \A k \in Key : archive.uses[k] # None => archive.uses[k].window < ResetWindow

(* What waits after a block waited before it, or is a first accepted row.  *)
LEMMA PendingKeeps ==
  ASSUME NEW snap, NEW rows, Ingest(snap, rows), NEW p \in pending'
  PROVE  \/ p \in pending /\ ~ Resets(snap)
         \/ /\ active'.king = None
            /\ \E i \in Firsts(rows, snap) :
                 p = [evaluator |-> rows[i].hotkey, window |-> active'.id, value |-> rows[i].value]
  <1>1. pending' = PendingAfterRows(rows, Firsts(rows, snap), active', Halves(snap))
    BY IngestParts
  <1>2. \/ p \in Halves(snap)
        \/ /\ active'.king = None
           /\ \E i \in Firsts(rows, snap) :
                p = [evaluator |-> rows[i].hotkey, window |-> active'.id, value |-> rows[i].value]
    BY <1>1 DEF PendingAfterRows
  <1> QED
    BY <1>2 DEF Halves

LEMMA UsesStep ==
  ASSUME TypeOK, WindowInv, ResetInv, UsesInv,
         NEW snap, Follows(snap), NEW rows \in BlockRows(snap), Ingest(snap, rows)
  PROVE  UsesInv'
  <1>1. /\ TypeOK' /\ active' # None /\ active'.id \in Nat /\ IsFrame(snap)
        /\ active # None => active.id \in Nat /\ active.id <= active'.id
    <2>1. active # None => active.id \in DOMAIN windows
      BY DEF WindowInv
    <2> QED
      BY <2>1, OldWindows
  <1>2. ResetWindow \in Nat
    BY LedgerAssumption
  <1>3. reset # None => active # None /\ active.id >= ResetWindow
    BY DEF ResetInv
  <1>4. Resets(snap) => active'.id >= ResetWindow
    BY OldWindows DEF Resets
  <1>5. ASSUME NEW k \in Key, uses'[k] # None
        PROVE  uses'[k].window <= active'.id /\ (reset' # None => uses'[k].window >= ResetWindow)
    <2>1. CASE Resets(snap)
      BY <1>1, <1>4, <1>5, <2>1, IngestUses
    <2>2. CASE ~ Resets(snap)
      <3>1. reset' = reset
        BY <2>2, IngestParts
      <3>2. CASE uses'[k] = uses[k]
        <4>1. uses[k].window \in Nat
          BY <1>5, <3>2 DEF TypeOK, Use
        <4> QED
          BY <1>1, <1>5, <3>1, <3>2, <4>1 DEF UsesInv
      <3>3. CASE uses'[k].window = active'.id
        BY <1>1, <1>2, <1>3, <3>1, <3>3
      <3>4. CASE Closes(snap) /\ uses'[k].window = active.id
        BY <1>1, <1>2, <1>3, <3>1, <3>4 DEF Closes
      <3> QED
        BY <2>2, <3>2, <3>3, <3>4, IngestUses
    <2> QED
      BY <2>1, <2>2
  <1>6. ASSUME NEW p \in pending' PROVE p.window <= active'.id
    <2>1. CASE p \in pending
      BY <1>1, <2>1 DEF UsesInv, TypeOK, Waiting
    <2>2. CASE p.window = active'.id
      BY <1>1, <2>2
    <2> QED
      BY <2>1, <2>2, PendingKeeps
  <1>7. ASSUME archive' # None, NEW k \in Key, archive'.uses[k] # None
        PROVE  archive'.uses[k].window < ResetWindow
    <2>1. CASE ~ Resets(snap)
      BY <1>7, <2>1, IngestParts DEF UsesInv
    <2>2. CASE Resets(snap)
      <3>1. \/ uses[k] # None /\ archive'.uses[k] = uses[k]
            \/ Closes(snap) /\ archive'.uses[k].window = active.id
        BY <1>7, <2>2, IngestUses
      <3>2. active # None /\ archive'.uses[k].window <= active.id
        BY <1>1, <3>1 DEF UsesInv, Closes
      <3>3. active.id < ResetWindow
        BY <2>2, <3>2 DEF Resets, ResetInv, WindowInv
      <3>4. archive'.uses[k].window \in Nat
        BY <1>1, <1>7 DEF TypeOK, Archive, Use
      <3> QED
        BY <1>1, <1>2, <3>2, <3>3, <3>4
    <2> QED
      BY <2>1, <2>2
  <1> QED
    BY <1>1, <1>5, <1>6, <1>7 DEF UsesInv

LEMMA UsesInvariant == Spec => []UsesInv
  <1>1. Init => UsesInv
    BY DEF Init, UsesInv
  <1>2. TypeOK /\ WindowInv /\ ResetInv /\ UsesInv /\ [Next]_vars => UsesInv'
    <2> SUFFICES ASSUME TypeOK, WindowInv, ResetInv, UsesInv, [Next]_vars PROVE UsesInv'
      OBVIOUS
    <2>1. CASE UNCHANGED vars
      BY <2>1 DEF UsesInv, vars
    <2>2. CASE Next
      BY <2>2, SomeBlock, UsesStep DEF Next
    <2> QED
      BY <2>1, <2>2
  <1> QED
    BY <1>1, <1>2, TypeInvariant, WindowInvariant, ResetInvariant, PTL DEF Spec

-----------------------------------------------------------------------------
(* Bindings and openings keep what they were made with. *)

PanelInv ==
  /\ \A h \in Hotkey : submissions[h] # None => submissions[h].hotkey = h /\ submissions[h].model[1] = h
  /\ \A w \in DOMAIN windows :
       LET o == windows[w].opening
       IN  /\ o.id = w /\ o.policy_hash = PolicyFor(w) /\ o.end_epoch = WindowEpochs * (w + 1)
           /\ o.start_block <= snapshot.block
           /\ o.king # None => o.king.model \notin DOMAIN o.candidates
           /\ \A m \in DOMAIN o.candidates : o.candidates[m].hotkey = m[1]
           /\ \A m, n \in DOMAIN o.candidates : m[1] = n[1] => m = n

LEMMA PanelStep ==
  ASSUME TypeOK, WindowInv, PanelInv,
         NEW snap, Follows(snap), NEW rows \in BlockRows(snap), Ingest(snap, rows)
  PROVE  PanelInv'
  <1>1. /\ DOMAIN windows' = DOMAIN windows \cup {active'.id}
        /\ windows'[active'.id].opening = active'
        /\ \A w \in DOMAIN windows : windows'[w].opening = windows[w].opening
        /\ IsFrame(snap) /\ TypeOK'
    BY OldWindows
  <1>2. snapshot' = snap /\ snap.block = snapshot.block + 1 /\ snapshot.block \in Nat
    BY IngestParts DEF TypeOK, IsFrame
  <1>3. ASSUME NEW h \in Hotkey, Bound(snap)[h] # None
        PROVE  Bound(snap)[h].hotkey = h /\ Bound(snap)[h].model[1] = h
    BY <1>3 DEF Bound, PanelInv
  <1>4. ASSUME NEW h \in Hotkey, submissions'[h] # None
        PROVE  submissions'[h].hotkey = h /\ submissions'[h].model[1] = h
    <2>1. submissions'[h] = FirstBinding(rows, h, snap, Bound(snap))
      BY IngestParts
    <2> QED
      BY <1>3, <1>4, <2>1, BindingKeeps
  <1>5. ASSUME NEW w \in DOMAIN windows'
        PROVE  LET o == windows'[w].opening
               IN  /\ o.id = w /\ o.policy_hash = PolicyFor(w) /\ o.end_epoch = WindowEpochs * (w + 1)
                   /\ o.start_block <= snap.block
                   /\ o.king # None => o.king.model \notin DOMAIN o.candidates
                   /\ \A m \in DOMAIN o.candidates : o.candidates[m].hotkey = m[1]
                   /\ \A m, n \in DOMAIN o.candidates : m[1] = n[1] => m = n
    <2>1. CASE w \in DOMAIN windows
      <3>1. windows[w].opening.start_block \in Nat
        BY <2>1 DEF TypeOK, IsOpening, OpeningOf
      <3> QED
        BY <1>1, <1>2, <2>1, <3>1 DEF PanelInv
    <2>2. CASE w \notin DOMAIN windows
      <3>1. w = active'.id /\ Turns(snap) /\ windows'[w].opening = active'
        BY <1>1, <2>2, IngestWindows
      <3>2. ASSUME NEW m \in DOMAIN active'.candidates
            PROVE  /\ active'.candidates[m].hotkey = m[1]
                   /\ m[1] \in Hotkey /\ m = Bound(snap)[m[1]].model
        <4>1. active'.candidates[m] \in Entries(snap) /\ active'.candidates[m].model = m
          BY <3>1, OpeningPanel
        <4>2. PICK h \in Hotkey : /\ Bound(snap)[h] # None
                                  /\ active'.candidates[m].hotkey = Bound(snap)[h].hotkey
                                  /\ active'.candidates[m].model = Bound(snap)[h].model
          BY <1>1, <4>1, EntryBound
        <4> QED
          BY <1>3, <4>1, <4>2
      <3>3. /\ active'.start_block = snap.block /\ active'.policy_hash = PolicyFor(active'.id)
            /\ active'.end_epoch = WindowEpochs * (active'.id + 1)
            /\ active'.king # None => active'.king.model \notin DOMAIN active'.candidates
        BY <3>1, OpeningPanel
      <3>4. \A m, n \in DOMAIN active'.candidates : m[1] = n[1] => m = n
        BY <3>2
      <3> QED
        BY <1>1, <1>2, <3>1, <3>2, <3>3, <3>4
    <2> QED
      BY <2>1, <2>2
  <1> QED
    BY <1>2, <1>4, <1>5 DEF PanelInv

LEMMA PanelInvariant == Spec => []PanelInv
  <1>1. Init => PanelInv
    BY DEF Init, PanelInv
  <1>2. TypeOK /\ WindowInv /\ PanelInv /\ [Next]_vars => PanelInv'
    <2> SUFFICES ASSUME TypeOK, WindowInv, PanelInv, [Next]_vars PROVE PanelInv'
      OBVIOUS
    <2>1. CASE UNCHANGED vars
      BY <2>1 DEF PanelInv, vars
    <2>2. CASE Next
      BY <2>2, SomeBlock, PanelStep DEF Next
    <2> QED
      BY <2>1, <2>2
  <1> QED
    BY <1>1, <1>2, TypeInvariant, WindowInvariant, PTL DEF Spec

-----------------------------------------------------------------------------
(* Bootstrap pairs. *)

(* The rows and the pairs of a block spend only what nothing was spent of. *)
LEMMA BlockUses ==
  ASSUME NEW snap, NEW rows, Ingest(snap, rows), NEW k \in Key
  PROVE  \/ uses'[k] = Uses2(snap)[k]
         \/ Uses2(snap)[k] = None /\ uses'[k].window = active'.id
  <1> DEFINE after1 == UsesAfterRows(rows, Firsts(rows, snap), active', Uses2(snap))
  <1>1. uses' = UsesAfterPanels(active', pending', after1)
    BY IngestParts
  <1>2. after1[k] = Uses2(snap)[k] \/ (Uses2(snap)[k] = None /\ after1[k].window = active'.id)
    BY RowsKeep DEF Firsts
  <1> HIDE DEF after1
  <1>3. uses'[k] = after1[k] \/ (after1[k] = None /\ uses'[k].window = active'.id)
    BY <1>1, PanelsKeep
  <1> QED
    BY <1>2, <1>3

LEMMA FirstAccepted ==
  ASSUME NEW snap, NEW rows, NEW i \in Firsts(rows, snap)
  PROVE  /\ i \in DOMAIN rows /\ IsResult(rows[i])
         /\ rows[i].value.window = active'.id /\ rows[i].value.policy = active'.policy_hash
         /\ rows[i].value.flags \cap {"BASELINE", "EARLY_STOP"} = {}
         /\ rows[i].value.model \in DOMAIN active'.candidates
         /\ active'.candidates[rows[i].value.model].uid = rows[i].value.uid
         /\ rows[i].hotkey \in DOMAIN snap.validators
         /\ Uses2(snap)[<<rows[i].hotkey, active'.candidates[rows[i].value.model].hotkey>>] = None
  BY DEF Firsts, FirstOf, Accepted

(* A half waits only for an attempt that is not spent in another window.   *)
WaitingInv ==
  \A p \in pending :
    /\ "EARLY_STOP" \notin p.value.flags
    /\ p.window = active.id =>
         /\ p.value.model \in DOMAIN active.candidates
         /\ LET u == uses[<<p.evaluator, active.candidates[p.value.model].hotkey>>]
            IN  u = None \/ u.window = active.id

LEMMA CandidateKey ==
  ASSUME NEW o, IsOpening(o), NEW m \in DOMAIN o.candidates, NEW v \in Validator
  PROVE  <<v, o.candidates[m].hotkey>> \in Key
  BY DEF IsOpening, OpeningOf, Entry, Key

LEMMA WaitingStep ==
  ASSUME TypeOK, WindowInv, UsesInv, WaitingInv,
         NEW snap, Follows(snap), NEW rows \in BlockRows(snap), Ingest(snap, rows)
  PROVE  WaitingInv'
  <1>1. /\ TypeOK' /\ active' # None /\ IsFrame(snap) /\ active'.id \in Nat
        /\ Turns(snap) => \A w \in DOMAIN windows : w < active'.id
        /\ ~ Turns(snap) => active' = active
        /\ active # None => active.id \in DOMAIN windows /\ active.id \in Nat
    BY OldWindows DEF WindowInv
  <1>2. IsOpening(active')
    BY <1>1 DEF TypeOK
  <1>3. ASSUME NEW p \in pending'
        PROVE  /\ "EARLY_STOP" \notin p.value.flags
               /\ p.window = active'.id =>
                    /\ p.value.model \in DOMAIN active'.candidates
                    /\ LET u == uses'[<<p.evaluator, active'.candidates[p.value.model].hotkey>>]
                       IN  u = None \/ u.window = active'.id
    <2>1. CASE p \in pending /\ ~ Resets(snap)
      <3>1. "EARLY_STOP" \notin p.value.flags
        BY <2>1 DEF WaitingInv
      <3>2. ASSUME p.window = active'.id
            PROVE  /\ p.value.model \in DOMAIN active'.candidates
                   /\ LET u == uses'[<<p.evaluator, active'.candidates[p.value.model].hotkey>>]
                      IN  u = None \/ u.window = active'.id
        <4>1. active # None /\ p.window <= active.id
          BY <2>1 DEF UsesInv
        <4>2. ~ Turns(snap) /\ active' = active
          BY <1>1, <3>2, <4>1
        <4> DEFINE k == <<p.evaluator, active'.candidates[p.value.model].hotkey>>
        <4>3. p.value.model \in DOMAIN active'.candidates /\ (uses[k] = None \/ uses[k].window = active'.id)
          BY <2>1, <3>2, <4>2 DEF WaitingInv
        <4>4. p.evaluator \in Validator
          BY <2>1 DEF TypeOK, Waiting
        <4>5. k \in Key
          BY <1>2, <4>3, <4>4, CandidateKey
        <4>6. Uses2(snap)[k] = uses[k]
          BY <4>2 DEF Uses2, Uses1, Turns, Resets
        <4> HIDE DEF k
        <4>7. uses'[k] = None \/ uses'[k].window = active'.id
          BY <4>3, <4>5, <4>6, BlockUses
        <4> QED
          BY <4>3, <4>7 DEF k
      <3> QED
        BY <3>1, <3>2
    <2>2. ASSUME NEW i \in Firsts(rows, snap),
                 p = [evaluator |-> rows[i].hotkey, window |-> active'.id, value |-> rows[i].value]
          PROVE  /\ "EARLY_STOP" \notin p.value.flags
                 /\ p.value.model \in DOMAIN active'.candidates
                 /\ LET u == uses'[<<p.evaluator, active'.candidates[p.value.model].hotkey>>]
                    IN  u = None \/ u.window = active'.id
      <3> DEFINE k == <<rows[i].hotkey, active'.candidates[rows[i].value.model].hotkey>>
      <3>1. /\ rows[i].value.flags \cap {"BASELINE", "EARLY_STOP"} = {}
            /\ rows[i].value.model \in DOMAIN active'.candidates
            /\ rows[i].hotkey \in DOMAIN snap.validators
            /\ Uses2(snap)[k] = None
        BY FirstAccepted
      <3>2. k \in Key
        BY <1>1, <1>2, <3>1, CandidateKey DEF IsFrame
      <3> HIDE DEF k
      <3>3. uses'[k] = None \/ uses'[k].window = active'.id
        BY <3>1, <3>2, BlockUses
      <3> QED
        BY <2>2, <3>1, <3>3 DEF k
    <2> QED
      BY <2>1, <2>2, PendingKeeps
  <1> QED
    BY <1>3 DEF WaitingInv

LEMMA WaitingInvariant == Spec => []WaitingInv
  <1>1. Init => WaitingInv
    BY DEF Init, WaitingInv
  <1>2. TypeOK /\ WindowInv /\ UsesInv /\ WaitingInv /\ [Next]_vars => WaitingInv'
    <2> SUFFICES ASSUME TypeOK, WindowInv, UsesInv, WaitingInv, [Next]_vars PROVE WaitingInv'
      OBVIOUS
    <2>1. CASE UNCHANGED vars
      BY <2>1 DEF WaitingInv, vars
    <2>2. CASE Next
      BY <2>2, SomeBlock, WaitingStep DEF Next
    <2> QED
      BY <2>1, <2>2
  <1> QED
    BY <1>1, <1>2, TypeInvariant, WindowInvariant, UsesInvariant, PTL DEF Spec

(* Without a king no bound is ever charged. *)
LEMMA NoBoundWithoutKing ==
  ASSUME NEW rows, NEW history, NEW window, NEW policy, NEW candidates, NEW snap
  PROVE  Decide(rows, history, window, policy, None, candidates, snap).early_losses = {}
  <1> DEFINE votes == ValidVotes(rows, history, window, policy, None, candidates, snap)
  <1>1. \A i \in votes : ~ Is(rows[i], "EARLY_STOP")
    BY DEF ValidVotes, Votes, Terminals
  <1> HIDE DEF votes
  <1>2. ASSUME NEW all
        PROVE  Decision(rows, votes, all, window, None, candidates, snap).early_losses = {}
    BY <1>1 DEF Decision
  <1>3. Decide(rows, history, window, policy, None, candidates, snap)
          = Decision(rows, votes, Aggregates(rows, votes, candidates, snap), window, None, candidates, snap)
    BY DEF Decide, Weighed, votes
  <1> QED
    BY <1>2, <1>3

(* What was spent in a window that is over is spent in it for good. *)
LEMMA SpentStays ==
  ASSUME TypeOK, WindowInv, NEW snap, Follows(snap), NEW rows \in BlockRows(snap), Ingest(snap, rows),
         NEW w \in DOMAIN windows, w # active.id, NEW k \in Key
  PROVE  Spent(k, w)' <=> Spent(k, w)
  <1>1. w # active'.id /\ IsFrame(snap)
    BY OldWindows
  <1>2. CASE Resets(snap)
    <2>1. archive = None /\ archive' # None
      BY <1>1, <1>2, WindowStep, ResetMarks DEF WindowInv, Resets
    <2> QED
      BY <1>1, <1>2, <2>1, IngestUses DEF Spent
  <1>3. CASE ~ Resets(snap)
    BY <1>1, <1>3, IngestUses, IngestParts DEF Spent
  <1> QED
    BY <1>2, <1>3

(* What the close of a window spends in it is what its losses spend. *)
LEMMA SpentAtClose ==
  ASSUME TypeOK, WindowInv, NEW snap, Follows(snap), NEW rows \in BlockRows(snap), Ingest(snap, rows),
         Closes(snap), NEW w \in DOMAIN windows, w = active.id, NEW k \in Key
  PROVE  Spent(k, w)' <=> \/ Uses1(snap)[k] # None /\ Uses1(snap)[k].window = w
                          \/ archive # None /\ archive.uses[k] # None /\ archive.uses[k].window = w
  <1>1. w # active'.id /\ IsFrame(snap)
    BY OldWindows DEF Turns
  <1>2. CASE Resets(snap)
    <2>1. archive = None /\ archive' # None
      BY <1>1, <1>2, WindowStep, ResetMarks DEF WindowInv, Resets
    <2>2. archive'.uses = Uses1(snap)
      BY <1>2, IngestParts
    <2>3. uses'[k] = None \/ uses'[k].window = active'.id
      BY <1>2, IngestUses
    <2> QED
      BY <1>1, <2>1, <2>2, <2>3 DEF Spent
  <1>3. CASE ~ Resets(snap)
    <2>1. archive' = archive /\ Uses2(snap) = Uses1(snap)
      BY <1>3, IngestParts DEF Uses2
    <2>2. uses'[k] = Uses1(snap)[k] \/ (Uses1(snap)[k] = None /\ uses'[k].window = active'.id)
      BY <2>1, BlockUses
    <2> QED
      BY <1>1, <2>1, <2>2 DEF Spent
  <1> QED
    BY <1>2, <1>3

(* A pair of the open window is consumed when an evaluator completed it:   *)
(* both hotkeys or, while a half is missing, none.                         *)
LEMMA PairUses ==
  ASSUME NEW snap, NEW rows, Ingest(snap, rows), active'.king = None, NEW v \in Validator,
         TypeOK', IsOpening(active')
  PROVE  LET Key0(m) == <<v, active'.candidates[m].hotkey>>
         IN  \/ \A m \in DOMAIN active'.candidates :
                  /\ uses'[Key0(m)] # None
                  /\ \E p \in pending' : /\ p.evaluator = v /\ p.window = active'.id
                                         /\ active'.candidates[p.value.model].hotkey
                                              = active'.candidates[m].hotkey
             \/ \A m \in DOMAIN active'.candidates : uses'[Key0(m)] = Uses2(snap)[Key0(m)]
  <1> DEFINE o == active'
             Half(u, m) == { p \in pending' : p.evaluator = u /\ p.window = o.id /\ p.value.model = m }
             Complete(u) == /\ o.king = None /\ Cardinality(DOMAIN o.candidates) = 2
                            /\ \A m \in DOMAIN o.candidates : Half(u, m) # {}
             Mine(k) == { m \in DOMAIN o.candidates : o.candidates[m].hotkey = k[2] }
             Value(k) == (CHOOSE p \in Half(k[1], CHOOSE m \in Mine(k) : TRUE) : TRUE).value
             after1 == UsesAfterRows(rows, Firsts(rows, snap), o, Uses2(snap))
  <1>1. uses' = UsesAfterPanels(o, pending', after1)
    BY IngestParts
  <1>2. \A k \in Key : after1[k] = Uses2(snap)[k]
    BY DEF UsesAfterRows
  <1>3. \A m \in DOMAIN o.candidates : <<v, o.candidates[m].hotkey>> \in Key
    BY CandidateKey
  <1> HIDE DEF after1
  <1>4. uses' = [ k \in Key |-> IF after1[k] = None /\ Mine(k) # {} /\ Complete(k[1])
                                THEN [window |-> o.id, value |-> Value(k)] ELSE after1[k] ]
    BY <1>1 DEF UsesAfterPanels
  <1>5. ASSUME NEW k \in Key, Mine(k) # {}, Complete(k[1])
        PROVE  [window |-> o.id, value |-> Value(k)] # None
    <2>1. (CHOOSE m \in Mine(k) : TRUE) \in DOMAIN o.candidates
      BY <1>5
    <2>2. Half(k[1], CHOOSE m \in Mine(k) : TRUE) # {}
      BY <1>5, <2>1
    <2>3. (CHOOSE p \in Half(k[1], CHOOSE m \in Mine(k) : TRUE) : TRUE) \in pending'
      BY <2>2
    <2>4. Value(k) \in Result /\ o.id \in Nat
      BY <2>3 DEF TypeOK, Waiting, IsOpening, OpeningOf
    <2>5. [window |-> o.id, value |-> Value(k)] \in Use
      BY <2>4 DEF Use
    <2> QED
      BY <2>5, LedgerAssumption
  <1>6. \A m \in DOMAIN o.candidates :
          Complete(v) => \E p \in pending' : p.evaluator = v /\ p.window = o.id /\ p.value.model = m
    OBVIOUS
  <1>7. \A m \in DOMAIN o.candidates :
          LET k == <<v, o.candidates[m].hotkey>>
          IN  k \in Key /\ Mine(k) # {} /\ k[1] = v
    BY <1>3
  <1> HIDE DEF Complete, Mine, Value
  <1>8. \A k \in Key : uses'[k] = IF after1[k] = None /\ Mine(k) # {} /\ Complete(k[1])
                                  THEN [window |-> o.id, value |-> Value(k)] ELSE after1[k]
    BY <1>4
  <1>9. ASSUME ~ Complete(v), NEW m \in DOMAIN o.candidates
        PROVE  uses'[<<v, o.candidates[m].hotkey>>] = Uses2(snap)[<<v, o.candidates[m].hotkey>>]
    BY <1>2, <1>7, <1>8, <1>9
  <1>10. ASSUME Complete(v), NEW m \in DOMAIN o.candidates
         PROVE  /\ uses'[<<v, o.candidates[m].hotkey>>] # None
                /\ \E p \in pending' : /\ p.evaluator = v /\ p.window = o.id
                                       /\ o.candidates[p.value.model].hotkey = o.candidates[m].hotkey
    <2>1. PICK k : k = <<v, o.candidates[m].hotkey>>
      OBVIOUS
    <2>2. k \in Key /\ Mine(k) # {} /\ k[1] = v
      BY <1>7, <2>1
    <2>3. uses'[k] # None
      BY <1>5, <1>8, <1>10, <2>2
    <2> QED
      BY <1>6, <1>10, <2>1, <2>3
  <1> HIDE DEF o
  <1>11. \/ \A m \in DOMAIN o.candidates :
              /\ uses'[<<v, o.candidates[m].hotkey>>] # None
              /\ \E p \in pending' : /\ p.evaluator = v /\ p.window = o.id
                                     /\ o.candidates[p.value.model].hotkey = o.candidates[m].hotkey
         \/ \A m \in DOMAIN o.candidates :
              uses'[<<v, o.candidates[m].hotkey>>] = Uses2(snap)[<<v, o.candidates[m].hotkey>>]
    BY <1>9, <1>10
  <1> QED
    BY <1>11 DEF o

(* What the property says of one window and one evaluator, by challenges.  *)
Whole(w, v) ==
  LET o == windows[w].opening
  IN  o.king = None => \/ \A m \in DOMAIN o.candidates : ~ Spent(<<v, o.candidates[m].hotkey>>, w)
                       \/ \A m \in DOMAIN o.candidates : Spent(<<v, o.candidates[m].hotkey>>, w)

LEMMA WholeWindows ==
  BootstrapAllOrNothing <=> \A w \in DOMAIN windows, v \in Validator : Whole(w, v)
  <1>1. ASSUME NEW w \in DOMAIN windows, NEW v \in Validator
        PROVE  Whole(w, v) <=>
                 LET o    == windows[w].opening
                     pair == { o.candidates[m].hotkey : m \in DOMAIN o.candidates }
                     hit  == { h \in pair : Spent(<<v, h>>, w) }
                 IN  o.king = None => hit = {} \/ hit = pair
    <2> DEFINE o    == windows[w].opening
               pair == { o.candidates[m].hotkey : m \in DOMAIN o.candidates }
               hit  == { h \in pair : Spent(<<v, h>>, w) }
    <2>1. hit = {} <=> \A m \in DOMAIN o.candidates : ~ Spent(<<v, o.candidates[m].hotkey>>, w)
      OBVIOUS
    <2>2. hit = pair <=> \A m \in DOMAIN o.candidates : Spent(<<v, o.candidates[m].hotkey>>, w)
      OBVIOUS
    <2> QED
      BY <2>1, <2>2 DEF Whole
  <1> QED
    BY <1>1 DEF BootstrapAllOrNothing

LEMMA WholeAtClose ==
  ASSUME TypeOK, WindowInv, NEW snap, Follows(snap), NEW rows \in BlockRows(snap), Ingest(snap, rows),
         Closes(snap), NEW w \in DOMAIN windows, w = active.id, NEW v \in Validator, Whole(w, v)
  PROVE  Whole(w, v)'
  <1>1. windows'[w].opening = windows[w].opening /\ windows[w].opening = active
    BY OldWindows
  <1>2. ASSUME active.king = None, NEW k \in Key
        PROVE  Spent(k, w)' <=> Spent(k, w)
    <2>1. Closing(snap).early_losses = {}
      BY <1>2, NoBoundWithoutKing DEF Closing
    <2>2. Uses1(snap)[k] = uses[k]
      BY <2>1 DEF Uses1, UsesAfterLosses
    <2> QED
      BY <2>2, SpentAtClose DEF Spent
  <1>3. \A m \in DOMAIN active.candidates : <<v, active.candidates[m].hotkey>> \in Key
    BY CandidateKey DEF TypeOK, Closes
  <1> QED
    BY <1>1, <1>2, <1>3 DEF Whole

LEMMA WholeWhileOpen ==
  ASSUME TypeOK, WindowInv, ResetInv, UsesInv, BootstrapAllOrNothing, WaitingInv',
         NEW snap, Follows(snap), NEW rows \in BlockRows(snap), Ingest(snap, rows),
         NEW w \in DOMAIN windows', w = active'.id, NEW v \in Validator
  PROVE  Whole(w, v)'
  <1>1. /\ TypeOK' /\ WindowInv' /\ active' # None /\ active'.id \in Nat /\ IsFrame(snap)
        /\ windows'[w].opening = active'
        /\ Turns(snap) => \A u \in DOMAIN windows : u < active'.id
        /\ \A u \in DOMAIN windows : u \in Nat /\ u <= active.id /\ active.id \in Nat
        /\ ~ Turns(snap) => active' = active /\ active # None
    BY OldWindows
  <1>2. IsOpening(active')
    BY <1>1 DEF TypeOK
  <1>3. PICK o : o = active'
    OBVIOUS
  <1>4. \A m \in DOMAIN o.candidates : <<v, o.candidates[m].hotkey>> \in Key
    BY <1>3, <1>2, CandidateKey
  <1> SUFFICES ASSUME active'.king = None
               PROVE  \/ \A m \in DOMAIN o.candidates : ~ Spent(<<v, o.candidates[m].hotkey>>, w)'
                      \/ \A m \in DOMAIN o.candidates : Spent(<<v, o.candidates[m].hotkey>>, w)'
    BY <1>3, <1>1 DEF Whole
  <1>5. CASE \A m \in DOMAIN o.candidates :
               /\ uses'[<<v, o.candidates[m].hotkey>>] # None
               /\ \E p \in pending' : /\ p.evaluator = v /\ p.window = active'.id
                                      /\ o.candidates[p.value.model].hotkey
                                           = o.candidates[m].hotkey
    <2>1. ASSUME NEW m \in DOMAIN o.candidates
          PROVE  Spent(<<v, o.candidates[m].hotkey>>, w)'
      <3>1. PICK p \in pending' :
              /\ p.evaluator = v /\ p.window = active'.id
              /\ o.candidates[p.value.model].hotkey = o.candidates[m].hotkey
        BY <1>5
      <3>2. uses'[<<v, o.candidates[m].hotkey>>].window = active'.id
        BY <1>3, <1>5, <3>1 DEF WaitingInv
      <3> QED
        BY <1>5, <3>2 DEF Spent
    <2> QED
      BY <2>1
  <1>6. CASE \A m \in DOMAIN o.candidates :
               uses'[<<v, o.candidates[m].hotkey>>] = Uses2(snap)[<<v, o.candidates[m].hotkey>>]
    <2>1. CASE ~ Turns(snap)
      <3>1. Uses2(snap) = uses /\ archive' = archive /\ active' = active
        BY <1>1, <2>1, IngestParts DEF Uses2, Uses1, Turns, Resets
      <3>2. w \in DOMAIN windows /\ windows[w].opening = active
        BY <1>1, <2>1 DEF WindowInv
      <3>3. Whole(w, v)
        BY <3>2, WholeWindows
      <3>4. \A m \in DOMAIN o.candidates :
              Spent(<<v, o.candidates[m].hotkey>>, w)' <=> Spent(<<v, o.candidates[m].hotkey>>, w)
        BY <1>6, <3>1 DEF Spent
      <3> QED
        BY <1>3, <3>1, <3>2, <3>3, <3>4 DEF Whole
    <2>2. CASE Turns(snap)
      <3>1. ASSUME NEW k \in Key, uses'[k] = Uses2(snap)[k]
            PROVE  ~ Spent(k, w)'
        <4>1. uses'[k] # None => uses'[k].window # w
          <5>1. ASSUME uses'[k] # None PROVE uses'[k].window # w
            <6>1. Uses1(snap)[k] = uses'[k]
              BY <3>1, <5>1 DEF Uses2
            <6>2. \/ uses[k] # None /\ Uses1(snap)[k] = uses[k]
                  \/ Closes(snap) /\ Uses1(snap)[k].window = active.id
              BY <5>1, <6>1, LossesKeep DEF Uses1
            <6>3. active # None /\ uses'[k].window <= active.id
              BY <1>1, <6>1, <6>2 DEF UsesInv, Closes, WindowInv
            <6>4. uses'[k].window \in Nat /\ active.id < active'.id /\ active.id \in Nat
              BY <1>1, <2>2, <5>1, <6>3 DEF TypeOK, Use, WindowInv
            <6> QED
              BY <1>1, <6>3, <6>4
          <5> QED
            BY <5>1
        <4>2. archive' # None /\ archive'.uses[k] # None => archive'.uses[k].window # w
          <5>1. ResetInv' /\ UsesInv'
            BY ResetStep, UsesStep
          <5> SUFFICES ASSUME archive' # None, archive'.uses[k] # None
                       PROVE  archive'.uses[k].window # w
            OBVIOUS
          <5>2. active'.id >= ResetWindow
            BY <1>1, <5>1 DEF WindowInv, ResetInv
          <5>3. archive'.uses[k].window < ResetWindow /\ archive'.uses[k].window \in Nat
            BY <1>1, <5>1 DEF UsesInv, TypeOK, Archive, Use
          <5> QED
            BY <1>1, <5>2, <5>3, LedgerAssumption
        <4> QED
          BY <4>1, <4>2 DEF Spent
      <3>2. \A k \in Key : uses'[k] = Uses2(snap)[k] => ~ Spent(k, w)'
        BY <3>1
      <3> QED
        BY <1>4, <1>6, <3>2
    <2> QED
      BY <2>1, <2>2
  <1>7. \/ \A m \in DOMAIN o.candidates :
             /\ uses'[<<v, o.candidates[m].hotkey>>] # None
             /\ \E p \in pending' : /\ p.evaluator = v /\ p.window = active'.id
                                    /\ o.candidates[p.value.model].hotkey
                                         = o.candidates[m].hotkey
        \/ \A m \in DOMAIN o.candidates :
             uses'[<<v, o.candidates[m].hotkey>>] = Uses2(snap)[<<v, o.candidates[m].hotkey>>]
    BY <1>3, <1>1, <1>2, PairUses
  <1> QED
    BY <1>5, <1>6, <1>7

LEMMA BootstrapStep ==
  ASSUME TypeOK, WindowInv, ResetInv, UsesInv, WaitingInv, BootstrapAllOrNothing,
         NEW snap, Follows(snap), NEW rows \in BlockRows(snap), Ingest(snap, rows)
  PROVE  BootstrapAllOrNothing'
  <1>1. WaitingInv'
    BY WaitingStep
  <1>2. ASSUME NEW w \in DOMAIN windows', NEW v \in Validator
        PROVE  Whole(w, v)'
    <2>1. CASE w = active'.id
      BY <1>1, <2>1, WholeWhileOpen
    <2>2. CASE w # active'.id
      <3>1. w \in DOMAIN windows /\ windows'[w].opening = windows[w].opening
        BY <2>2, OldWindows
      <3>2. Whole(w, v)
        BY <3>1, WholeWindows
      <3>3. CASE w = active.id
        <4>1. Closes(snap)
          BY <2>2, <3>1, <3>3, OldWindows DEF Turns, WindowInv
        <4> QED
          BY <3>1, <3>2, <3>3, <4>1, WholeAtClose
      <3>4. CASE w # active.id
        <4>1. \A m \in DOMAIN windows[w].opening.candidates :
                <<v, windows[w].opening.candidates[m].hotkey>> \in Key
          BY <3>1, CandidateKey DEF TypeOK
        <4>2. \A k \in Key : Spent(k, w)' <=> Spent(k, w)
          BY <3>1, <3>4, SpentStays
        <4> QED
          BY <3>1, <3>2, <4>1, <4>2 DEF Whole
      <3> QED
        BY <3>3, <3>4
    <2> QED
      BY <2>1, <2>2
  <1>3. (\A w \in DOMAIN windows, v \in Validator : Whole(w, v))'
    BY <1>2
  <1> QED
    BY <1>3, WholeWindows, PTL

(* Bootstrap consumes both hotkeys of a pair or neither, for every         *)
(* evaluator, whatever was spent before, left the subnet or was reset.     *)
THEOREM PairsWhole == Spec => []BootstrapAllOrNothing
  <1>1. Init => BootstrapAllOrNothing
    BY DEF Init, BootstrapAllOrNothing
  <1>2. TypeOK /\ WindowInv /\ ResetInv /\ UsesInv /\ WaitingInv /\ BootstrapAllOrNothing /\ [Next]_vars
          => BootstrapAllOrNothing'
    <2> SUFFICES ASSUME TypeOK, WindowInv, ResetInv, UsesInv, WaitingInv, BootstrapAllOrNothing, [Next]_vars
                 PROVE  BootstrapAllOrNothing'
      OBVIOUS
    <2>1. CASE UNCHANGED vars
      BY <2>1 DEF BootstrapAllOrNothing, Spent, vars
    <2>2. CASE Next
      BY <2>2, SomeBlock, BootstrapStep DEF Next
    <2> QED
      BY <2>1, <2>2
  <1> QED
    BY <1>1, <1>2, TypeInvariant, WindowInvariant, ResetInvariant, UsesInvariant, WaitingInvariant, PTL DEF Spec

-----------------------------------------------------------------------------
(* What a decision weighs. *)

(* A vote that weighs for a challenge is a result of the history, by an    *)
(* evaluator with stake, that is no baseline.                              *)
LEMMA VotesCounted ==
  ASSUME NEW rows, NEW history, NEW window, NEW policy, NEW holder, NEW candidates, NEW snap,
         NEW i \in ValidVotes(rows, history, window, policy, holder, candidates, snap)
  PROVE  /\ i \in history /\ IsResult(rows[i]) /\ ~ Is(rows[i], "BASELINE")
         /\ rows[i].value.model \in DOMAIN candidates
         /\ rows[i].hotkey \in DOMAIN snap.validators
  <1>1. i \in Measured(rows, Counted(rows, history, window, policy, snap), candidates)
    BY DEF ValidVotes, Votes, Terminals
  <1> QED
    BY <1>1 DEF Measured, Counted

LEMMA AggregateBounded ==
  ASSUME NEW rows, NEW votes, NEW snap
  PROVE  Aggregate(rows, votes, snap).bounded <=> \E i \in votes : Is(rows[i], "EARLY_STOP")
  <1>1. Aggregate(rows, votes, snap).bounded = (\E i \in votes : Is(rows[i], "EARLY_STOP"))
    BY Zenon DEF Aggregate
  <1> QED
    BY <1>1

LEMMA AggregateEvaluators ==
  ASSUME NEW rows, NEW votes, NEW snap
  PROVE  Aggregate(rows, votes, snap).evaluators = { rows[i].hotkey : i \in votes }
  BY Zenon DEF Aggregate

(* Who stands in an aggregate cast a vote for its challenge; the aggregate *)
(* is bounded as soon as one of these votes is a bound; and a bound that   *)
(* is not left open is charged as a loss.                                  *)
LEMMA DecidedAggregates ==
  ASSUME NEW rows, NEW history, NEW window, NEW policy, NEW holder, NEW candidates, NEW snap
  PROVE  LET votes == ValidVotes(rows, history, window, policy, holder, candidates, snap)
             all   == Aggregates(rows, votes, candidates, snap)
             d     == Decide(rows, history, window, policy, holder, candidates, snap)
         IN  /\ \A m \in DOMAIN d.aggregates :
                  /\ m \in DOMAIN candidates /\ m \in DOMAIN all /\ d.aggregates[m] = all[m]
                  /\ \A v \in d.aggregates[m].evaluators :
                       \E i \in votes : rows[i].hotkey = v /\ rows[i].value.model = m
                  /\ \A i \in votes : rows[i].value.model = m =>
                       /\ rows[i].hotkey \in d.aggregates[m].evaluators
                       /\ Is(rows[i], "EARLY_STOP") => all[m].bounded
                       /\ Is(rows[i], "EARLY_STOP") /\ m \notin d.inconclusive => rows[i] \in d.early_losses
             /\ \A row \in d.early_losses :
                  /\ row.value.model \notin d.inconclusive
                  /\ \E i \in votes : row = rows[i] /\ Is(rows[i], "EARLY_STOP")
  <1> DEFINE votes == ValidVotes(rows, history, window, policy, holder, candidates, snap)
             all   == Aggregates(rows, votes, candidates, snap)
             d     == Decide(rows, history, window, policy, holder, candidates, snap)
             For(m) == { i \in votes : rows[i].value.model = m }
             lost  == { m \in DOMAIN all : Lost(all[m]) }
             kept  == { m \in DOMAIN all : ~ TooPoor(all[m]) }
             open  == { m \in kept : all[m].bounded /\ Improves(all[m]) }
  <1>1. /\ d.inconclusive = open
        /\ d.early_losses = { rows[i] : i \in { j \in votes : rows[j].value.model \in lost
                                                              /\ Is(rows[j], "EARLY_STOP") } }
        /\ d.aggregates = [ m \in kept |-> all[m] ]
    BY DEF Decide, Weighed, Decision
  <1>2. ASSUME NEW m \in DOMAIN all
        PROVE  /\ m \in DOMAIN candidates
               /\ all[m].bounded <=> \E i \in For(m) : Is(rows[i], "EARLY_STOP")
               /\ all[m].evaluators = { rows[i].hotkey : i \in For(m) }
    <2>1. all[m] = Aggregate(rows, For(m), snap) /\ m \in DOMAIN candidates
      BY DEF Aggregates
    <2> HIDE DEF all, For
    <2>2. all[m].bounded <=> \E i \in For(m) : Is(rows[i], "EARLY_STOP")
      BY <2>1, AggregateBounded
    <2>3. all[m].evaluators = { rows[i].hotkey : i \in For(m) }
      BY <2>1, AggregateEvaluators
    <2> QED
      BY <2>1, <2>2, <2>3
  <1> HIDE DEF votes, all, d
  <1>3. lost \cap open = {}
    BY DEF Lost
  <1>4. \A m \in kept \ open : all[m].bounded => m \in lost
    BY DEF Lost
  <1> HIDE DEF lost, open
  <1>5. ASSUME NEW m \in DOMAIN d.aggregates
        PROVE  /\ m \in DOMAIN candidates /\ m \in DOMAIN all /\ d.aggregates[m] = all[m]
               /\ \A v \in d.aggregates[m].evaluators :
                    \E i \in votes : rows[i].hotkey = v /\ rows[i].value.model = m
               /\ \A i \in votes : rows[i].value.model = m =>
                    /\ rows[i].hotkey \in d.aggregates[m].evaluators
                    /\ Is(rows[i], "EARLY_STOP") => all[m].bounded
                    /\ Is(rows[i], "EARLY_STOP") /\ m \notin d.inconclusive => rows[i] \in d.early_losses
    BY <1>1, <1>2, <1>4
  <1>6. ASSUME NEW row \in d.early_losses
        PROVE  /\ row.value.model \notin d.inconclusive
               /\ \E i \in votes : row = rows[i] /\ Is(rows[i], "EARLY_STOP")
    BY <1>1, <1>3
  <1> QED
    BY <1>5, <1>6 DEF d, all, votes

(* A vote of the open window is about an attempt that is unspent, or spent *)
(* in this very window; a bound excepted, it is the recorded result.       *)
LEMMA VoteUse ==
  ASSUME NEW snap, NEW i \in VotingHistory(active, snap.block), ~ Is(commitments[i], "BASELINE")
  PROVE  /\ commitments[i].hotkey \in Validator
         /\ LET use == uses[<<commitments[i].hotkey, active.candidates[commitments[i].value.model].hotkey>>]
            IN  \/ Is(commitments[i], "EARLY_STOP") /\ (use = None \/ use.window = active.id)
                \/ use # None /\ use.window = active.id /\ use.value = commitments[i].value
  BY DEF VotingHistory

(* What a charged loss records. *)
LEMMA LossCharged ==
  ASSUME TypeOK, NEW snap, Closes(snap), NEW k \in Key, uses[k] = None
  PROVE  LET lost == { row \in Closing(snap).early_losses :
                         row.hotkey = k[1] /\ active.candidates[row.value.model].hotkey = k[2] }
         IN  /\ lost # {} => Uses1(snap)[k] # None
             /\ Uses1(snap)[k] # None => /\ Uses1(snap)[k].window = active.id
                                         /\ \E row \in lost : Uses1(snap)[k].value = row.value
  <1> DEFINE losses == Closing(snap).early_losses
             lost   == { row \in losses : row.hotkey = k[1] /\ active.candidates[row.value.model].hotkey = k[2] }
             picked == CHOOSE row \in lost : TRUE
  <1>1. Uses1(snap)[k] = IF lost # {} THEN [window |-> active.id, value |-> picked.value] ELSE None
    BY DEF Uses1, UsesAfterLosses
  <1>2. ASSUME NEW row \in losses PROVE row.value \in Result
    <2>1. PICK i \in VotingHistory(active, snap.block) : row = commitments[i] /\ IsResult(commitments[i])
      BY DecidedLossesTyped DEF Closing
    <2>2. commitments[i] \in Row
      <3>1. commitments \in Seq(Row)
        BY DEF TypeOK
      <3>2. i \in DOMAIN commitments
        BY <2>1 DEF VotingHistory
      <3> QED
        BY <3>1, <3>2
    <2> QED
      BY <2>1, <2>2, ReportedTyped
  <1>3. active.id \in Nat
    BY DEF TypeOK, Closes, IsOpening, OpeningOf
  <1> HIDE DEF losses
  <1>4. lost # {} => picked \in lost /\ picked.value \in Result
    BY <1>2
  <1> HIDE DEF lost, picked
  <1>5. lost # {} => [window |-> active.id, value |-> picked.value] # None
    BY <1>3, <1>4, LedgerAssumption DEF Use
  <1>6. /\ lost # {} => Uses1(snap)[k] # None
        /\ Uses1(snap)[k] # None => /\ Uses1(snap)[k].window = active.id
                                    /\ \E row \in lost : Uses1(snap)[k].value = row.value
    BY <1>1, <1>4, <1>5
  <1> QED
    BY <1>6 DEF lost, losses

(* Where a new entry of the table comes from: a first accepted row while a *)
(* king reigns, a half of a complete pair otherwise.                       *)
LEMMA BlockUseValue ==
  ASSUME NEW snap, NEW rows, Ingest(snap, rows), NEW k \in Key
  PROVE  \/ uses'[k] = Uses2(snap)[k]
         \/ /\ active'.king # None
            /\ \E i \in Firsts(rows, snap) :
                 /\ rows[i].hotkey = k[1] /\ active'.candidates[rows[i].value.model].hotkey = k[2]
                 /\ uses'[k] = [window |-> active'.id, value |-> rows[i].value]
         \/ /\ active'.king = None
            /\ \E p \in pending' : uses'[k] = [window |-> active'.id, value |-> p.value]
  <1> DEFINE o == active'
             mine == { i \in Firsts(rows, snap) :
                         rows[i].hotkey = k[1] /\ o.candidates[rows[i].value.model].hotkey = k[2] }
             picked == CHOOSE i \in mine : TRUE
             after1 == UsesAfterRows(rows, Firsts(rows, snap), o, Uses2(snap))
             Half(u, m) == { p \in pending' : p.evaluator = u /\ p.window = o.id /\ p.value.model = m }
             Complete(u) == /\ o.king = None /\ Cardinality(DOMAIN o.candidates) = 2
                            /\ \A m \in DOMAIN o.candidates : Half(u, m) # {}
             Mine == { m \in DOMAIN o.candidates : o.candidates[m].hotkey = k[2] }
             half == CHOOSE p \in Half(k[1], CHOOSE m \in Mine : TRUE) : TRUE
  <1>1. uses' = UsesAfterPanels(o, pending', after1)
    BY IngestParts
  <1>2. after1[k] = IF o.king # None /\ mine # {}
                    THEN [window |-> o.id, value |-> rows[picked].value] ELSE Uses2(snap)[k]
    BY DEF UsesAfterRows
  <1>3. mine # {} => picked \in mine
    OBVIOUS
  <1> HIDE DEF after1
  <1>4. uses'[k] = IF after1[k] = None /\ Mine # {} /\ Complete(k[1])
                   THEN [window |-> o.id, value |-> half.value] ELSE after1[k]
    BY <1>1 DEF UsesAfterPanels
  <1>5. Mine # {} /\ Complete(k[1]) => half \in pending' /\ o.king = None
    <2> SUFFICES ASSUME Mine # {}, Complete(k[1]) PROVE half \in pending' /\ o.king = None
      OBVIOUS
    <2>1. (CHOOSE m \in Mine : TRUE) \in DOMAIN o.candidates
      OBVIOUS
    <2>2. Half(k[1], CHOOSE m \in Mine : TRUE) # {}
      BY <2>1
    <2> QED
      BY <2>2
  <1>6. \A i \in mine : /\ i \in Firsts(rows, snap) /\ rows[i].hotkey = k[1]
                        /\ o.candidates[rows[i].value.model].hotkey = k[2]
    OBVIOUS
  <1> HIDE DEF o, mine, picked, Complete, Mine, half
  <1>7. \/ uses'[k] = Uses2(snap)[k]
        \/ /\ o.king # None
           /\ \E i \in Firsts(rows, snap) :
                /\ rows[i].hotkey = k[1] /\ o.candidates[rows[i].value.model].hotkey = k[2]
                /\ uses'[k] = [window |-> o.id, value |-> rows[i].value]
        \/ /\ o.king = None
           /\ \E p \in pending' : uses'[k] = [window |-> o.id, value |-> p.value]
    BY <1>2, <1>3, <1>4, <1>5, <1>6
  <1> QED
    BY <1>7 DEF o

(* Nothing is spent in a window before it opens. *)
LEMMA NewWindowUnused ==
  ASSUME TypeOK, WindowInv, UsesInv, NEW snap, Follows(snap), NEW rows \in BlockRows(snap), Ingest(snap, rows),
         Turns(snap), NEW k \in Key, Uses2(snap)[k] # None
  PROVE  Uses2(snap)[k].window # active'.id
  <1>1. /\ active'.id \in Nat
        /\ \A w \in DOMAIN windows : w \in Nat /\ w < active'.id
        /\ active # None => active.id \in DOMAIN windows
    BY OldWindows DEF WindowInv
  <1>2. Uses2(snap)[k] = Uses1(snap)[k]
    BY DEF Uses2
  <1>3. \/ uses[k] # None /\ Uses1(snap)[k] = uses[k]
        \/ Closes(snap) /\ Uses1(snap)[k].window = active.id
    BY <1>2, LossesKeep DEF Uses1
  <1>4. CASE uses[k] # None /\ Uses1(snap)[k] = uses[k]
    <2>1. active # None /\ uses[k].window <= active.id /\ uses[k].window \in Nat
      BY <1>4 DEF UsesInv, TypeOK, Use
    <2> QED
      BY <1>1, <1>2, <1>4, <2>1
  <1>5. CASE Closes(snap) /\ Uses1(snap)[k].window = active.id
    BY <1>1, <1>2, <1>5 DEF Closes
  <1> QED
    BY <1>3, <1>4, <1>5

(* No bound is spent in a window that is still open. *)
OpenTerminal ==
  \A k \in Key : uses[k] # None /\ uses[k].window = active.id => ~ Is(uses[k], "EARLY_STOP")

LEMMA OpenTerminalStep ==
  ASSUME TypeOK, WindowInv, UsesInv, WaitingInv, OpenTerminal,
         NEW snap, Follows(snap), NEW rows \in BlockRows(snap), Ingest(snap, rows)
  PROVE  OpenTerminal'
  <1>1. WaitingInv' /\ TypeOK'
    BY WaitingStep, OldWindows
  <1>2. ASSUME NEW k \in Key, uses'[k] # None, uses'[k].window = active'.id
        PROVE  "EARLY_STOP" \notin uses'[k].value.flags
    <2>1. CASE uses'[k] = Uses2(snap)[k]
      <3>1. ~ Turns(snap)
        BY <1>2, <2>1, NewWindowUnused
      <3>2. Uses2(snap) = uses /\ active' = active
        BY <3>1, IngestParts DEF Uses2, Uses1, Turns, Resets
      <3> QED
        BY <1>2, <2>1, <3>2 DEF OpenTerminal, Is
    <2>2. ASSUME NEW i \in Firsts(rows, snap), uses'[k] = [window |-> active'.id, value |-> rows[i].value]
          PROVE  "EARLY_STOP" \notin uses'[k].value.flags
      <3>1. rows[i].value.flags \cap {"BASELINE", "EARLY_STOP"} = {}
        BY FirstAccepted
      <3> QED
        BY <2>2, <3>1
    <2>3. ASSUME NEW p \in pending', uses'[k] = [window |-> active'.id, value |-> p.value]
          PROVE  "EARLY_STOP" \notin uses'[k].value.flags
      <3>1. "EARLY_STOP" \notin p.value.flags
        BY <1>1 DEF WaitingInv
      <3>2. uses'[k].value = p.value
        BY <2>3
      <3> QED
        BY <3>1, <3>2
    <2> QED
      BY <2>1, <2>2, <2>3, BlockUseValue
  <1> QED
    BY <1>2 DEF OpenTerminal, Is

LEMMA OpenTerminalInvariant == Spec => []OpenTerminal
  <1>1. Init => OpenTerminal
    BY DEF Init, OpenTerminal
  <1>2. TypeOK /\ WindowInv /\ UsesInv /\ WaitingInv /\ OpenTerminal /\ [Next]_vars => OpenTerminal'
    <2> SUFFICES ASSUME TypeOK, WindowInv, UsesInv, WaitingInv, OpenTerminal, [Next]_vars PROVE OpenTerminal'
      OBVIOUS
    <2>1. CASE UNCHANGED vars
      BY <2>1 DEF OpenTerminal, vars
    <2>2. CASE Next
      BY <2>2, SomeBlock, OpenTerminalStep DEF Next
    <2> QED
      BY <2>1, <2>2
  <1> QED
    BY <1>1, <1>2, TypeInvariant, WindowInvariant, UsesInvariant, WaitingInvariant, PTL DEF Spec

(* Who weighed a challenge conclusively has spent its attempt in that      *)
(* window, and a challenger that is crowned was weighed conclusively.      *)
VoteInv ==
  \A w \in DOMAIN windows : Closed(w) =>
    LET d == windows[w].decision
        o == windows[w].opening
    IN  /\ \A m \in DOMAIN d.aggregates : \A v \in d.aggregates[m].evaluators :
             m \notin d.inconclusive => <<v, m[1]>> \in Key /\ Spent(<<v, m[1]>>, w)
        /\ d.king # None /\ d.king.model \in DOMAIN o.candidates =>
             d.king.model \in DOMAIN d.aggregates \ d.inconclusive /\ d.king.hotkey = d.king.model[1]

LEMMA VotesSpend ==
  ASSUME TypeOK, WindowInv, PanelInv,
         NEW snap, Follows(snap), NEW rows \in BlockRows(snap), Ingest(snap, rows), Closes(snap),
         NEW m \in DOMAIN Closing(snap).aggregates, m \notin Closing(snap).inconclusive,
         NEW v \in Closing(snap).aggregates[m].evaluators, NEW w \in DOMAIN windows, w = active.id
  PROVE  <<v, m[1]>> \in Key /\ Spent(<<v, m[1]>>, w)'
  <1> DEFINE history == VotingHistory(active, snap.block)
             votes   == ValidVotes(commitments, history, active.id, active.policy_hash,
                                   active.king, active.candidates, snap)
             k == <<v, m[1]>>
  <1>1. /\ m \in DOMAIN active.candidates
        /\ \E i \in votes : commitments[i].hotkey = v /\ commitments[i].value.model = m
        /\ \A i \in votes : commitments[i].value.model = m =>
             (Is(commitments[i], "EARLY_STOP") => commitments[i] \in Closing(snap).early_losses)
    BY DecidedAggregates DEF Closing
  <1>2. PICK i \in votes : commitments[i].hotkey = v /\ commitments[i].value.model = m
    BY <1>1
  <1>3. i \in history /\ ~ Is(commitments[i], "BASELINE")
    BY VotesCounted
  <1>4. active.candidates[m].hotkey = m[1] /\ active.candidates[m].hotkey \in Hotkey
    <2>1. windows[w].opening = active
      BY OldWindows
    <2> QED
      BY <1>1, <2>1 DEF PanelInv, TypeOK, IsOpening, OpeningOf, Entry
  <1>5. /\ v \in Validator
        /\ \/ Is(commitments[i], "EARLY_STOP") /\ (uses[k] = None \/ uses[k].window = active.id)
           \/ uses[k] # None /\ uses[k].window = active.id
    BY <1>2, <1>3, <1>4, VoteUse
  <1>6. k \in Key
    BY <1>4, <1>5 DEF Key
  <1>7. Uses1(snap)[k] # None /\ Uses1(snap)[k].window = active.id
    <2>1. CASE uses[k] # None
      BY <1>5, <1>6, <2>1, LossesKeep DEF Uses1
    <2>2. CASE uses[k] = None
      <3>1. /\ commitments[i] \in Closing(snap).early_losses
            /\ commitments[i].hotkey = k[1]
            /\ active.candidates[commitments[i].value.model].hotkey = k[2]
        BY <1>1, <1>2, <1>4, <1>5, <2>2
      <3> HIDE DEF k
      <3> QED
        BY <1>6, <2>2, <3>1, LossCharged
    <2> QED
      BY <2>1, <2>2
  <1> HIDE DEF k
  <1>8. Spent(k, w)'
    BY <1>6, <1>7, SpentAtClose
  <1> QED
    BY <1>6, <1>8 DEF k

(* Only a bounded aggregate is left inconclusive. *)
LEMMA OpenBounded ==
  ASSUME NEW rows, NEW history, NEW window, NEW policy, NEW holder, NEW candidates, NEW snap,
         NEW m \in Decide(rows, history, window, policy, holder, candidates, snap).inconclusive
  PROVE  Decide(rows, history, window, policy, holder, candidates, snap).aggregates[m].bounded
  <1> DEFINE votes == ValidVotes(rows, history, window, policy, holder, candidates, snap)
             all   == Aggregates(rows, votes, candidates, snap)
             d     == Decide(rows, history, window, policy, holder, candidates, snap)
             kept  == { n \in DOMAIN all : ~ TooPoor(all[n]) }
             open  == { n \in kept : all[n].bounded /\ Improves(all[n]) }
  <1>1. d.inconclusive = open /\ d.aggregates = [ n \in kept |-> all[n] ]
    BY DEF Decide, Weighed, Decision
  <1> HIDE DEF all, d
  <1>2. m \in open => d.aggregates[m].bounded
    BY <1>1
  <1> QED
    BY <1>1, <1>2 DEF d

LEMMA VoteStep ==
  ASSUME TypeOK, WindowInv, PanelInv, VoteInv,
         NEW snap, Follows(snap), NEW rows \in BlockRows(snap), Ingest(snap, rows)
  PROVE  VoteInv'
  <1> SUFFICES ASSUME NEW w \in DOMAIN windows', windows'[w].decision # None
               PROVE  LET d == windows'[w].decision
                          o == windows'[w].opening
                      IN  /\ \A m \in DOMAIN d.aggregates : \A v \in d.aggregates[m].evaluators :
                               m \notin d.inconclusive => <<v, m[1]>> \in Key /\ Spent(<<v, m[1]>>, w)'
                          /\ d.king # None /\ d.king.model \in DOMAIN o.candidates =>
                               /\ d.king.model \in DOMAIN d.aggregates \ d.inconclusive
                               /\ d.king.hotkey = d.king.model[1]
    BY DEF VoteInv, Closed
  <1>1. w \in DOMAIN windows /\ windows'[w].opening = windows[w].opening
    BY OldWindows
  <1>2. CASE w # active.id
    <2>1. windows'[w] = windows[w]
      BY <1>1, <1>2, OldWindows
    <2>2. \A k \in Key : Spent(k, w)' <=> Spent(k, w)
      BY <1>1, <1>2, SpentStays
    <2> QED
      BY <1>1, <2>1, <2>2 DEF VoteInv, Closed
  <1>3. CASE w = active.id
    <2>1. Closes(snap) /\ windows'[w].decision = Closing(snap) /\ windows[w].opening = active /\ active # None
      BY <1>1, <1>3, OldWindows
    <2>2. ASSUME NEW m \in DOMAIN Closing(snap).aggregates, NEW v \in Closing(snap).aggregates[m].evaluators,
                 m \notin Closing(snap).inconclusive
          PROVE  <<v, m[1]>> \in Key /\ Spent(<<v, m[1]>>, w)'
      BY <1>1, <1>3, <2>1, <2>2, VotesSpend
    <2>3. ASSUME Closing(snap).king # None, Closing(snap).king.model \in DOMAIN active.candidates
          PROVE  /\ Closing(snap).king.model \in DOMAIN Closing(snap).aggregates \ Closing(snap).inconclusive
                 /\ Closing(snap).king.hotkey = Closing(snap).king.model[1]
      <3>1. active.king # None => active.king.model \notin DOMAIN active.candidates
        BY <1>1, <2>1 DEF PanelInv
      <3>2. PICK m \in DOMAIN active.candidates :
              /\ Closing(snap).king = active.candidates[m] /\ m \in DOMAIN Closing(snap).aggregates
              /\ ~ Closing(snap).aggregates[m].bounded
        BY <2>3, <3>1, DecidedKing, DecidedAggregates DEF Closing
      <3>3. m \notin Closing(snap).inconclusive
        BY <3>2, OpenBounded DEF Closing
      <3>4. active.candidates[m].model = m /\ active.candidates[m].hotkey = m[1]
        BY <1>1, <2>1 DEF PanelInv, TypeOK, IsOpening
      <3> QED
        BY <3>2, <3>3, <3>4
    <2> QED
      BY <1>1, <2>1, <2>2, <2>3
  <1> QED
    BY <1>2, <1>3

LEMMA VoteInvariant == Spec => []VoteInv
  <1>1. Init => VoteInv
    BY DEF Init, VoteInv
  <1>2. TypeOK /\ WindowInv /\ PanelInv /\ VoteInv /\ [Next]_vars => VoteInv'
    <2> SUFFICES ASSUME TypeOK, WindowInv, PanelInv, VoteInv, [Next]_vars PROVE VoteInv'
      OBVIOUS
    <2>1. CASE UNCHANGED vars
      BY <2>1 DEF VoteInv, Closed, Spent, vars
    <2>2. CASE Next
      BY <2>2, SomeBlock, VoteStep DEF Next
    <2> QED
      BY <2>1, <2>2
  <1> QED
    BY <1>1, <1>2, TypeInvariant, WindowInvariant, PanelInvariant, PTL DEF Spec

(* A crown is measured: every evaluator in the winner's aggregate has      *)
(* spent its attempt on the winner in that window.                         *)
THEOREM CrownIsSpent == Spec => []CrownedByTerminalResults
  <1>1. VoteInv => CrownedByTerminalResults
    BY DEF VoteInv, CrownedByTerminalResults
  <1> QED
    BY <1>1, VoteInvariant, PTL

-----------------------------------------------------------------------------
(* A bound that stays open costs nothing. *)

LEMMA UnresolvedStep ==
  ASSUME TypeOK, WindowInv, UsesInv, WaitingInv, OpenTerminal, UnresolvedBoundKeepsAttempt,
         NEW snap, Follows(snap), NEW rows \in BlockRows(snap), Ingest(snap, rows)
  PROVE  UnresolvedBoundKeepsAttempt'
  <1> SUFFICES ASSUME NEW w \in DOMAIN windows', NEW k \in Key, windows'[w].decision # None,
                      uses'[k] # None, uses'[k].window = w, Is(uses'[k], "EARLY_STOP")
               PROVE  uses'[k].value.model \notin windows'[w].decision.inconclusive
    BY DEF UnresolvedBoundKeepsAttempt, Closed, Is
  <1>1. w \in DOMAIN windows /\ w # active'.id
    BY OldWindows
  <1>2. uses'[k] = Uses2(snap)[k]
    BY <1>1, BlockUses
  <1>3. uses'[k] = Uses1(snap)[k]
    BY <1>2 DEF Uses2
  <1>4. CASE w # active.id
    <2>1. windows'[w] = windows[w]
      BY <1>1, <1>4, OldWindows
    <2>2. uses'[k] = uses[k]
      BY <1>3, <1>4, LossesKeep DEF Uses1
    <2> QED
      BY <1>1, <2>1, <2>2 DEF UnresolvedBoundKeepsAttempt, Closed
  <1>5. CASE w = active.id
    <2>1. Closes(snap) /\ windows'[w].decision = Closing(snap)
      BY <1>1, <1>5, OldWindows
    <2>2. uses[k] = None
      <3>1. uses[k] # None => Uses1(snap)[k] = uses[k]
        BY LossesKeep DEF Uses1
      <3> QED
        BY <1>3, <1>5, <3>1 DEF OpenTerminal
    <2>3. PICK row \in Closing(snap).early_losses : uses'[k].value = row.value
      BY <1>3, <2>1, <2>2, LossCharged
    <2>4. row.value.model \notin Closing(snap).inconclusive
      BY DecidedAggregates DEF Closing
    <2> QED
      BY <2>1, <2>3, <2>4
  <1> QED
    BY <1>4, <1>5

(* An early stop the window leaves unresolved never consumes the attempt.  *)
THEOREM UnresolvedIsFree == Spec => []UnresolvedBoundKeepsAttempt
  <1>1. Init => UnresolvedBoundKeepsAttempt
    BY DEF Init, UnresolvedBoundKeepsAttempt
  <1>2. TypeOK /\ WindowInv /\ UsesInv /\ WaitingInv /\ OpenTerminal /\ UnresolvedBoundKeepsAttempt /\ [Next]_vars
          => UnresolvedBoundKeepsAttempt'
    <2> SUFFICES ASSUME TypeOK, WindowInv, UsesInv, WaitingInv, OpenTerminal, UnresolvedBoundKeepsAttempt,
                        [Next]_vars
                 PROVE  UnresolvedBoundKeepsAttempt'
      OBVIOUS
    <2>1. CASE UNCHANGED vars
      BY <2>1 DEF UnresolvedBoundKeepsAttempt, Closed, vars
    <2>2. CASE Next
      BY <2>2, SomeBlock, UnresolvedStep DEF Next
    <2> QED
      BY <2>1, <2>2
  <1> QED
    BY <1>1, <1>2, TypeInvariant, WindowInvariant, UsesInvariant, WaitingInvariant, OpenTerminalInvariant,
       PTL DEF Spec

-----------------------------------------------------------------------------
(* One conclusive vote. *)

(* Two closed windows weigh the same evaluator's results for a challenge   *)
(* only if the earlier one left it unresolved.                             *)
Apart(w1, w2) ==
  \A m \in DOMAIN windows[w1].decision.aggregates \cap DOMAIN windows[w2].decision.aggregates :
    windows[w1].decision.aggregates[m].evaluators \cap windows[w2].decision.aggregates[m].evaluators # {}
      => m \in windows[w1].decision.inconclusive

LEMMA ApartAtClose ==
  ASSUME TypeOK, WindowInv, ResetInv, UsesInv, PanelInv, VoteInv,
         NEW snap, Follows(snap), NEW rows \in BlockRows(snap), Ingest(snap, rows), Closes(snap),
         NEW w2 \in DOMAIN windows, w2 = active.id, NEW w1 \in DOMAIN windows, Closed(w1), w1 < w2,
         reset # None => w1 >= ResetWindow
  PROVE  Apart(w1, w2)'
  <1>1. windows'[w1] = windows[w1] /\ windows'[w2].decision = Closing(snap) /\ windows[w2].opening = active
    BY OldWindows
  <1> SUFFICES ASSUME NEW m \in DOMAIN windows[w1].decision.aggregates, m \in DOMAIN Closing(snap).aggregates,
                      NEW v \in windows[w1].decision.aggregates[m].evaluators,
                      v \in Closing(snap).aggregates[m].evaluators,
                      m \notin windows[w1].decision.inconclusive
               PROVE  FALSE
    BY <1>1 DEF Apart
  <1> DEFINE votes == ValidVotes(commitments, VotingHistory(active, snap.block), active.id, active.policy_hash,
                                 active.king, active.candidates, snap)
             k == <<v, m[1]>>
  <1>2. k \in Key /\ Spent(k, w1)
    BY DEF VoteInv
  <1>3. m \in DOMAIN active.candidates /\ \E i \in votes : commitments[i].hotkey = v /\ commitments[i].value.model = m
    BY DecidedAggregates DEF Closing
  <1>4. PICK i \in votes : commitments[i].hotkey = v /\ commitments[i].value.model = m
    BY <1>3
  <1>5. active.candidates[m].hotkey = m[1]
    BY <1>1, <1>3 DEF PanelInv
  <1>6. i \in VotingHistory(active, snap.block) /\ ~ Is(commitments[i], "BASELINE")
    BY VotesCounted
  <1>7. uses[k] = None \/ uses[k].window = active.id
    BY <1>4, <1>5, <1>6, VoteUse
  <1>8. w1 \in Nat /\ w2 \in Nat
    BY DEF TypeOK
  <1> HIDE DEF k
  <1>9. archive # None /\ archive.uses[k] # None /\ archive.uses[k].window = w1
    BY <1>2, <1>7, <1>8 DEF Spent
  <1>10. w1 < ResetWindow
    BY <1>2, <1>9 DEF UsesInv
  <1>11. w1 >= ResetWindow
    BY <1>9 DEF WindowInv
  <1> QED
    BY <1>8, <1>10, <1>11, LedgerAssumption

LEMMA OneVoteStep ==
  ASSUME TypeOK, WindowInv, ResetInv, UsesInv, PanelInv, VoteInv, OneConclusiveVote,
         NEW snap, Follows(snap), NEW rows \in BlockRows(snap), Ingest(snap, rows)
  PROVE  OneConclusiveVote'
  <1> SUFFICES ASSUME NEW w1 \in DOMAIN windows', NEW w2 \in DOMAIN windows',
                      windows'[w1].decision # None, windows'[w2].decision # None, w1 < w2,
                      reset' = None \/ w2 < ResetWindow \/ w1 >= ResetWindow
               PROVE  Apart(w1, w2)'
    BY DEF OneConclusiveVote, Closed, Apart
  <1>1. /\ w1 \in DOMAIN windows /\ w2 \in DOMAIN windows
        /\ w1 \in Nat /\ w2 \in Nat /\ active.id \in Nat /\ w2 <= active.id
        /\ IsFrame(snap)
    BY OldWindows
  <1>2. w1 # active.id /\ windows'[w1] = windows[w1] /\ Closed(w1)
    <2>1. w1 # active.id
      BY <1>1
    <2>2. windows'[w1] = windows[w1]
      BY <1>1, <2>1, OldWindows
    <2> QED
      BY <1>1, <2>1, <2>2 DEF Closed
  <1>3. reset' = None => reset = None
    BY <1>1, IngestParts, ResetMarks
  <1>4. CASE w2 # active.id
    <2>1. windows'[w2] = windows[w2]
      BY <1>1, <1>4, OldWindows
    <2>2. Apart(w1, w2)
      BY <1>1, <1>2, <1>3, <2>1 DEF OneConclusiveVote, Closed, Apart
    <2> QED
      BY <1>2, <2>1, <2>2 DEF Apart
  <1>5. CASE w2 = active.id
    <2>1. Closes(snap)
      BY <1>1, <1>5, OldWindows
    <2>2. reset # None => w1 >= ResetWindow
      <3>1. ASSUME reset # None PROVE w1 >= ResetWindow
        <4>1. active.id >= ResetWindow
          BY <3>1 DEF ResetInv
        <4>2. reset' # None
          BY <3>1, IngestParts DEF Resets
        <4> QED
          BY <1>1, <1>5, <4>1, <4>2, LedgerAssumption
      <3> QED
        BY <3>1
    <2> QED
      BY <1>1, <1>2, <1>5, <2>1, <2>2, ApartAtClose
  <1> QED
    BY <1>4, <1>5

(* An evaluator's second measurement of a hotkey weighs only if its first  *)
(* was a bound the network left open, or the reset lies between them.      *)
THEOREM OneVote == Spec => []OneConclusiveVote
  <1>1. Init => OneConclusiveVote
    BY DEF Init, OneConclusiveVote
  <1>2. TypeOK /\ WindowInv /\ ResetInv /\ UsesInv /\ PanelInv /\ VoteInv /\ OneConclusiveVote /\ [Next]_vars
          => OneConclusiveVote'
    <2> SUFFICES ASSUME TypeOK, WindowInv, ResetInv, UsesInv, PanelInv, VoteInv, OneConclusiveVote, [Next]_vars
                 PROVE  OneConclusiveVote'
      OBVIOUS
    <2>1. CASE UNCHANGED vars
      BY <2>1 DEF OneConclusiveVote, Closed, vars
    <2>2. CASE Next
      BY <2>2, SomeBlock, OneVoteStep DEF Next
    <2> QED
      BY <2>1, <2>2
  <1> QED
    BY <1>1, <1>2, TypeInvariant, WindowInvariant, ResetInvariant, UsesInvariant, PanelInvariant, VoteInvariant,
       PTL DEF Spec

-----------------------------------------------------------------------------
(* The chain behind the tables: what was finalized is not in the future,   *)
(* a result is about a window that had opened and carries its policy, and  *)
(* while a king reigns each use of the open window has the row it records. *)

Backs(i, k) ==
  LET v == commitments[i].value
  IN  /\ IsResult(commitments[i])
      /\ commitments[i].hotkey = k[1] /\ v = uses[k].value
      /\ v.window = active.id /\ v.policy = active.policy_hash
      /\ v.flags \cap {"BASELINE", "EARLY_STOP"} = {}
      /\ v.model \in DOMAIN active.candidates
      /\ active.candidates[v.model].uid = v.uid
      /\ active.candidates[v.model].hotkey = k[2]

ChainInv ==
  /\ \A i \in DOMAIN commitments :
       /\ commitments[i].block <= snapshot.block
       /\ IsResult(commitments[i]) =>
            LET w == commitments[i].value.window
            IN  /\ w \in DOMAIN windows /\ commitments[i].value.policy = PolicyFor(w)
                /\ commitments[i].block >= windows[w].opening.start_block
  /\ active # None /\ active.king # None =>
       \A k \in Key : uses[k] # None /\ uses[k].window = active.id =>
         \E i \in DOMAIN commitments : Backs(i, k)

(* A result reported in a block is about a window already open, under the  *)
(* policy of that window.                                                  *)
LEMMA BlockReports ==
  ASSUME TypeOK, NEW snap, IsFrame(snap), NEW rows \in BlockRows(snap), NEW i \in DOMAIN rows
  PROVE  /\ rows[i].block = snap.block
         /\ IsResult(rows[i]) => /\ rows[i].value.window \in DOMAIN windows
                                 /\ rows[i].value.policy = PolicyFor(rows[i].value.window)
  <1>1. rows[i] \in Submitting(snap) \cup Reporting(snap)
    BY DEF BlockRows
  <1>2. ASSUME NEW w \in DOMAIN windows, NEW m, NEW uid, NEW shapes, rows[i] \in Reports(snap, w, m, uid, shapes)
        PROVE  rows[i].block = snap.block /\ rows[i].value.window = w /\ rows[i].value.policy = PolicyFor(w)
    BY <1>2 DEF Reports
  <1>3. ASSUME NEW w \in DOMAIN windows, NEW shapes, rows[i] \in OfPanel(snap, w, shapes) \cup OfKing(snap, w, shapes)
        PROVE  \E m, uid : rows[i] \in Reports(snap, w, m, uid, shapes)
    BY <1>3 DEF OfPanel, OfKing
  <1>4. CASE rows[i] \in Submitting(snap)
    BY <1>4 DEF Submitting, IsResult
  <1>5. CASE rows[i] \in Reporting(snap)
    <2>1. \E w \in DOMAIN windows : \E shapes : rows[i] \in OfPanel(snap, w, shapes) \cup OfKing(snap, w, shapes)
      BY <1>5 DEF Reporting
    <2> QED
      BY <1>2, <1>3, <2>1
  <1> QED
    BY <1>1, <1>4, <1>5

(* A row of the chain, after a block. *)
LEMMA ChainGrows ==
  ASSUME TypeOK, NEW snap, IsFrame(snap), NEW rows \in BlockRows(snap), Ingest(snap, rows)
  PROVE  /\ \A i \in DOMAIN commitments : i \in DOMAIN commitments' /\ commitments'[i] = commitments[i]
         /\ \A i \in DOMAIN rows : \E j \in DOMAIN commitments' : commitments'[j] = rows[i]
         /\ \A j \in DOMAIN commitments' :
              j \in DOMAIN commitments \/ \E i \in DOMAIN rows : commitments'[j] = rows[i]
  <1>1. commitments' = commitments \o rows /\ commitments \in Seq(Row) /\ rows \in Seq(Row)
    BY RowsTyped, IngestParts DEF TypeOK
  <1>2. \A i \in DOMAIN rows : Len(commitments) + i \in DOMAIN commitments' /\ commitments'[Len(commitments) + i] = rows[i]
    BY <1>1
  <1>3. \A j \in DOMAIN commitments' :
          j \in DOMAIN commitments \/ (j - Len(commitments) \in DOMAIN rows /\ commitments'[j] = rows[j - Len(commitments)])
    BY <1>1
  <1>4. \A i \in DOMAIN commitments : i \in DOMAIN commitments' /\ commitments'[i] = commitments[i]
    BY <1>1
  <1> QED
    BY <1>2, <1>3, <1>4

(* A use recorded by this block under a reigning king has its row in it. *)
LEMMA BackedInBlock ==
  ASSUME TypeOK, NEW snap, IsFrame(snap), NEW rows \in BlockRows(snap), Ingest(snap, rows),
         NEW i \in Firsts(rows, snap), NEW k \in Key, rows[i].hotkey = k[1],
         active'.candidates[rows[i].value.model].hotkey = k[2],
         uses'[k] = [window |-> active'.id, value |-> rows[i].value]
  PROVE  (\E j \in DOMAIN commitments : Backs(j, k))'
  <1>1. /\ i \in DOMAIN rows /\ IsResult(rows[i])
        /\ rows[i].value.window = active'.id /\ rows[i].value.policy = active'.policy_hash
        /\ rows[i].value.flags \cap {"BASELINE", "EARLY_STOP"} = {}
        /\ rows[i].value.model \in DOMAIN active'.candidates
        /\ active'.candidates[rows[i].value.model].uid = rows[i].value.uid
    BY DEF Firsts, FirstOf, Accepted
  <1>2. PICK j \in DOMAIN commitments' : commitments'[j] = rows[i]
    BY <1>1, ChainGrows
  <1>3. uses'[k].value = rows[i].value
    OBVIOUS
  <1>4. Backs(j, k)'
    BY <1>1, <1>2, <1>3 DEF Backs, IsResult
  <1> QED
    BY <1>4

LEMMA ChainStep ==
  ASSUME TypeOK, WindowInv, UsesInv, PanelInv, ChainInv,
         NEW snap, Follows(snap), NEW rows \in BlockRows(snap), Ingest(snap, rows)
  PROVE  ChainInv'
  <1>1. /\ DOMAIN windows' = DOMAIN windows \cup {active'.id}
        /\ \A w \in DOMAIN windows : windows'[w].opening = windows[w].opening
        /\ IsFrame(snap) /\ TypeOK'
    BY OldWindows
  <1>2. snapshot' = snap /\ snap.block = snapshot.block + 1 /\ snapshot.block \in Nat
    BY IngestParts DEF TypeOK, IsFrame
  <1>3. \A w \in DOMAIN windows : windows[w].opening.start_block \in Nat /\ windows[w].opening.start_block <= snapshot.block
    BY DEF TypeOK, IsOpening, OpeningOf, PanelInv
  <1>4. ASSUME NEW j \in DOMAIN commitments'
        PROVE  /\ commitments'[j].block <= snap.block
               /\ IsResult(commitments'[j]) =>
                    LET w == commitments'[j].value.window
                    IN  /\ w \in DOMAIN windows' /\ commitments'[j].value.policy = PolicyFor(w)
                        /\ commitments'[j].block >= windows'[w].opening.start_block
    <2>1. CASE j \in DOMAIN commitments
      <3>1. commitments'[j] = commitments[j]
        BY <1>1, <2>1, ChainGrows
      <3>2. commitments[j].block \in Nat
        <4>1. commitments \in Seq(Row)
          BY DEF TypeOK
        <4>2. commitments[j] \in Row
          BY <2>1, <4>1
        <4> QED
          BY <4>2 DEF Row
      <3> QED
        BY <1>1, <1>2, <2>1, <3>1, <3>2 DEF ChainInv
    <2>2. ASSUME NEW i \in DOMAIN rows, commitments'[j] = rows[i]
          PROVE  /\ rows[i].block <= snap.block
                 /\ IsResult(rows[i]) =>
                      LET w == rows[i].value.window
                      IN  /\ w \in DOMAIN windows' /\ rows[i].value.policy = PolicyFor(w)
                          /\ rows[i].block >= windows'[w].opening.start_block
      <3>1. rows[i].block = snap.block
        BY <1>1, BlockReports
      <3>2. IsResult(rows[i]) =>
              rows[i].value.window \in DOMAIN windows /\ rows[i].value.policy = PolicyFor(rows[i].value.window)
        BY <1>1, BlockReports
      <3> QED
        BY <1>1, <1>2, <1>3, <3>1, <3>2
    <2> QED
      BY <1>1, <2>1, <2>2, ChainGrows
  <1>5. ASSUME active'.king # None, NEW k \in Key, uses'[k] # None, uses'[k].window = active'.id
        PROVE  \E i \in DOMAIN commitments' : Backs(i, k)'
    <2>1. CASE uses'[k] = Uses2(snap)[k]
      <3>1. ~ Turns(snap)
        BY <1>5, <2>1, NewWindowUnused
      <3>2. Uses2(snap) = uses /\ active' = active /\ active # None
        BY <3>1, IngestParts DEF Uses2, Uses1, Turns, Resets
      <3>3. PICK i \in DOMAIN commitments : Backs(i, k)
        BY <1>5, <2>1, <3>2 DEF ChainInv
      <3>4. i \in DOMAIN commitments' /\ commitments'[i] = commitments[i] /\ uses'[k] = uses[k]
        BY <1>1, <2>1, <3>2, ChainGrows
      <3> QED
        BY <3>2, <3>3, <3>4 DEF Backs
    <2>2. ASSUME NEW i \in Firsts(rows, snap), rows[i].hotkey = k[1],
                 active'.candidates[rows[i].value.model].hotkey = k[2],
                 uses'[k] = [window |-> active'.id, value |-> rows[i].value]
          PROVE  \E j \in DOMAIN commitments' : Backs(j, k)'
      BY <1>1, <2>2, BackedInBlock
    <2> QED
      BY <1>5, <2>1, <2>2, BlockUseValue
  <1> QED
    BY <1>2, <1>4, <1>5 DEF ChainInv

LEMMA ChainInvariant == Spec => []ChainInv
  <1>1. Init => ChainInv
    BY DEF Init, ChainInv
  <1>2. TypeOK /\ WindowInv /\ UsesInv /\ PanelInv /\ ChainInv /\ [Next]_vars => ChainInv'
    <2> SUFFICES ASSUME TypeOK, WindowInv, UsesInv, PanelInv, ChainInv, [Next]_vars PROVE ChainInv'
      OBVIOUS
    <2>1. CASE UNCHANGED vars
      BY <2>1 DEF ChainInv, Backs, vars
    <2>2. CASE Next
      BY <2>2, SomeBlock, ChainStep DEF Next
    <2> QED
      BY <2>1, <2>2
  <1> QED
    BY <1>1, <1>2, TypeInvariant, WindowInvariant, UsesInvariant, PanelInvariant, PTL DEF Spec

LEMMA LeastIndex ==
  ASSUME NEW T \in SUBSET Nat, T # {}
  PROVE  \E x \in T : \A y \in T : ~ (y < x)
  <1>1. \E x \in T : \A y \in T : ~ (<<y, x>> \in OpToRel(<, Nat))
    BY WFMin, NatLessThanWellFounded
  <1> QED
    BY <1>1 DEF OpToRel

-----------------------------------------------------------------------------
(* Every measurement weighs. *)

(* A row behind a use of the open window votes under the standing panel.   *)
LEMMA BackedMeasured ==
  ASSUME TypeOK, WindowInv, PanelInv, ChainInv, NEW snap, snap.block = snapshot.block + 1,
         active # None, NEW k \in Key, uses[k] # None, uses[k].window = active.id,
         k[1] \in DOMAIN snap.validators, snap.validators[k[1]] > 0,
         NEW i \in DOMAIN commitments, Backs(i, k)
  PROVE  LET history == VotingHistory(active, snap.block)
             counted == Counted(commitments, history, active.id, active.policy_hash, snap)
         IN  i \in Measured(commitments, counted, active.candidates)
  <1> DEFINE row     == commitments[i]
             history == VotingHistory(active, snap.block)
             counted == Counted(commitments, history, active.id, active.policy_hash, snap)
  <1>1. /\ IsResult(row) /\ row.hotkey = k[1] /\ row.value = uses[k].value
        /\ row.value.window = active.id /\ row.value.policy = active.policy_hash
        /\ row.value.flags \cap {"BASELINE", "EARLY_STOP"} = {}
        /\ row.value.model \in DOMAIN active.candidates
        /\ active.candidates[row.value.model].uid = row.value.uid
        /\ active.candidates[row.value.model].hotkey = k[2]
    BY DEF Backs
  <1>2. row.block >= active.start_block /\ row.block < snap.block
    <2>1. row.block <= snapshot.block /\ row.block >= windows[active.id].opening.start_block
      BY <1>1 DEF ChainInv
    <2>2. commitments \in Seq(Row) /\ snapshot.block \in Nat
      BY DEF TypeOK, IsFrame
    <2>3. row \in Row
      BY <2>2
    <2> QED
      BY <2>1, <2>2, <2>3 DEF WindowInv, Row
  <1>3. row.hotkey \in Validator /\ k = <<row.hotkey, active.candidates[row.value.model].hotkey>>
    BY <1>1 DEF Key
  <1>4. i \in history
    BY <1>1, <1>2, <1>3 DEF VotingHistory
  <1> HIDE DEF history
  <1>5. i \in counted
    BY <1>1, <1>4 DEF Counted
  <1> HIDE DEF counted
  <1>6. i \in Measured(commitments, counted, active.candidates)
    BY <1>1, <1>5 DEF Measured, Is
  <1> QED
    BY <1>6 DEF counted, history

(* Of the rows of one evaluator about one hotkey, what votes as a terminal *)
(* result is what the table of uses holds.                                 *)
LEMMA TerminalUse ==
  ASSUME TypeOK, PanelInv, WindowInv, active # None, NEW snap, NEW k \in Key, uses[k] # None, uses[k].window = active.id,
         NEW i \in Measured(commitments, Counted(commitments, VotingHistory(active, snap.block), active.id,
                                                 active.policy_hash, snap), active.candidates),
         commitments[i].hotkey = k[1], active.candidates[commitments[i].value.model].hotkey = k[2],
         ~ Is(commitments[i], "EARLY_STOP")
  PROVE  commitments[i].value = uses[k].value
  <1>1. i \in VotingHistory(active, snap.block) /\ ~ Is(commitments[i], "BASELINE")
    BY DEF Measured, Counted
  <1>2. k = <<commitments[i].hotkey, active.candidates[commitments[i].value.model].hotkey>>
    BY DEF Key
  <1> QED
    BY <1>1, <1>2, VoteUse

(* The first of them is the terminal one. *)
LEMMA FirstTerminal ==
  ASSUME TypeOK, PanelInv, WindowInv, active # None, NEW snap, NEW k \in Key, uses[k] # None, uses[k].window = active.id,
         NEW measured \in SUBSET DOMAIN commitments,
         measured = Measured(commitments, Counted(commitments, VotingHistory(active, snap.block), active.id,
                                                  active.policy_hash, snap), active.candidates),
         NEW i \in measured, Backs(i, k)
  PROVE  \E j \in Terminals(commitments, measured) :
           commitments[j].hotkey = k[1] /\ commitments[j].value = uses[k].value
  <1> DEFINE T == { j \in measured : /\ commitments[j].hotkey = k[1]
                                     /\ commitments[j].value.model = uses[k].value.model
                                     /\ ~ Is(commitments[j], "EARLY_STOP") }
  <1>1. i \in T
    BY DEF Backs, Is
  <1>2. T \in SUBSET Nat
    <2>1. commitments \in Seq(Row)
      BY DEF TypeOK
    <2> QED
      BY <2>1
  <1>3. PICK j \in T : \A l \in T : ~ (l < j)
    BY <1>1, <1>2, LeastIndex
  <1>4. j \in Terminals(commitments, measured)
    BY <1>3 DEF Terminals, SameKey
  <1>5. active.candidates[commitments[j].value.model].hotkey = k[2]
    BY <1>3 DEF Backs
  <1>6. commitments[j].value = uses[k].value
    BY <1>3, <1>5, TerminalUse
  <1> QED
    BY <1>3, <1>4, <1>6

(* The vote behind a use agrees with the baseline it was compared with.    *)
LEMMA BaselineCounted ==
  ASSUME TypeOK, WindowInv, PanelInv, ChainInv, NEW snap, snap.block = snapshot.block + 1,
         active # None, active.king # None, NEW w \in DOMAIN windows, w = active.id,
         NEW k \in Key, Comparable(k, w),
         k[1] \in DOMAIN snap.validators, snap.validators[k[1]] > 0,
         NEW i \in DOMAIN commitments, commitments[i].hotkey = k[1], commitments[i].value = uses[k].value
  PROVE  BaselineAgrees(commitments, Counted(commitments, VotingHistory(active, snap.block), active.id,
                                             active.policy_hash, snap), active.king, i)
  <1> DEFINE history == VotingHistory(active, snap.block)
             counted == Counted(commitments, history, active.id, active.policy_hash, snap)
             Ours(j) == /\ commitments[j].hotkey = k[1] /\ IsResult(commitments[j])
                        /\ Is(commitments[j], "BASELINE") /\ commitments[j].value.window = w
                        /\ commitments[j].value.model = active.king.model
  <1>1. windows[w].opening = active /\ active.policy_hash = PolicyFor(w) /\ w = active.id
    BY DEF WindowInv, PanelInv
  <1>2. PICK b \in DOMAIN commitments :
          /\ Ours(b) /\ \A j \in 1..(b - 1) : ~ Ours(j)
          /\ Is(commitments[b], "CONTROLS_OK") /\ ~ Is(commitments[b], "REJECTED")
          /\ commitments[b].value.quality = uses[k].value.king_quality
          /\ commitments[b].value.reward = uses[k].value.king_reward
    BY <1>1 DEF Comparable
  <1>3. commitments \in Seq(Row) /\ snapshot.block \in Nat
    BY DEF TypeOK, IsFrame
  <1>4. commitments[b].block >= active.start_block /\ commitments[b].block < snap.block
    <2>1. commitments[b].block <= snapshot.block /\ commitments[b].block >= windows[w].opening.start_block
      BY <1>2 DEF ChainInv
    <2>2. commitments[b] \in Row
      BY <1>3
    <2> QED
      BY <1>1, <1>3, <2>1, <2>2 DEF Row
  <1>5. commitments[b].value.policy = active.policy_hash
    BY <1>1, <1>2 DEF ChainInv
  <1>6. b \in history
    BY <1>2, <1>4 DEF VotingHistory
  <1>7. counted \in SUBSET DOMAIN commitments
    BY DEF Counted, VotingHistory
  <1> HIDE DEF history
  <1>8. b \in counted
    BY <1>1, <1>2, <1>5, <1>6 DEF Counted
  <1>9. \A j \in counted : IsResult(commitments[j]) /\ commitments[j].value.window = w
    BY <1>1 DEF Counted
  <1> HIDE DEF counted
  <1>10. ASSUME NEW j \in counted, j < b, Is(commitments[j], "BASELINE"), commitments[j].hotkey = k[1],
                commitments[j].value.model = active.king.model
         PROVE  FALSE
    <2>1. j \in 1..(b - 1)
      BY <1>3, <1>7, <1>10
    <2> QED
      BY <1>2, <1>9, <1>10, <2>1
  <1>11. BaselineAgrees(commitments, counted, active.king, i)
    BY <1>2, <1>8, <1>10 DEF BaselineAgrees
  <1> QED
    BY <1>11 DEF counted, history

LEMMA WeighedStep ==
  ASSUME TypeOK, WindowInv, PanelInv, ChainInv,
         NEW snap, Follows(snap), NEW rows \in BlockRows(snap), Ingest(snap, rows),
         NEW w \in DOMAIN windows, NEW k \in Key
  PROVE  WeighedAtClose(w, k)
  <1> DEFINE history  == VotingHistory(active, snap.block)
             counted  == Counted(commitments, history, active.id, active.policy_hash, snap)
             measured == Measured(commitments, counted, active.candidates)
             votes    == ValidVotes(commitments, history, active.id, active.policy_hash,
                                    active.king, active.candidates, snap)
             m        == uses[k].value.model
  <1> SUFFICES ASSUME windows[w].decision = None, windows'[w].decision # None, windows[w].opening.king # None,
                      uses[k] # None, uses[k].window = w, Is(uses[k], "CONTROLS_OK"), Comparable(k, w),
                      k[1] \in DOMAIN snapshot'.validators, snapshot'.validators[k[1]] > 0,
                      m \in DOMAIN windows'[w].decision.aggregates
               PROVE  k[1] \in windows'[w].decision.aggregates[m].evaluators
    BY DEF WeighedAtClose, Closed
  <1>1. snapshot' = snap /\ snap.block = snapshot.block + 1
    BY IngestParts
  <1>2. w = active.id /\ active # None /\ windows[w].opening = active /\ windows'[w].decision = Closing(snap)
    BY OldWindows
  <1>3. PICK i \in DOMAIN commitments : Backs(i, k)
    BY <1>2 DEF ChainInv
  <1>4. i \in measured
    BY <1>1, <1>2, <1>3, BackedMeasured
  <1>5. measured \in SUBSET DOMAIN commitments
    BY DEF Measured, Counted, VotingHistory
  <1>6. PICK j \in Terminals(commitments, measured) :
          commitments[j].hotkey = k[1] /\ commitments[j].value = uses[k].value
    <2> HIDE DEF measured
    <2>1. measured = Measured(commitments, counted, active.candidates)
      BY DEF measured
    <2> QED
      BY <1>2, <1>3, <1>4, <1>5, <2>1, FirstTerminal
  <1>7. j \in DOMAIN commitments
    BY <1>5 DEF Terminals
  <1>8. BaselineAgrees(commitments, counted, active.king, j)
    BY <1>1, <1>2, <1>6, <1>7, BaselineCounted
  <1>9. j \in votes
    <2>1. Is(commitments[j], "CONTROLS_OK")
      BY <1>6 DEF Is
    <2>2. j \in Votes(commitments, measured, active.king)
      BY <1>6, <2>1 DEF Votes
    <2> HIDE DEF measured, counted, history
    <2>3. votes = { l \in Votes(commitments, measured, active.king) :
                      BaselineAgrees(commitments, counted, active.king, l) }
      BY <1>2 DEF ValidVotes, measured, counted
    <2> HIDE DEF votes
    <2> QED
      BY <1>8, <2>2, <2>3
  <1>10. \A l \in votes : commitments[l].value.model = m => commitments[l].hotkey \in Closing(snap).aggregates[m].evaluators
    BY <1>2, DecidedAggregates DEF Closing
  <1> QED
    BY <1>2, <1>6, <1>9, <1>10

(* A measured zero weighs like any other result: no close forgets an       *)
(* attempt whose controls passed and whose baseline agrees.                *)
THEOREM NoMeasurementForgotten == Spec => EveryMeasurementWeighs
  <1> DEFINE Weighs == \A w \in DOMAIN windows, k \in Key : WeighedAtClose(w, k)
  <1>1. TypeOK /\ WindowInv /\ PanelInv /\ ChainInv /\ [Next]_vars => [Weighs]_vars
    <2> SUFFICES ASSUME TypeOK, WindowInv, PanelInv, ChainInv, Next PROVE [Weighs]_vars
      OBVIOUS
    <2>1. PICK snap : Follows(snap) /\ \E rows \in BlockRows(snap) : Ingest(snap, rows)
      BY SomeBlock DEF Next
    <2>2. PICK rows \in BlockRows(snap) : Ingest(snap, rows)
      BY <2>1
    <2> QED
      BY WeighedStep, <2>1, <2>2
  <1>2. Spec => [][Weighs]_vars
    BY <1>1, TypeInvariant, WindowInvariant, PanelInvariant, ChainInvariant, PTL DEF Spec
  <1> QED
    BY <1>2, PTL DEF EveryMeasurementWeighs

-----------------------------------------------------------------------------
(* The choice of a winner: `decide` sorts the challengers by their exact   *)
(* quotients and takes the first one that is not behind an open bound.     *)

(* Who can be crowned when a window closes. *)
Contenders(o, d, uids) ==
  { m \in DOMAIN d.aggregates \ d.inconclusive :
      /\ o.candidates[m].hotkey \in DOMAIN uids
      /\ Eligible(d.aggregates[m], o.king) }

Outdoes(o, d, m, n) ==
  /\ AtLeast(d.aggregates[m], d.aggregates[n], o.king)
  /\ AtLeast(d.aggregates[n], d.aggregates[m], o.king) => Earlier(o.candidates[m], o.candidates[n])

Unchallenged(o, d, m) == \A n \in d.inconclusive : ~ AtLeast(d.aggregates[n], d.aggregates[m], o.king)

Fair(o, d, uids) ==
  LET race == Contenders(o, d, uids)
      won  == { m \in race : d.king = o.candidates[m] }
  IN  /\ d.king # None /\ d.king # o.king => won # {}
      /\ \A m \in won : Unchallenged(o, d, m) /\ \A n \in race \ {m} : Outdoes(o, d, m, n)
      /\ (\E m \in race : Unchallenged(o, d, m)) => won # {}

Decides(w) == windows[w].decision = None /\ windows'[w].decision # None

(* The throne changes hands to a challenger ahead of all others and of     *)
(* every open bound, and does change hands if there is a challenger that   *)
(* no open bound could still outdo.                                        *)
BestIsCrowned ==
  [][ \A w \in DOMAIN windows : Decides(w) =>
        Fair(windows[w].opening, windows'[w].decision, snapshot'.uids) ]_vars

(* The full results that spoke for m when window o was decided. *)
Witnesses(o, d, m) ==
  { i \in DOMAIN commitments :
      /\ IsResult(commitments[i]) /\ ~ Is(commitments[i], "EARLY_STOP")
      /\ commitments[i].value.window = o.id /\ commitments[i].value.model = m
      /\ commitments[i].hotkey \in d.aggregates[m].evaluators }

Witnessed(o, d, m) ==
  /\ \E i \in Witnesses(o, d, m) : 100 * commitments[i].value.quality > 5 * Scale
  /\ o.king # None =>
       \E i \in Witnesses(o, d, m) : 100 * (commitments[i].value.reward - commitments[i].value.king_reward) > 2 * Scale

(* However the stakes lie, nobody is crowned on a sum alone: some          *)
(* validator whose vote was counted, and who did not stop early, measured  *)
(* a quality above the floor, and, if there is a king, some such validator *)
(* measured a reward ahead of the king's by more than the margin.          *)
CrownIsWitnessed ==
  [][ \A w \in DOMAIN windows : Decides(w) =>
        \A m \in DOMAIN windows[w].opening.candidates :
          windows'[w].decision.king = windows[w].opening.candidates[m] =>
            Witnessed(windows[w].opening, windows'[w].decision, m) ]_vars

IsAggregate(a) == a.reward \in Int /\ a.delta \in Int /\ a.stake \in Nat \ {0}

LEMMA QuotientsOrdered ==
  ASSUME NEW x \in Int, NEW y \in Int, NEW z \in Int,
         NEW s \in Nat \ {0}, NEW t \in Nat \ {0}, NEW u \in Nat \ {0},
         x * t >= y * s, y * u >= z * t
  PROVE  x * u >= z * s
<1>1. \A p, q \in Int, r \in Nat \ {0} : p >= q => p * r >= q * r
  OBVIOUS
<1>2. \A p, q \in Int, r \in Nat \ {0} : p < q => p * r < q * r
  OBVIOUS
<1>3. \A p, q, r \in Int : (p * q) * r = (p * r) * q /\ p * q \in Int
  OBVIOUS
<1>4. (x * t) * u >= (y * s) * u /\ (y * u) * s >= (z * t) * s
  BY <1>1, <1>3
<1>5. (x * u) * t >= (z * s) * t
  <2>1. (x * t) * u = (x * u) * t /\ (y * s) * u = (y * u) * s /\ (z * t) * s = (z * s) * t
    BY <1>3
  <2>2. {(x * u) * t, (y * u) * s, (z * s) * t} \subseteq Int
    BY <1>3
  <2> QED BY <1>4, <2>1, <2>2
<1>6. x * u \in Int /\ z * s \in Int
  BY <1>3
<1> QED BY <1>2, <1>5, <1>6

LEMMA AtLeastOrder ==
  ASSUME NEW a, NEW b, NEW c, IsAggregate(a), IsAggregate(b), IsAggregate(c), NEW holder
  PROVE  /\ AtLeast(a, b, holder) \/ AtLeast(b, a, holder)
         /\ AtLeast(a, b, holder) /\ AtLeast(b, c, holder) => AtLeast(a, c, holder)
<1>1. Metric(a, holder) \in Int /\ Metric(b, holder) \in Int /\ Metric(c, holder) \in Int
  BY DEF IsAggregate, Metric
<1>2. a.stake \in Nat \ {0} /\ b.stake \in Nat \ {0} /\ c.stake \in Nat \ {0}
  BY DEF IsAggregate
<1>3. AtLeast(a, b, holder) \/ AtLeast(b, a, holder)
  <2>1. Metric(a, holder) * b.stake \in Int /\ Metric(b, holder) * a.stake \in Int
    BY <1>1, <1>2
  <2> QED BY <2>1 DEF AtLeast
<1>4. AtLeast(a, b, holder) /\ AtLeast(b, c, holder) => AtLeast(a, c, holder)
  BY <1>1, <1>2, QuotientsOrdered DEF AtLeast
<1> QED BY <1>3, <1>4

(* Of the eligible, one outdoes all others, and no other is chosen. *)
LEMMA ChosenIsFirst ==
  ASSUME NEW o, NEW d, NEW eligible, IsFiniteSet(eligible),
         \A m \in eligible \cup d.inconclusive : IsAggregate(d.aggregates[m]),
         \A m \in eligible : o.candidates[m].block \in Int /\ o.candidates[m].hotkey \in Int,
         \A m, n \in eligible : o.candidates[m].hotkey = o.candidates[n].hotkey => m = n
  PROVE  LET chosen == Chosen(d.aggregates, eligible, d.inconclusive, o.king, o.candidates)
         IN  /\ chosen = { m \in eligible : Unchallenged(o, d, m) /\ \A n \in eligible \ {m} : Outdoes(o, d, m, n) }
             /\ \A m, n \in chosen : m = n
             /\ (\E m \in eligible : Unchallenged(o, d, m)) => chosen # {}
<1> DEFINE chosen == Chosen(d.aggregates, eligible, d.inconclusive, o.king, o.candidates)
           A(m, n) == AtLeast(d.aggregates[m], d.aggregates[n], o.king)
           E(m, n) == Earlier(o.candidates[m], o.candidates[n])
           R == { p \in eligible \X eligible : Outdoes(o, d, p[1], p[2]) }
<1>1. chosen = { m \in eligible : Unchallenged(o, d, m) /\ \A n \in eligible \ {m} : Outdoes(o, d, m, n) }
  BY DEF Chosen, Unchallenged, Outdoes
<1>2. /\ \A m, n \in eligible \cup d.inconclusive : A(m, n) \/ A(n, m)
      /\ \A m, n, k \in eligible \cup d.inconclusive : A(m, n) /\ A(n, k) => A(m, k)
  BY AtLeastOrder
<1>3. /\ \A m, n \in eligible : ~ (E(m, n) /\ E(n, m))
      /\ \A m, n \in eligible : m # n => E(m, n) \/ E(n, m)
      /\ \A m, n, k \in eligible : E(m, n) /\ E(n, k) => E(m, k)
  BY DEF Earlier
<1>4. \A m, n \in eligible : Outdoes(o, d, m, n) <=> A(m, n) /\ (A(n, m) => E(m, n))
  BY DEF Outdoes
<1> HIDE DEF A, E, chosen
<1>5. \A m, n \in eligible : ~ (Outdoes(o, d, m, n) /\ Outdoes(o, d, n, m))
  BY <1>3, <1>4
<1>6. \A m, n \in chosen : m = n
  BY <1>1, <1>5
<1>7. ASSUME NEW m \in eligible, Unchallenged(o, d, m)
      PROVE  chosen # {}
  <2>1. \A k, n \in eligible : k # n => <<k, n>> \in R \/ <<n, k>> \in R
    BY <1>2, <1>3, <1>4
  <2>2. \A k, n, j \in eligible : k # n /\ n # j /\ k # j /\ <<k, n>> \in R /\ <<n, j>> \in R => <<k, j>> \in R
    BY <1>2, <1>3, <1>4
  <2> HIDE DEF R
  <2>3. PICK k \in eligible : \A n \in eligible \ {k} : <<k, n>> \in R
    <3>1. eligible # {}
      OBVIOUS
    <3>2. \E k \in eligible : \A n \in eligible \ {k} : <<k, n>> \in R
      BY <2>1, <2>2, <3>1, FirstOfAll
    <3> QED BY <3>2
  <2>4. \A n \in eligible \ {k} : Outdoes(o, d, k, n)
    BY <2>3 DEF R
  <2>5. Unchallenged(o, d, k)
    <3>1. k = m \/ A(k, m)
      BY <1>4, <2>4
    <3>2. \A n \in d.inconclusive : A(n, k) => A(n, m)
      BY <1>2, <3>1
    <3> QED BY <1>7, <3>2 DEF Unchallenged, A
  <2> QED BY <1>1, <2>4, <2>5
<1> QED BY <1>1, <1>6, <1>7 DEF chosen

(* The sums of an aggregate are those of numbers, and lie above a share of *)
(* the stake only if some vote does.                                       *)
LEMMA AggregateSums ==
  ASSUME NEW rows, NEW votes, IsFiniteSet(votes), votes # {}, NEW snap,
         \A i \in votes : rows[i].value \in Result /\ snap.validators[rows[i].hotkey] \in Nat \ {0}
  PROVE  LET a == Aggregate(rows, votes, snap)
         IN  /\ IsAggregate(a)
             /\ ~ TooPoor(a) => \E i \in votes : 100 * rows[i].value.quality > 5 * Scale
             /\ Improves(a) => \E i \in votes : 100 * (rows[i].value.reward - rows[i].value.king_reward) > 2 * Scale
<1> DEFINE a == Aggregate(rows, votes, snap)
           stakes  == [ i \in votes |-> snap.validators[rows[i].hotkey] ]
           quality == [ i \in votes |-> stakes[i] * rows[i].value.quality ]
           reward  == [ i \in votes |-> stakes[i] * rows[i].value.reward ]
           delta   == [ i \in votes |-> stakes[i] * (rows[i].value.reward - rows[i].value.king_reward) ]
<1>1. /\ a.quality = SumFunctionOnSet(quality, votes) /\ a.reward = SumFunctionOnSet(reward, votes)
      /\ a.delta = SumFunctionOnSet(delta, votes) /\ a.stake = SumFunctionOnSet(stakes, votes)
  BY DEF Aggregate
<1>2. \A i \in votes : rows[i].value.quality \in Int /\ rows[i].value.reward \in Int /\ rows[i].value.king_reward \in Int
  BY DEF Result, Score
<1>3. \A s \in Nat \ {0}, v \in Int : s * v \in Int
  OBVIOUS
<1>4. \A i \in votes : /\ stakes[i] \in Nat \ {0} /\ quality[i] \in Int /\ reward[i] \in Int /\ delta[i] \in Int
                       /\ quality[i] = stakes[i] * rows[i].value.quality
                       /\ delta[i] = stakes[i] * (rows[i].value.reward - rows[i].value.king_reward)
  BY <1>2, <1>3
<1> HIDE DEF stakes, quality, reward, delta, a
<1>5. a.quality \in Int /\ a.reward \in Int /\ a.delta \in Int /\ a.stake \in Nat \ {0}
  BY <1>1, <1>4, SumInInt, SumPositive
<1>6. Scale \in Nat /\ 5 * Scale \in Int /\ 2 * Scale \in Int
  BY ConsensusAssumption
<1>7. ASSUME NEW f, NEW c \in Int,
             \A i \in votes : \E v \in Int : f[i] = stakes[i] * v /\ 100 * v <= c
      PROVE  100 * SumFunctionOnSet(f, votes) <= c * a.stake
  <2>1. ASSUME NEW i \in votes PROVE f[i] \in Int /\ stakes[i] \in Int /\ 100 * f[i] <= c * stakes[i]
    <3>1. PICK v \in Int : f[i] = stakes[i] * v /\ 100 * v <= c
      BY <1>7
    <3> DEFINE s == stakes[i]
    <3>2. s \in Nat \ {0} /\ f[i] = s * v
      BY <1>4, <3>1
    <3> HIDE DEF s
    <3>3. 100 * (s * v) = (100 * v) * s /\ 100 * v \in Int /\ s * v \in Int
      BY <3>2
    <3>4. \A t \in Nat, p, q \in Int : p <= q => p * t <= q * t
      OBVIOUS
    <3>5. (100 * v) * s <= c * s
      BY <3>1, <3>2, <3>3, <3>4
    <3>6. 100 * f[i] <= c * s /\ f[i] \in Int
      BY <3>2, <3>3, <3>5
    <3> QED BY <3>2, <3>6 DEF s
  <2> DEFINE hundred == 100
  <2>2. hundred \in Int /\ \A i \in votes : f[i] \in Int /\ stakes[i] \in Int /\ hundred * f[i] <= c * stakes[i]
    BY <2>1
  <2> HIDE DEF hundred
  <2>3. hundred * SumFunctionOnSet(f, votes) <= c * SumFunctionOnSet(stakes, votes)
    BY <2>2, SumOfShares
  <2> QED BY <1>1, <2>3 DEF hundred
<1>8. ASSUME ~ TooPoor(a), \A i \in votes : ~ (100 * rows[i].value.quality > 5 * Scale) PROVE FALSE
  <2>1. \A i \in votes : \E v \in Int : quality[i] = stakes[i] * v /\ 100 * v <= 5 * Scale
    BY <1>2, <1>4, <1>6, <1>8
  <2>2. 100 * a.quality <= (5 * Scale) * a.stake
    BY <1>1, <1>6, <1>7, <2>1
  <2>3. (5 * Scale) * a.stake = 5 * a.stake * Scale
    BY <1>5, <1>6
  <2> QED BY <1>8, <2>2, <2>3 DEF TooPoor, AtMostPercent
<1>9. ASSUME Improves(a),
             \A i \in votes : ~ (100 * (rows[i].value.reward - rows[i].value.king_reward) > 2 * Scale)
      PROVE  FALSE
  <2>1. \A i \in votes : \E v \in Int : delta[i] = stakes[i] * v /\ 100 * v <= 2 * Scale
    <3> TAKE i \in votes
    <3> DEFINE v == rows[i].value.reward - rows[i].value.king_reward
    <3>1. v \in Int /\ ~ (100 * v > 2 * Scale) /\ delta[i] = stakes[i] * v
      BY <1>2, <1>4, <1>9
    <3> HIDE DEF v
    <3> QED BY <1>6, <3>1
  <2>2. 100 * a.delta <= (2 * Scale) * a.stake
    BY <1>1, <1>6, <1>7, <2>1
  <2>3. (2 * Scale) * a.stake = 2 * a.stake * Scale
    BY <1>5, <1>6
  <2> QED BY <1>9, <2>2, <2>3 DEF Improves, AtMostPercent
<1> QED BY <1>5, <1>8, <1>9 DEF IsAggregate, a

(* The votes of a closing window and what they add up to. *)
LEMMA ClosingVotes ==
  ASSUME TypeOK, NEW snap, Follows(snap), Closes(snap)
  PROVE  LET votes == ValidVotes(commitments, VotingHistory(active, snap.block), active.id, active.policy_hash,
                                 active.king, active.candidates, snap)
             all   == Aggregates(commitments, votes, active.candidates, snap)
             For(m) == { i \in votes : commitments[i].value.model = m }
         IN  /\ \A i \in votes : i \in DOMAIN commitments /\ IsResult(commitments[i]) /\ commitments[i].value.window = active.id
             /\ IsFiniteSet(DOMAIN all) /\ DOMAIN all \subseteq DOMAIN active.candidates
             /\ \A m \in DOMAIN all :
                  /\ IsAggregate(all[m])
                  /\ ~ all[m].bounded => \A i \in For(m) : ~ Is(commitments[i], "EARLY_STOP")
                  /\ all[m].evaluators = { commitments[i].hotkey : i \in For(m) }
                  /\ ~ TooPoor(all[m]) => \E i \in For(m) : 100 * commitments[i].value.quality > 5 * Scale
                  /\ Improves(all[m]) =>
                       \E i \in For(m) : 100 * (commitments[i].value.reward - commitments[i].value.king_reward) > 2 * Scale
<1> DEFINE history == VotingHistory(active, snap.block)
           counted == Counted(commitments, history, active.id, active.policy_hash, snap)
           votes   == ValidVotes(commitments, history, active.id, active.policy_hash, active.king, active.candidates, snap)
           all     == Aggregates(commitments, votes, active.candidates, snap)
           For(m)  == { i \in votes : commitments[i].value.model = m }
<1>1. votes \subseteq Measured(commitments, counted, active.candidates)
  BY DEF ValidVotes, Votes, Terminals
<1>2. \A i \in votes : /\ i \in history /\ IsResult(commitments[i]) /\ commitments[i].value.window = active.id
                       /\ commitments[i].hotkey \in DOMAIN snap.validators
                       /\ snap.validators[commitments[i].hotkey] > 0
                       /\ commitments[i].value.model \in DOMAIN active.candidates
  BY <1>1 DEF Measured, Counted
<1>3. history \subseteq DOMAIN commitments
  BY DEF VotingHistory
<1>4. commitments \in Seq(Row) /\ DOMAIN commitments = 1 .. Len(commitments) /\ Len(commitments) \in Nat
  BY DEF TypeOK
<1>5. \A v \in DOMAIN snap.validators : snap.validators[v] \in Nat
  BY LedgerAssumption DEF Follows
<1>6. all = [ m \in { n \in DOMAIN active.candidates : For(n) # {} } |-> Aggregate(commitments, For(m), snap) ]
  BY DEF Aggregates
<1> HIDE DEF history, votes, all
<1>7. \A i \in votes : /\ i \in DOMAIN commitments /\ commitments[i].value \in Result
                       /\ snap.validators[commitments[i].hotkey] \in Nat \ {0}
  BY <1>2, <1>3, <1>4, <1>5, ReportedTyped
<1>8. IsFiniteSet(votes)
  <2>1. IsFiniteSet(1 .. Len(commitments))
    BY <1>4, FS_Interval
  <2>2. votes \subseteq 1 .. Len(commitments)
    BY <1>4, <1>7, Zenon
  <2> QED BY <2>1, <2>2, FS_Subset
<1>9. IsFiniteSet(DOMAIN all) /\ DOMAIN all \subseteq DOMAIN active.candidates
  <2> DEFINE f == [ i \in votes |-> commitments[i].value.model ]
             T == { f[i] : i \in votes }
  <2>1. f \in [ votes -> T ] /\ \A t \in T : \E i \in votes : f[i] = t
    OBVIOUS
  <2> HIDE DEF f, T
  <2>2. IsFiniteSet(T)
    BY <1>8, <2>1, FS_Surjection DEF Surjection
  <2>3. DOMAIN all \subseteq T
    BY <1>6 DEF f, T
  <2> QED BY <1>6, <2>2, <2>3, FS_Subset
<1>10. ASSUME NEW m \in DOMAIN all
       PROVE  /\ IsAggregate(all[m])
              /\ ~ all[m].bounded => \A i \in For(m) : ~ Is(commitments[i], "EARLY_STOP")
              /\ all[m].evaluators = { commitments[i].hotkey : i \in For(m) }
              /\ ~ TooPoor(all[m]) => \E i \in For(m) : 100 * commitments[i].value.quality > 5 * Scale
              /\ Improves(all[m]) =>
                   \E i \in For(m) : 100 * (commitments[i].value.reward - commitments[i].value.king_reward) > 2 * Scale
  <2>1. all[m] = Aggregate(commitments, For(m), snap) /\ For(m) # {} /\ For(m) \subseteq votes
    BY <1>6
  <2>2. IsFiniteSet(For(m))
    BY <1>8, <2>1, FS_Subset
  <2>3. \A i \in For(m) : commitments[i].value \in Result /\ snap.validators[commitments[i].hotkey] \in Nat \ {0}
    BY <1>7
  <2> HIDE DEF For
  <2> QED BY <2>1, <2>2, <2>3, AggregateSums, AggregateBounded, AggregateEvaluators
<1> QED BY <1>2, <1>7, <1>9, <1>10 DEF votes, all, history

(* What a closing window decides, and from whom. *)
LEMMA ClosingRace ==
  ASSUME TypeOK, WindowInv, PanelInv, NEW snap, Follows(snap), Closes(snap)
  PROVE  LET d     == Closing(snap)
             race  == Contenders(active, d, snap.uids)
             first == { m \in race : Unchallenged(active, d, m) /\ \A n \in race \ {m} : Outdoes(active, d, m, n) }
         IN  /\ \A m \in DOMAIN active.candidates : d.king = active.candidates[m] <=> m \in first
             /\ first = {} => d.king \in {None, active.king}
             /\ (\E m \in race : Unchallenged(active, d, m)) => first # {}
<1> DEFINE votes == ValidVotes(commitments, VotingHistory(active, snap.block), active.id, active.policy_hash,
                               active.king, active.candidates, snap)
           all   == Aggregates(commitments, votes, active.candidates, snap)
           d     == Closing(snap)
           race  == Contenders(active, d, snap.uids)
           first == { m \in race : Unchallenged(active, d, m) /\ \A n \in race \ {m} : Outdoes(active, d, m, n) }
           kept  == { m \in DOMAIN all : ~ TooPoor(all[m]) }
           open  == { m \in kept : all[m].bounded /\ Improves(all[m]) }
           eligible == { m \in kept : active.candidates[m].hotkey \in DOMAIN snap.uids /\ Eligible(all[m], active.king) }
           chosen == Chosen(all, eligible, open, active.king, active.candidates)
<1>1. /\ d.aggregates = [ m \in kept |-> all[m] ] /\ d.inconclusive = open
      /\ d.king = Enthroned(Winner(chosen, active.king, active.candidates), snap)
  BY DEF Closing, Decide, Weighed, Decision
<1>2. IsFiniteSet(DOMAIN all) /\ DOMAIN all \subseteq DOMAIN active.candidates /\ \A m \in DOMAIN all : IsAggregate(all[m])
  BY ClosingVotes
<1>3. /\ active.id \in DOMAIN windows /\ windows[active.id].opening = active /\ IsOpening(active) /\ active # None
  BY DEF WindowInv, TypeOK, Closes
<1>4. \A m \in DOMAIN active.candidates :
        /\ active.candidates[m] \in Entry /\ active.candidates[m].model = m /\ active.candidates[m].hotkey = m[1]
        /\ active.king # None => active.king.model # m
  BY <1>3 DEF IsOpening, OpeningOf, PanelInv
<1>5. \A m, n \in DOMAIN active.candidates : m[1] = n[1] => m = n
  BY <1>3 DEF PanelInv
<1> HIDE DEF votes, all, d
<1>6. eligible = race
  <2>1. eligible \cap open = {}
    BY DEF Eligible
  <2>2. DOMAIN d.aggregates = kept /\ \A m \in kept : d.aggregates[m] = all[m]
    BY <1>1
  <2> HIDE DEF kept, open
  <2> QED BY <1>1, <2>1, <2>2 DEF Contenders
<1>7. chosen = Chosen(d.aggregates, race, d.inconclusive, active.king, active.candidates)
  <2>1. \A m \in eligible \cup open : m \in kept /\ d.aggregates[m] = all[m]
    BY <1>1
  <2> HIDE DEF eligible, open, kept, race
  <2> QED BY <1>1, <1>6, <2>1 DEF Chosen
<1>8. /\ race \subseteq DOMAIN active.candidates /\ IsFiniteSet(race)
      /\ \A m \in race \cup d.inconclusive : IsAggregate(d.aggregates[m])
      /\ \A m \in race : active.candidates[m].hotkey \in DOMAIN snap.uids
  <2>1. eligible \subseteq DOMAIN all /\ \A m \in eligible : active.candidates[m].hotkey \in DOMAIN snap.uids
    OBVIOUS
  <2>2. \A m \in eligible \cup open : IsAggregate(d.aggregates[m])
    BY <1>1, <1>2
  <2> HIDE DEF eligible, open, race
  <2> QED BY <1>1, <1>2, <1>6, <2>1, <2>2, FS_Subset
<1> HIDE DEF eligible, open, kept, race
<1>9. /\ \A m \in race : active.candidates[m].block \in Int /\ active.candidates[m].hotkey \in Int
      /\ \A m, n \in race : active.candidates[m].hotkey = active.candidates[n].hotkey => m = n
  <2>1. \A m \in race : m \in DOMAIN active.candidates /\ active.candidates[m] \in Entry
                       /\ active.candidates[m].hotkey = m[1]
    BY <1>4, <1>8
  <2>2. ASSUME NEW e \in Entry PROVE e.block \in Int /\ e.hotkey \in Int
    <3>1. \A h \in Hotkey : h \in Int
      BY ConsensusAssumption
    <3>2. \A b \in Nat : b \in Int
      OBVIOUS
    <3>3. e.block \in Nat /\ e.hotkey \in Hotkey
      BY DEF Entry
    <3> QED BY <3>1, <3>2, <3>3, Zenon
  <2>3. \A m, n \in race : active.candidates[m].hotkey = active.candidates[n].hotkey => m = n
    BY <1>5, <2>1
  <2> QED BY <2>1, <2>2, <2>3
<1>10. /\ chosen = first /\ (\A m, n \in chosen : m = n)
       /\ (\E m \in race : Unchallenged(active, d, m)) => chosen # {}
  <2> DEFINE c == Chosen(d.aggregates, race, d.inconclusive, active.king, active.candidates)
             top == { m \in race : Unchallenged(active, d, m) /\ \A n \in race \ {m} : Outdoes(active, d, m, n) }
  <2>1. /\ c = top /\ (\A m, n \in c : m = n)
        /\ (\E m \in race : Unchallenged(active, d, m)) => c # {}
    BY <1>8, <1>9, ChosenIsFirst
  <2>2. chosen = c /\ first = top
    BY <1>7
  <2> QED BY <2>1, <2>2
<1>11. None \notin Entry
  BY ConsensusAssumption
<1>12. chosen \subseteq race
  BY <1>10
<1>c. \A m \in chosen : m \in DOMAIN active.candidates /\ active.candidates[m].hotkey \in DOMAIN snap.uids
  BY <1>8, <1>12
<1> HIDE DEF chosen, first
<1>13. CASE chosen = {}
  <2>1. d.king \in {None, active.king}
    BY <1>1, <1>13 DEF Winner, Enthroned
  <2>2. \A m \in DOMAIN active.candidates : d.king # active.candidates[m]
    BY <1>4, <1>11, <2>1
  <2> QED BY <1>10, <1>13, <2>1, <2>2 DEF race, first, d
<1>14. CASE chosen # {}
  <2>1. PICK c \in chosen : c = CHOOSE m \in chosen : TRUE
    BY <1>14
  <2>2. c \in race /\ chosen = {c}
    BY <1>10, <1>12, <2>1
  <2>3. d.king = active.candidates[c]
    BY <1>1, <1>4, <1>8, <1>11, <1>14, <2>1, <2>2 DEF Winner, Enthroned
  <2>4. \A m \in DOMAIN active.candidates : d.king = active.candidates[m] <=> m \in first
    BY <1>4, <1>8, <1>10, <2>2, <2>3
  <2> QED BY <1>10, <1>14, <2>4 DEF race, first, d
<1> QED BY <1>13, <1>14

(* Whoever a closing window crowns has full results that pass. *)
LEMMA ClosingWitnessed ==
  ASSUME TypeOK, WindowInv, PanelInv, NEW snap, Follows(snap), Closes(snap),
         NEW m \in DOMAIN active.candidates, Closing(snap).king = active.candidates[m]
  PROVE  Witnessed(active, Closing(snap), m)
<1> DEFINE votes == ValidVotes(commitments, VotingHistory(active, snap.block), active.id, active.policy_hash,
                               active.king, active.candidates, snap)
           all   == Aggregates(commitments, votes, active.candidates, snap)
           For(n) == { i \in votes : commitments[i].value.model = n }
           d     == Closing(snap)
           kept  == { n \in DOMAIN all : ~ TooPoor(all[n]) }
<1>1. d.aggregates = [ n \in kept |-> all[n] ]
  BY DEF Closing, Decide, Weighed, Decision
<1>2. m \in Contenders(active, d, snap.uids)
  BY ClosingRace
<1>3. /\ \A i \in votes : i \in DOMAIN commitments /\ IsResult(commitments[i]) /\ commitments[i].value.window = active.id
      /\ \A n \in DOMAIN all :
           /\ ~ all[n].bounded => \A i \in For(n) : ~ Is(commitments[i], "EARLY_STOP")
           /\ all[n].evaluators = { commitments[i].hotkey : i \in For(n) }
           /\ ~ TooPoor(all[n]) => \E i \in For(n) : 100 * commitments[i].value.quality > 5 * Scale
           /\ Improves(all[n]) =>
                \E i \in For(n) : 100 * (commitments[i].value.reward - commitments[i].value.king_reward) > 2 * Scale
  BY ClosingVotes
<1> HIDE DEF votes, all, d
<1>4. m \in DOMAIN d.aggregates /\ Eligible(d.aggregates[m], active.king)
  BY <1>2 DEF Contenders
<1>5. m \in DOMAIN all /\ ~ TooPoor(all[m]) /\ d.aggregates[m] = all[m]
  BY <1>1, <1>4
<1>6. ~ all[m].bounded /\ (active.king # None => Improves(all[m]))
  BY <1>4, <1>5 DEF Eligible
<1>7. For(m) \subseteq Witnesses(active, d, m)
  BY <1>3, <1>5, <1>6 DEF Witnesses
<1>8. Witnessed(active, d, m)
  <2> HIDE DEF For
  <2> QED BY <1>3, <1>5, <1>6, <1>7 DEF Witnessed
<1> QED BY <1>8 DEF d

(* Whenever a window is decided, Decide and Enthroned crown the contender  *)
(* that is ahead of every other and of every open bound, if there is one.  *)
THEOREM CrownGoesToTheBest == Spec => BestIsCrowned
<1> DEFINE Best == \A w \in DOMAIN windows : Decides(w) =>
                     Fair(windows[w].opening, windows'[w].decision, snapshot'.uids)
<1>1. TypeOK /\ WindowInv /\ PanelInv /\ [Next]_vars => [Best]_vars
  <2> SUFFICES ASSUME TypeOK, WindowInv, PanelInv, Next, NEW w \in DOMAIN windows, Decides(w)
               PROVE  Fair(windows[w].opening, windows'[w].decision, snapshot'.uids)
    OBVIOUS
  <2>1. PICK snap : Follows(snap) /\ \E rows \in BlockRows(snap) : Ingest(snap, rows)
    BY SomeBlock DEF Next
  <2>2. PICK rows \in BlockRows(snap) : Ingest(snap, rows)
    BY <2>1
  <2>3. snapshot' = snap
    BY <2>2, IngestParts
  <2>4. w = active.id /\ Closes(snap) /\ windows[w].opening = active /\ windows'[w].decision = Closing(snap)
    BY <2>1, <2>2, OldWindows DEF Decides
  <2> DEFINE d == Closing(snap)
  <2>5. Fair(active, d, snap.uids)
    <3> DEFINE race  == Contenders(active, d, snap.uids)
               first == { m \in race : Unchallenged(active, d, m) /\ \A n \in race \ {m} : Outdoes(active, d, m, n) }
    <3>1. /\ \A m \in DOMAIN active.candidates : d.king = active.candidates[m] <=> m \in first
          /\ first = {} => d.king \in {None, active.king}
          /\ (\E m \in race : Unchallenged(active, d, m)) => first # {}
      BY <2>1, <2>4, ClosingRace
    <3>2. race \subseteq DOMAIN active.candidates
      <4>1. DOMAIN d.aggregates \subseteq DOMAIN active.candidates
        BY DecidedAggregates DEF Closing
      <4> QED BY <4>1 DEF Contenders
    <3>3. { m \in race : d.king = active.candidates[m] } = first
      BY <3>1, <3>2
    <3> HIDE DEF d
    <3> QED BY <3>1, <3>3 DEF Fair
  <2> QED BY <2>3, <2>4, <2>5
<1>2. Spec => [][Best]_vars
  BY <1>1, TypeInvariant, WindowInvariant, PanelInvariant, PTL DEF Spec
<1> QED BY <1>2, PTL DEF BestIsCrowned

(* The weighted sums of Aggregate pass the floor and the margin only where *)
(* a vote does, so every crown rests on a full measurement that passes.    *)
THEOREM CrownNeedsWitness == Spec => CrownIsWitnessed
<1> DEFINE Seen == \A w \in DOMAIN windows : Decides(w) =>
                     \A m \in DOMAIN windows[w].opening.candidates :
                       windows'[w].decision.king = windows[w].opening.candidates[m] =>
                         Witnessed(windows[w].opening, windows'[w].decision, m)
<1>1. TypeOK /\ WindowInv /\ PanelInv /\ [Next]_vars => [Seen]_vars
  <2> SUFFICES ASSUME TypeOK, WindowInv, PanelInv, Next, NEW w \in DOMAIN windows, Decides(w),
                      NEW m \in DOMAIN windows[w].opening.candidates,
                      windows'[w].decision.king = windows[w].opening.candidates[m]
               PROVE  Witnessed(windows[w].opening, windows'[w].decision, m)
    OBVIOUS
  <2>1. PICK snap : Follows(snap) /\ \E rows \in BlockRows(snap) : Ingest(snap, rows)
    BY SomeBlock DEF Next
  <2>2. PICK rows \in BlockRows(snap) : Ingest(snap, rows)
    BY <2>1
  <2>3. w = active.id /\ Closes(snap) /\ windows[w].opening = active /\ windows'[w].decision = Closing(snap)
    BY <2>1, <2>2, OldWindows DEF Decides
  <2> QED BY <2>1, <2>3, ClosingWitnessed
<1>2. Spec => [][Seen]_vars
  BY <1>1, TypeInvariant, WindowInvariant, PanelInvariant, PTL DEF Spec
<1> QED BY <1>2, PTL DEF CrownIsWitnessed

-----------------------------------------------------------------------------
(* The cache holds a snapshot of the chain, and number and epoch are always *)
(* those of the chain's last block.                                        *)

CacheInv ==
  /\ truth.block = snapshot.block /\ truth.epoch = snapshot.epoch
  /\ cache # None => cache.uids \in Registrations /\ cache.validators \in Stakes

(* A frame the chain may present next. *)
IsNext(frame) ==
  /\ frame = [block |-> frame.block, epoch |-> frame.epoch, uids |-> frame.uids, validators |-> frame.validators]
  /\ Follows(frame) /\ frame.epoch <= MaxEpoch /\ snapshot.block < MaxBlock

LEMMA ReplaySteps ==
  ASSUME ReplayNext
  PROVE  \/ Restart
         \/ \E frame : IsNext(frame) /\ \E rows \in BlockRows(frame) : ReplayBlock(frame, rows)
  <1>1. SUFFICES ASSUME ~ Restart
                 PROVE  \E frame : IsNext(frame) /\ \E rows \in BlockRows(frame) : ReplayBlock(frame, rows)
    OBVIOUS
  <1>2. PICK epoch \in {snapshot.epoch, snapshot.epoch + 1}, uids \in Registrations, validators \in Stakes :
          LET frame == [block |-> snapshot.block + 1, epoch |-> epoch, uids |-> uids, validators |-> validators]
          IN  /\ snapshot.block < MaxBlock /\ epoch <= MaxEpoch
              /\ \E rows \in BlockRows(frame) : ReplayBlock(frame, rows)
    BY <1>1, Zenon DEF ReplayNext
  <1> DEFINE frame == [block |-> snapshot.block + 1, epoch |-> epoch, uids |-> uids, validators |-> validators]
  <1>3. IsNext(frame)
    BY <1>2 DEF IsNext, Follows
  <1> HIDE DEF frame
  <1> QED
    BY <1>2, <1>3 DEF frame

(* What the follower hands to the ledger: the frame itself whenever the    *)
(* block carries rows or may open a window.                                *)
LEMMA MergedFrame ==
  ASSUME CacheInv, NEW frame, IsNext(frame), NEW rows, ReplayBlock(frame, rows)
  PROVE  LET merged == Merged(cache', frame)
         IN  /\ merged = [block |-> frame.block, epoch |-> frame.epoch, uids |-> merged.uids, validators |-> merged.validators]
             /\ merged.block = frame.block /\ merged.epoch = frame.epoch
             /\ merged.uids \in Registrations /\ merged.validators \in Stakes
             /\ rows # <<>> \/ Boundary(frame) => merged = frame
             /\ cache' # None => cache'.uids \in Registrations /\ cache'.validators \in Stakes
  <1>1. cache' = Refreshed(frame, rows)
    BY DEF ReplayBlock
  <1>2. PICK c : c = cache'
    OBVIOUS
  <1>3. CASE c = frame
    <2>1. c.uids \in Registrations /\ c.validators \in Stakes /\ Merged(c, frame) = frame
      BY <1>3 DEF Merged, IsNext, Follows
    <2> QED
      BY <1>2, <2>1 DEF Merged
  <1>4. CASE c # frame
    <2>1. c = cache /\ cache # None /\ rows = <<>> /\ ~ Boundary(frame)
      BY <1>1, <1>2, <1>4 DEF Refreshed
    <2>2. c.uids \in Registrations /\ c.validators \in Stakes
      BY <2>1 DEF CacheInv
    <2> QED
      BY <1>2, <2>1, <2>2 DEF Merged
  <1> QED
    BY <1>3, <1>4

(* An empty block is one the ledger's chain may bring under any snapshot. *)
LEMMA EmptyBlock ==
  ASSUME NEW frame, NEW merged, NEW rows \in BlockRows(frame), rows = <<>>
  PROVE  rows \in BlockRows(merged)
  <1> DEFINE room == MaxCommitments - Len(commitments)
  <1>1. PICK n \in { k \in 0..MaxRows : k <= room } : rows \in [1..n -> Submitting(frame) \cup Reporting(frame)]
    BY DEF BlockRows
  <1>2. n = 0
    BY <1>1
  <1>3. /\ rows \in [1..n -> Submitting(merged) \cup Reporting(merged)]
        /\ \A i, j \in 1..n : i < j => rows[i].hotkey <= rows[j].hotkey /\ rows[i] # rows[j]
    BY <1>1, <1>2
  <1> QED
    BY <1>1, <1>3 DEF BlockRows

LEMMA ReplayIsBlock ==
  ASSUME CacheInv, NEW frame, IsNext(frame), NEW rows \in BlockRows(frame), ReplayBlock(frame, rows)
  PROVE  /\ rows \in BlockRows(Merged(cache', frame)) /\ Ingest(Merged(cache', frame), rows)
         /\ Follows(Merged(cache', frame))
         /\ NextBlock
  <1> DEFINE merged == Merged(cache', frame)
  <1>1. /\ merged = [block |-> frame.block, epoch |-> frame.epoch, uids |-> merged.uids, validators |-> merged.validators]
        /\ merged.block = frame.block /\ merged.epoch = frame.epoch
        /\ merged.uids \in Registrations /\ merged.validators \in Stakes
        /\ rows # <<>> \/ Boundary(frame) => merged = frame
    BY MergedFrame
  <1> HIDE DEF merged
  <1>2. rows \in BlockRows(merged)
    BY <1>1, EmptyBlock
  <1>3. Ingest(merged, rows)
    BY DEF ReplayBlock, merged
  <1>4. Follows(merged)
    BY <1>1 DEF Follows, IsNext
  <1>5. NextBlock
    <2>1. merged.epoch \in {snapshot.epoch, snapshot.epoch + 1} /\ merged.epoch <= MaxEpoch
          /\ snapshot.block < MaxBlock /\ merged.block = snapshot.block + 1
      BY <1>1 DEF IsNext, Follows
    <2>2. merged = [block |-> snapshot.block + 1, epoch |-> merged.epoch, uids |-> merged.uids, validators |-> merged.validators]
      BY <1>1, <2>1
    <2> QED
      BY <1>1, <1>2, <1>3, <2>1, <2>2 DEF NextBlock
  <1> QED
    BY <1>2, <1>3, <1>4, <1>5 DEF merged

LEMMA ReplayStep ==
  ASSUME CacheInv, [ReplayNext]_replayVars
  PROVE  CacheInv' /\ [Next]_vars
  <1>1. CASE UNCHANGED replayVars
    <2>1. UNCHANGED vars /\ truth' = truth /\ cache' = cache
      BY <1>1 DEF replayVars
    <2>2. snapshot' = snapshot
      BY <2>1 DEF vars
    <2> QED
      BY <2>1, <2>2 DEF CacheInv
  <1>2. CASE Restart
    <2>1. UNCHANGED vars /\ truth' = truth /\ cache' = None
      BY <1>2 DEF Restart
    <2>2. snapshot' = snapshot
      BY <2>1 DEF vars
    <2> QED
      BY <2>1, <2>2 DEF CacheInv
  <1>3. ASSUME NEW frame, IsNext(frame), NEW rows \in BlockRows(frame), ReplayBlock(frame, rows)
        PROVE  CacheInv' /\ NextBlock
    <2>1. NextBlock /\ Ingest(Merged(cache', frame), rows)
      BY <1>3, ReplayIsBlock
    <2>2. truth' = frame /\ snapshot' = Merged(cache', frame)
      BY <1>3, <2>1 DEF ReplayBlock, Ingest
    <2>3. cache' # None => cache'.uids \in Registrations /\ cache'.validators \in Stakes
      BY <1>3, MergedFrame
    <2>4. snapshot'.block = frame.block /\ snapshot'.epoch = frame.epoch
      BY <2>2 DEF Merged
    <2> QED
      BY <2>1, <2>2, <2>3, <2>4 DEF CacheInv
  <1> QED
    BY <1>1, <1>2, <1>3, ReplaySteps DEF Next

LEMMA CacheInvariant == ReplaySpec => []CacheInv
  <1>1. ReplayInit => CacheInv
    BY DEF ReplayInit, CacheInv
  <1>2. CacheInv /\ [ReplayNext]_replayVars => CacheInv'
    BY ReplayStep
  <1> QED
    BY <1>1, <1>2, PTL DEF ReplaySpec

(* A follower that caches snapshots and restarts at any block still is a   *)
(* ledger: all that is proved of the ledger holds of its tables.           *)
THEOREM ReplayImplementsLedger == ReplaySpec => Spec
  <1>1. ReplayInit => Init
    BY DEF ReplayInit
  <1>2. CacheInv /\ [ReplayNext]_replayVars => [Next]_vars
    BY ReplayStep
  <1> QED
    BY <1>1, <1>2, CacheInvariant, PTL DEF ReplaySpec, Spec

-----------------------------------------------------------------------------
(* A block without rows that opens no window. *)

(* Its snapshot is not used at all. *)
LEMMA QuietBlock ==
  ASSUME NEW frame, NEW merged, ~ Turns(frame), ~ Turns(merged), Transaction(merged, <<>>)
  PROVE  Transaction(frame, <<>>)
  <1>1. \A snap : \A opening, used : FirstOf(<<>>, Accepted(<<>>, opening, used, snap)) = {}
    BY DEF FirstOf, Accepted
  <1>2. \A snap : \A h, bound : FirstBinding(<<>>, h, snap, bound) = bound[h]
    BY DEF FirstBinding
  <1> DEFINE Quiet ==
        /\ commitments' = commitments \o <<>>
        /\ submissions' = [h \in Hotkey |-> submissions[h]]
        /\ windows' = [w \in DOMAIN windows \cup {} |-> windows[w]]
        /\ active' = active
        /\ king' = king
        /\ uses' = UsesAfterPanels(active, PendingAfterRows(<<>>, {}, active, pending),
                                   UsesAfterRows(<<>>, {}, active, uses))
        /\ pending' = PendingAfterRows(<<>>, {}, active, pending)
        /\ retired' = retired
        /\ after' = after
        /\ reset' = reset
        /\ archive' = archive
  <1>3. ASSUME NEW snap, ~ Turns(snap)
        PROVE  Transaction(snap, <<>>) <=> Quiet
    <2> DEFINE first == FirstOf(<<>>, Accepted(<<>>, active, uses, snap))
    <2>1. active # None /\ WindowOf(snap.epoch) = active.id
      BY <1>3 DEF Turns, Closes
    <2>2. first = {}
      BY <1>1
    <2>3. [h \in Hotkey |-> FirstBinding(<<>>, h, snap, submissions)] = [h \in Hotkey |-> submissions[h]]
      BY <1>2
    <2> HIDE DEF first
    <2>4. ASSUME Transaction(snap, <<>>) PROVE Quiet
      <3>1. windows' = [w \in DOMAIN windows \cup {} |-> windows[w]]
        BY <2>1, <2>4 DEF Transaction
      <3>2. /\ uses' = UsesAfterPanels(active, PendingAfterRows(<<>>, first, active, pending),
                                       UsesAfterRows(<<>>, first, active, uses))
            /\ pending' = PendingAfterRows(<<>>, first, active, pending)
        BY <2>1, <2>4 DEF Transaction, first
      <3>3. /\ commitments' = commitments \o <<>>
            /\ submissions' = [h \in Hotkey |-> FirstBinding(<<>>, h, snap, submissions)]
            /\ active' = active /\ king' = king
        BY <2>1, <2>4 DEF Transaction
      <3>4. retired' = retired /\ after' = after /\ reset' = reset /\ archive' = archive
        BY <2>1, <2>4 DEF Transaction
      <3> QED
        BY <2>2, <2>3, <3>1, <3>2, <3>3, <3>4
    <2>5. ASSUME Quiet PROVE Transaction(snap, <<>>)
      <3>1. /\ uses' = UsesAfterPanels(active, PendingAfterRows(<<>>, first, active, pending),
                                       UsesAfterRows(<<>>, first, active, uses))
            /\ pending' = PendingAfterRows(<<>>, first, active, pending)
            /\ submissions' = [h \in Hotkey |-> FirstBinding(<<>>, h, snap, submissions)]
        BY <2>2, <2>3, <2>5
      <3> QED
        BY <2>1, <2>5, <3>1 DEF Transaction, first
    <2> QED
      BY <2>4, <2>5
  <1> HIDE DEF Quiet
  <1> QED
    BY <1>3

(* Before the end epoch of the open window no block turns. *)
LEMMA NoTurnBefore ==
  ASSUME TypeOK, WindowInv, PanelInv, NEW frame, Follows(frame), IsFrame(frame), ~ Boundary(frame)
  PROVE  ~ Turns(frame)
  <1>1. active # None /\ frame.epoch < active.end_epoch
    BY DEF Boundary, TypeOK, IsOpening, OpeningOf, IsFrame
  <1>2. active.id \in DOMAIN windows /\ windows[active.id].opening = active /\ active.id = WindowOf(snapshot.epoch)
    BY <1>1 DEF WindowInv
  <1>3. active.id \in Nat /\ active.end_epoch = WindowEpochs * (active.id + 1)
    BY <1>2 DEF TypeOK, PanelInv
  <1>4. WindowEpochs \in Nat \ {0} /\ snapshot.epoch \in Nat /\ frame.epoch \in Nat /\ snapshot.epoch <= frame.epoch
    BY FollowsFrame, LedgerAssumption DEF TypeOK, IsFrame
  <1>5. WindowOf(frame.epoch) >= active.id
    BY <1>2, <1>4, DivMonotone DEF WindowOf
  <1>6. ASSUME WindowOf(frame.epoch) >= active.id + 1 PROVE FALSE
    <2> DEFINE q == frame.epoch \div WindowEpochs
    <2>1. q \in Nat /\ frame.epoch >= WindowEpochs * q
      BY <1>4
    <2>2. WindowEpochs * q >= WindowEpochs * (active.id + 1)
      <3>1. q >= active.id + 1
        BY <1>6 DEF WindowOf
      <3> HIDE DEF q
      <3>2. PICK d \in Nat : q = active.id + 1 + d
        <4>1. q - (active.id + 1) \in Nat
          BY <1>3, <2>1, <3>1
        <4> QED
          BY <1>3, <2>1, <4>1
      <3>3. WindowEpochs * q = WindowEpochs * (active.id + 1) + WindowEpochs * d
        BY <1>3, <1>4, <3>2
      <3>4. WindowEpochs * d \in Nat
        BY <1>4
      <3> QED
        BY <1>3, <1>4, <3>3, <3>4
    <2> HIDE DEF q
    <2> QED
      BY <1>1, <1>3, <1>4, <2>1, <2>2
  <1>7. WindowOf(frame.epoch) \in Nat
    BY <1>4, WindowOfNat
  <1>8. WindowOf(frame.epoch) = active.id
    BY <1>3, <1>5, <1>6, <1>7
  <1> QED
    BY <1>1, <1>8 DEF Turns, Closes

-----------------------------------------------------------------------------
(* Followers agree. *)

LEMMA RowsOfBlock ==
  ASSUME NEW before \in Seq(Row), NEW rows \in Seq(Row)
  PROVE  SubSeq(before \o rows, Len(before) + 1, Len(before \o rows)) = rows
  <1>1. Len(before \o rows) = Len(before) + Len(rows)
    BY ConcatProperties
  <1>2. SubSeq(before \o rows, Len(before) + 1, Len(before) + Len(rows))
          = SubSeq(rows, 1, Len(rows))
    <2>1. Len(before) \in Nat /\ Len(rows) \in Nat
      OBVIOUS
    <2>2. SubSeq(before \o rows, Len(before) + 1, Len(before) + Len(rows))
            = SubSeq(rows, Len(before) + 1 - Len(before), Len(before) + Len(rows) - Len(before))
      BY <2>1, SubSeqOfConcat2
    <2>3. Len(before) + 1 - Len(before) = 1 /\ Len(before) + Len(rows) - Len(before) = Len(rows)
      BY <2>1
    <2> QED
      BY <2>2, <2>3
  <1>3. SubSeq(rows, 1, Len(rows)) = rows
    BY SubSeqFull
  <1> QED
    BY <1>1, <1>2, <1>3

LEMMA AgreeStep ==
  ASSUME TypeOK, WindowInv, PanelInv, CacheInv,
         NEW frame, IsNext(frame), NEW rows \in BlockRows(frame), ReplayBlock(frame, rows)
  PROVE  Transaction(truth', SubSeq(commitments', Len(commitments) + 1, Len(commitments')))
  <1>1. /\ Follows(frame) /\ IsFrame(frame) /\ truth' = frame
        /\ Transaction(Merged(cache', frame), rows)
    BY FollowsFrame DEF IsNext, TypeOK, ReplayBlock, Ingest
  <1>2. rows \in Seq(Row) /\ commitments \in Seq(Row)
    BY <1>1, RowsTyped DEF TypeOK
  <1>3. commitments' = commitments \o rows
    BY ReplayIsBlock, IngestParts
  <1>4. SubSeq(commitments', Len(commitments) + 1, Len(commitments')) = rows
    BY <1>2, <1>3, RowsOfBlock
  <1>5. Transaction(frame, rows)
    <2>1. CASE rows # <<>> \/ Boundary(frame)
      <3>1. Merged(cache', frame) = frame
        BY <2>1, MergedFrame
      <3> QED
        BY <1>1, <3>1
    <2>2. CASE rows = <<>> /\ ~ Boundary(frame)
      <3>1. ~ Turns(frame)
        BY <1>1, <2>2, NoTurnBefore
      <3>2. ~ Turns(Merged(cache', frame))
        BY <3>1, MergedFrame DEF Turns, Closes
      <3> QED
        BY <1>1, <2>2, <3>1, <3>2, QuietBlock
    <2> QED
      BY <2>1, <2>2
  <1> QED
    BY <1>1, <1>4, <1>5

(* Whatever was cached, lost in a restart or read again on the way, each   *)
(* block changes every table exactly as its own snapshot would have: two   *)
(* followers of one chain hold one ledger.                                 *)
THEOREM ReplaysAgree == ReplaySpec => FollowersAgree
  <1> DEFINE Agrees == truth' # truth =>
        Transaction(truth', SubSeq(commitments', Len(commitments) + 1, Len(commitments')))
  <1>1. TypeOK /\ WindowInv /\ PanelInv /\ CacheInv /\ [ReplayNext]_replayVars => [Agrees]_replayVars
    <2> SUFFICES ASSUME TypeOK, WindowInv, PanelInv, CacheInv, ReplayNext PROVE Agrees
      OBVIOUS
    <2>1. CASE Restart
      BY <2>1 DEF Restart
    <2>2. ASSUME NEW frame, IsNext(frame), NEW rows \in BlockRows(frame), ReplayBlock(frame, rows)
          PROVE  Agrees
      BY <2>2, AgreeStep
    <2> QED
      BY <2>1, <2>2, ReplaySteps
  <1>2. ReplaySpec => [][Agrees]_replayVars
    BY <1>1, ReplayImplementsLedger, TypeInvariant, WindowInvariant, PanelInvariant, CacheInvariant, PTL DEF ReplaySpec
  <1> QED
    BY <1>2, PTL DEF FollowersAgree
==============================================================================
