---------------------------- MODULE Ledger_proofs -----------------------------
(***************************************************************************)
(* What holds of the ledger for every set of hotkeys, evaluators, models,  *)
(* windows and every schedule.  The proofs of attempts follow the table    *)
(* `uses` through the four steps of `ingest` that write it.                *)
(***************************************************************************)
EXTENDS Ledger, TLAPS

-----------------------------------------------------------------------------
(* What each writer of `uses` does to one entry. *)

(* A loss is charged only to an attempt nothing was recorded for. *)
LEMMA LossesKeep ==
  ASSUME NEW decision, NEW k \in Key
  PROVE  LET u == UsesAfterLosses(decision)[k]
         IN  u = uses[k] \/ (uses[k] = None /\ u.window = active.id)
  BY DEF UsesAfterLosses

(* A row is recorded only for an attempt nothing was recorded for. *)
LEMMA RowsKeep ==
  ASSUME NEW rows, NEW opening, NEW used, NEW snap, NEW k \in Key
  PROVE  LET first == FirstOf(rows, Accepted(rows, opening, used, snap))
             u     == UsesAfterRows(rows, first, opening, used)[k]
         IN  u = used[k] \/ (used[k] = None /\ u.window = opening.id)
  <1> DEFINE first == FirstOf(rows, Accepted(rows, opening, used, snap))
             mine  == { i \in first : /\ rows[i].hotkey = k[1]
                                      /\ opening.candidates[rows[i].value.model].hotkey = k[2] }
  <1>1. k = <<k[1], k[2]>>
    BY DEF Key
  <1>2. mine # {} => used[k] = None
    BY <1>1 DEF FirstOf, Accepted
  <1>3. UsesAfterRows(rows, first, opening, used)[k] =
          IF opening.king # None /\ mine # {}
          THEN [window |-> opening.id, value |-> rows[CHOOSE i \in mine : TRUE].value]
          ELSE used[k]
    BY DEF UsesAfterRows
  <1> HIDE DEF first, mine
  <1>4. \/ UsesAfterRows(rows, first, opening, used)[k] = used[k]
        \/ /\ used[k] = None
           /\ UsesAfterRows(rows, first, opening, used)[k].window = opening.id
    BY <1>2, <1>3
  <1> QED
    BY <1>4 DEF first

(* A complete pair is recorded only for attempts nothing was recorded for. *)
LEMMA PanelsKeep ==
  ASSUME NEW opening, NEW waiting, NEW used, NEW k \in Key
  PROVE  LET u == UsesAfterPanels(opening, waiting, used)[k]
         IN  u = used[k] \/ (used[k] = None /\ u.window = opening.id)
  BY DEF UsesAfterPanels

-----------------------------------------------------------------------------
(* What a block does to the bookkeeping of windows and attempts. *)

Closes(snap) == active # None /\ WindowOf(snap.epoch) # active.id
Turns(snap) == active = None \/ Closes(snap)
Resets(snap) == Turns(snap) /\ WindowOf(snap.epoch) >= ResetWindow /\ reset = None

(* The block of a turn opens the window of its epoch; any other block keeps *)
(* the open window.  The reset is recorded by the block that performs it.  *)
LEMMA IngestWindow ==
  ASSUME NEW snap, NEW rows, Ingest(snap, rows)
  PROVE  /\ snapshot' = snap
         /\ Turns(snap) => active'.id = WindowOf(snap.epoch)
         /\ ~ Turns(snap) => active' = active
         /\ Resets(snap) => reset' = [window |-> ResetWindow, block |-> snap.block]
         /\ ~ Resets(snap) => reset' = reset /\ archive' = archive
  BY DEF Ingest, Transaction, Turns, Closes, Resets, Opening

(* The four writers in their order: losses of the close, the reset, the    *)
(* rows of the block, complete pairs.                                      *)
LEMMA IngestUses ==
  ASSUME NEW snap, NEW rows, Ingest(snap, rows), NEW k \in Key
  PROVE  /\ ~ Resets(snap) =>
              \/ uses'[k] = uses[k]
              \/ uses[k] = None /\ uses'[k].window = active'.id
              \/ Closes(snap) /\ uses[k] = None /\ uses'[k].window = active.id
         /\ Resets(snap) =>
              /\ uses'[k] = None \/ uses'[k].window = active'.id
              /\ \/ archive'.uses[k] = uses[k]
                 \/ Closes(snap) /\ uses[k] = None /\ archive'.uses[k].window = active.id
  <1> DEFINE decision == Closing(snap)
             losses   == IF Closes(snap) THEN UsesAfterLosses(decision) ELSE uses
             used     == IF Resets(snap) THEN [q \in Key |-> None] ELSE losses
             first    == FirstOf(rows, Accepted(rows, active', used, snap))
             after1   == UsesAfterRows(rows, first, active', used)
  <1>1. PICK waiting : uses' = UsesAfterPanels(active', waiting, after1)
    BY DEF Ingest, Transaction, Turns, Closes, Resets
  <1>2. Resets(snap) => archive'.uses = losses
    BY DEF Ingest, Transaction, Turns, Closes, Resets
  <1>3. losses[k] = uses[k] \/ (Closes(snap) /\ uses[k] = None /\ losses[k].window = active.id)
    BY LossesKeep
  <1>4. Resets(snap) => used[k] = None
    OBVIOUS
  <1>5. ~ Resets(snap) => used[k] = losses[k]
    OBVIOUS
  <1> HIDE DEF losses, used
  <1>6. after1[k] = used[k] \/ (used[k] = None /\ after1[k].window = active'.id)
    BY RowsKeep
  <1> HIDE DEF after1
  <1>7. uses'[k] = after1[k] \/ (after1[k] = None /\ uses'[k].window = active'.id)
    BY <1>1, PanelsKeep
  <1> QED
    BY <1>2, <1>3, <1>4, <1>5, <1>6, <1>7

Follows(snap) ==
  /\ snap.block = snapshot.block + 1
  /\ snap.epoch \in {snapshot.epoch, snapshot.epoch + 1}
  /\ snap.uids \in Registrations
  /\ snap.validators \in Stakes

LEMMA SomeBlock ==
  ASSUME NextBlock
  PROVE  \E snap : Follows(snap) /\ \E rows \in BlockRows(snap) : Ingest(snap, rows)
  <1>1. PICK epoch \in {snapshot.epoch, snapshot.epoch + 1}, uids \in Registrations, validators \in Stakes :
          LET snap == [block |-> snapshot.block + 1, epoch |-> epoch, uids |-> uids, validators |-> validators]
          IN  \E rows \in BlockRows(snap) : Ingest(snap, rows)
    BY Zenon DEF NextBlock
  <1> DEFINE snap == [block |-> snapshot.block + 1, epoch |-> epoch, uids |-> uids, validators |-> validators]
  <1>2. Follows(snap)
    BY DEF Follows
  <1> HIDE DEF snap
  <1> QED
    BY <1>1, <1>2 DEF snap

-----------------------------------------------------------------------------
(* Types: what each step of a block hands to the next. *)

LEMMA DecidedKingTyped ==
  ASSUME NEW rows, NEW history, NEW window, NEW policy, NEW holder \in Entry \cup {None},
         NEW candidates, \A m \in DOMAIN candidates : candidates[m] \in Entry, NEW snap
  PROVE  Decide(rows, history, window, policy, holder, candidates, snap).king \in Entry \cup {None}
  <1> DEFINE decision == Decide(rows, history, window, policy, holder, candidates, snap)
  <1>1. PICK all, eligible, open :
          /\ eligible \subseteq DOMAIN candidates
          /\ LET chosen == Chosen(all, eligible, open, holder, candidates)
                 winner == IF chosen = {} THEN holder ELSE candidates[CHOOSE m \in chosen : TRUE]
             IN  decision.king = IF winner = None THEN None
                                 ELSE IF winner.hotkey \in DOMAIN snap.uids THEN winner ELSE None
    <2> DEFINE votes == ValidVotes(rows, history, window, policy, holder, candidates, snap)
               all   == Aggregates(rows, votes, candidates, snap)
               kept  == { m \in DOMAIN all : ~ TooPoor(all[m]) }
               open  == { m \in kept : all[m].bounded /\ Improves(all[m]) }
               eligible == { m \in kept : candidates[m].hotkey \in DOMAIN snap.uids /\ Eligible(all[m], holder) }
    <2>1. eligible \subseteq DOMAIN candidates
      BY DEF Aggregates
    <2>2. decision.king = Enthroned(Winner(Chosen(all, eligible, open, holder, candidates), holder, candidates), snap)
      BY DEF Decide, Weighed, Decision
    <2> HIDE DEF all, eligible, open, decision
    <2> QED
      BY <2>1, <2>2 DEF Enthroned, Winner
  <1>2. Chosen(all, eligible, open, holder, candidates) \subseteq DOMAIN candidates
    BY <1>1 DEF Chosen
  <1> HIDE DEF decision
  <1> QED
    BY <1>1, <1>2 DEF decision

(* What a decision charges as a loss is a result of the history it was given. *)
LEMMA DecidedLossesTyped ==
  ASSUME NEW rows, NEW history, NEW window, NEW policy, NEW holder, NEW candidates, NEW snap,
         NEW row \in Decide(rows, history, window, policy, holder, candidates, snap).early_losses
  PROVE  \E i \in history : row = rows[i] /\ IsResult(rows[i])
  <1>1. PICK i \in ValidVotes(rows, history, window, policy, holder, candidates, snap) : row = rows[i]
    BY DEF Decide, Weighed, Decision
  <1>2. i \in Measured(rows, Counted(rows, history, window, policy, snap), candidates)
    BY <1>1 DEF ValidVotes, Votes, Terminals
  <1> QED
    BY <1>1, <1>2 DEF Measured, Counted

LEMMA AdmittedTyped ==
  ASSUME NEW bound \in [Hotkey -> Entry \cup {None}], NEW out, NEW snap, IsFrame(snap)
  PROVE  Admitted(bound, out, snap) \subseteq Entry
  BY DEF Admitted, Entry, IsFrame

LEMMA PanelTyped ==
  ASSUME NEW entries \in SUBSET Entry
  PROVE  LET panel == Panel(entries)
         IN  /\ DOMAIN panel \subseteq Challenge
             /\ panel \in [DOMAIN panel -> Entry]
             /\ \A m \in DOMAIN panel : panel[m].model = m
  BY DEF Panel, Entry

LEMMA OpeningTyped ==
  ASSUME NEW snap, IsFrame(snap), NEW window \in Nat, NEW holder \in Entry \cup {None},
         NEW entries \in SUBSET Entry, NEW last
  PROVE  IsOpening(Opening(snap, window, holder, entries, last))
  <1> DEFINE reigning == ReigningKing(holder, snap)
             chosen   == IF reigning = None THEN Pair(entries, last)
                         ELSE { e \in entries : e.model # reigning.model }
             opening  == Opening(snap, window, holder, entries, last)
  <1>1. reigning \in Entry \cup {None}
    BY DEF ReigningKing, Entry, IsFrame
  <1>2. chosen \in SUBSET Entry
    BY DEF Pair
  <1>3. opening = [ id |-> window, start_block |-> snap.block, end_epoch |-> WindowEpochs * (window + 1),
                    king |-> reigning, candidates |-> Panel(chosen), policy_hash |-> PolicyFor(window) ]
    BY DEF Opening
  <1>4. WindowEpochs * (window + 1) \in Nat
    BY LedgerAssumption
  <1>5. PolicyFor(window) \in Policy
    BY LedgerAssumption DEF PolicyFor
  <1>6. snap.block \in Nat
    BY DEF IsFrame
  <1> HIDE DEF reigning, chosen, opening
  <1>7. IsOpening(opening)
    BY <1>1, <1>2, <1>3, <1>4, <1>5, <1>6, PanelTyped DEF IsOpening, OpeningOf
  <1> QED
    BY <1>7 DEF opening

LEMMA ReportedTyped ==
  ASSUME NEW row \in Row, IsResult(row)
  PROVE  row.value \in Result
  BY DEF Row, IsResult, Submission

LEMMA SubmittedTyped ==
  ASSUME NEW row \in Row, row.value.kind = "submission"
  PROVE  row.value.model \in Model
  BY DEF Row, Result, Submission

LEMMA BindingTyped ==
  ASSUME NEW rows \in Seq(Row), NEW h \in Hotkey, NEW snap, IsFrame(snap),
         NEW bound \in [Hotkey -> Entry \cup {None}]
  PROVE  FirstBinding(rows, h, snap, bound) \in Entry \cup {None}
  <1> DEFINE mine  == { i \in DOMAIN rows : rows[i].hotkey = h /\ rows[i].value.kind = "submission" }
             first == { i \in mine : \A j \in mine : i <= j }
  <1>1. CASE bound[h] # None \/ first = {} \/ h \notin DOMAIN snap.uids
    BY <1>1 DEF FirstBinding
  <1>2. CASE bound[h] = None /\ first # {} /\ h \in DOMAIN snap.uids
    <2> DEFINE i == CHOOSE j \in first : TRUE
    <2>1. i \in DOMAIN rows /\ rows[i].value.kind = "submission"
      BY <1>2
    <2>2. rows[i].value.model \in Model
      BY <2>1, SubmittedTyped
    <2>3. FirstBinding(rows, h, snap, bound) =
            [ block |-> snap.block, hotkey |-> h, coldkey |-> ColdkeyOf[h], uid |-> snap.uids[h],
              model |-> <<h, rows[i].value.model>> ]
      BY <1>2 DEF FirstBinding
    <2> HIDE DEF i
    <2> QED
      BY <1>2, <2>2, <2>3, LedgerAssumption DEF Entry, Challenge, IsFrame
  <1> QED
    BY <1>1, <1>2

LEMMA LossesTyped ==
  ASSUME uses \in [Key -> Use \cup {None}], commitments \in Seq(Row), active.id \in Nat, NEW snap
  PROVE  UsesAfterLosses(Closing(snap)) \in [Key -> Use \cup {None}]
  <1> DEFINE losses == Closing(snap).early_losses
  <1>1. ASSUME NEW row \in losses PROVE row.value \in Result
    <2>1. PICK i \in VotingHistory(active, snap.block) : row = commitments[i] /\ IsResult(commitments[i])
      BY DecidedLossesTyped DEF Closing
    <2>2. commitments[i] \in Row
      BY <2>1 DEF VotingHistory
    <2> QED
      BY <2>1, <2>2, ReportedTyped
  <1> HIDE DEF losses
  <1>2. UsesAfterLosses(Closing(snap)) =
          [ k \in Key |->
              LET lost == { row \in losses : /\ row.hotkey = k[1]
                                             /\ active.candidates[row.value.model].hotkey = k[2] }
              IN  IF uses[k] = None /\ lost # {}
                  THEN [window |-> active.id, value |-> (CHOOSE row \in lost : TRUE).value]
                  ELSE uses[k] ]
    BY DEF UsesAfterLosses, losses
  <1> QED
    BY <1>1, <1>2 DEF Use

LEMMA RowUsesTyped ==
  ASSUME NEW rows \in Seq(Row), NEW opening, opening.id \in Nat, NEW used \in [Key -> Use \cup {None}],
         NEW others, NEW snap
  PROVE  UsesAfterRows(rows, FirstOf(rows, Accepted(rows, opening, others, snap)), opening, used)
           \in [Key -> Use \cup {None}]
  <1> DEFINE first == FirstOf(rows, Accepted(rows, opening, others, snap))
  <1>1. ASSUME NEW i \in first PROVE rows[i].value \in Result
    <2>1. i \in DOMAIN rows /\ IsResult(rows[i])
      BY DEF FirstOf, Accepted
    <2> QED
      BY <2>1, ReportedTyped
  <1> HIDE DEF first
  <1>2. UsesAfterRows(rows, first, opening, used) \in [Key -> Use \cup {None}]
    BY <1>1 DEF UsesAfterRows, Use
  <1> QED
    BY <1>2 DEF first

LEMMA PendingTyped ==
  ASSUME NEW rows \in Seq(Row), NEW opening, opening.id \in Nat, NEW used,
         NEW snap, IsFrame(snap), NEW waiting \in SUBSET Waiting
  PROVE  PendingAfterRows(rows, FirstOf(rows, Accepted(rows, opening, used, snap)), opening, waiting)
           \subseteq Waiting
  <1> DEFINE first == FirstOf(rows, Accepted(rows, opening, used, snap))
  <1>1. ASSUME NEW i \in first PROVE rows[i].value \in Result /\ rows[i].hotkey \in Validator
    <2>1. i \in DOMAIN rows /\ IsResult(rows[i]) /\ rows[i].hotkey \in DOMAIN snap.validators
      BY DEF FirstOf, Accepted
    <2> QED
      BY <2>1, ReportedTyped DEF IsFrame
  <1> HIDE DEF first
  <1>2. PendingAfterRows(rows, first, opening, waiting) \subseteq Waiting
    BY <1>1 DEF PendingAfterRows, Waiting
  <1> QED
    BY <1>2 DEF first

LEMMA PanelUsesTyped ==
  ASSUME NEW opening, opening.id \in Nat, NEW waiting \in SUBSET Waiting,
         NEW used \in [Key -> Use \cup {None}]
  PROVE  UsesAfterPanels(opening, waiting, used) \in [Key -> Use \cup {None}]
  <1> DEFINE Half(v, m) == { p \in waiting : p.evaluator = v /\ p.window = opening.id /\ p.value.model = m }
             Complete(v) == /\ opening.king = None /\ Cardinality(DOMAIN opening.candidates) = 2
                            /\ \A m \in DOMAIN opening.candidates : Half(v, m) # {}
             Mine(k) == { m \in DOMAIN opening.candidates : opening.candidates[m].hotkey = k[2] }
             Picked(k) == CHOOSE m \in Mine(k) : TRUE
             Value(k) == (CHOOSE p \in Half(k[1], Picked(k)) : TRUE).value
  <1>1. UsesAfterPanels(opening, waiting, used) =
          [ k \in Key |-> IF used[k] = None /\ Mine(k) # {} /\ Complete(k[1])
                          THEN [window |-> opening.id, value |-> Value(k)] ELSE used[k] ]
    BY DEF UsesAfterPanels
  <1>2. ASSUME NEW k \in Key, Mine(k) # {}, Complete(k[1])
        PROVE  Value(k) \in Result
    <2>1. Picked(k) \in DOMAIN opening.candidates
      BY <1>2
    <2>2. Half(k[1], Picked(k)) # {}
      BY <1>2, <2>1
    <2> HIDE DEF Chosen
    <2>3. (CHOOSE p \in Half(k[1], Picked(k)) : TRUE) \in waiting
      BY <2>2
    <2> QED
      BY <2>3 DEF Waiting
  <1> HIDE DEF Complete, Mine, Value
  <1> QED
    BY <1>1, <1>2 DEF Use

LEMMA WindowOfNat ==
  ASSUME NEW epoch \in Nat
  PROVE  WindowOf(epoch) \in Nat
  BY LedgerAssumption DEF WindowOf

(* A turn is the only step that opens a window, in the slot of its epoch. *)
LEMMA IngestWindows ==
  ASSUME NEW snap, NEW rows, Ingest(snap, rows)
  PROVE  /\ ~ Turns(snap) => DOMAIN windows' = DOMAIN windows
         /\ Turns(snap) => DOMAIN windows' = DOMAIN windows \cup {WindowOf(snap.epoch)}
         /\ \A w \in DOMAIN windows' :
              \/ Turns(snap) /\ w = WindowOf(snap.epoch) /\ windows'[w] = [opening |-> active', decision |-> None]
              \/ /\ w \in DOMAIN windows
                 /\ Turns(snap) => w # WindowOf(snap.epoch)
                 /\ \/ windows'[w] = windows[w]
                    \/ /\ Closes(snap) /\ w = active.id
                       /\ windows'[w] = [windows[w] EXCEPT !.decision = Closing(snap)]
  <1> DEFINE window == WindowOf(snap.epoch)
  <1>1. windows' = [ w \in DOMAIN windows \cup (IF Turns(snap) THEN {window} ELSE {}) |->
                       IF Turns(snap) /\ w = window THEN [opening |-> active', decision |-> None]
                       ELSE IF Closes(snap) /\ w = active.id THEN [windows[w] EXCEPT !.decision = Closing(snap)]
                       ELSE windows[w] ]
    BY DEF Ingest, Transaction, Turns, Closes
  <1> HIDE DEF window
  <1>2. CASE Turns(snap)
    BY <1>1, <1>2 DEF window
  <1>3. CASE ~ Turns(snap)
    BY <1>1, <1>3 DEF Turns
  <1> QED
    BY <1>2, <1>3

LEMMA OpensWindow ==
  ASSUME NEW snap, NEW rows, Ingest(snap, rows), Turns(snap)
  PROVE  /\ DOMAIN windows' = DOMAIN windows \cup {WindowOf(snap.epoch)}
         /\ windows'[WindowOf(snap.epoch)].opening = active'
         /\ windows'[WindowOf(snap.epoch)].decision = None
  <1> DEFINE window == WindowOf(snap.epoch)
  <1>1. DOMAIN windows' = DOMAIN windows \cup {window}
    BY IngestWindows
  <1>2. window \in DOMAIN windows'
    BY <1>1
  <1> HIDE DEF window
  <1>3. windows'[window] = [opening |-> active', decision |-> None]
    BY <1>2, IngestWindows DEF window
  <1>4. windows'[window].opening = active' /\ windows'[window].decision = None
    BY <1>3
  <1> QED
    BY <1>1, <1>4 DEF window

LEMMA SubmittingTyped ==
  ASSUME NEW snap, IsFrame(snap)
  PROVE  Submitting(snap) \subseteq Row
  BY DEF Submitting, Row, IsFrame, Submission

LEMMA ReportsTyped ==
  ASSUME NEW snap, IsFrame(snap), NEW w \in Nat, NEW m \in Challenge, NEW uid \in Uid,
         NEW shapes \in SUBSET (Shapes \cup LateShapes)
  PROVE  Reports(snap, w, m, uid, shapes) \subseteq Row
  <1>1. PolicyFor(w) \in Policy
    BY LedgerAssumption DEF PolicyFor
  <1>2. ASSUME NEW row \in Reports(snap, w, m, uid, shapes)
        PROVE  row \in Row
    <2>1. PICK v \in Validator, s \in shapes :
            row = [ block |-> snap.block, hotkey |-> v,
                    value |-> [ kind |-> "result", window |-> w, uid |-> uid, model |-> m,
                                policy |-> PolicyFor(w), quality |-> s.quality, reward |-> s.reward,
                                king_quality |-> s.king_quality, king_reward |-> s.king_reward,
                                flags |-> s.flags ] ]
      BY DEF Reports
    <2>2. Sound(s)
      BY LedgerAssumption
    <2>3. row.value \in Result
      BY <1>1, <2>1, <2>2 DEF Result, Sound
    <2> QED
      BY <2>1, <2>3 DEF Row, IsFrame
  <1> QED
    BY <1>2

LEMMA ReportingTyped ==
  ASSUME NEW snap, IsFrame(snap), TypeOK
  PROVE  Reporting(snap) \subseteq Row
  <1>1. ASSUME NEW w \in DOMAIN windows, NEW shapes \in SUBSET (Shapes \cup LateShapes)
        PROVE  OfPanel(snap, w, shapes) \subseteq Row /\ OfKing(snap, w, shapes) \subseteq Row
    <2> DEFINE o == windows[w].opening
    <2>1. w \in Nat /\ IsOpening(o)
      BY DEF TypeOK
    <2>2. ASSUME NEW m \in DOMAIN o.candidates,
                 NEW uid \in {o.candidates[m].uid} \cup { snap.uids[h] : h \in DOMAIN snap.uids \cap {m[1]} }
          PROVE  Reports(snap, w, m, uid, shapes) \subseteq Row
      BY <2>1, ReportsTyped DEF IsOpening, OpeningOf, Entry, IsFrame
    <2>3. o.king # None => Reports(snap, w, o.king.model, o.king.uid, shapes) \subseteq Row
      BY <2>1, ReportsTyped DEF IsOpening, OpeningOf, Entry
    <2> QED
      BY <2>2, <2>3 DEF OfPanel, OfKing
  <1> DEFINE now       == WindowOf(snap.epoch)
             Baselines == { s \in Shapes : "BASELINE" \in s.flags }
  <1>2. ASSUME NEW row \in Reporting(snap)
        PROVE  \/ \E w \in {now} \cap DOMAIN windows :
                    row \in OfPanel(snap, w, Shapes \ Baselines) \cup OfKing(snap, w, Baselines)
               \/ \E w \in {now - 1} \cap DOMAIN windows : row \in OfPanel(snap, w, LateShapes)
    BY DEF Reporting
  <1>3. /\ Shapes \ Baselines \in SUBSET (Shapes \cup LateShapes)
        /\ Baselines \in SUBSET (Shapes \cup LateShapes)
        /\ LateShapes \in SUBSET (Shapes \cup LateShapes)
    OBVIOUS
  <1> HIDE DEF now, Baselines
  <1>4. \A w \in DOMAIN windows : /\ OfPanel(snap, w, Shapes \ Baselines) \subseteq Row
                                  /\ OfKing(snap, w, Baselines) \subseteq Row
                                  /\ OfPanel(snap, w, LateShapes) \subseteq Row
    BY <1>1, <1>3
  <1> QED
    BY <1>2, <1>4

LEMMA RowsTyped ==
  ASSUME NEW snap, IsFrame(snap), TypeOK, NEW rows \in BlockRows(snap)
  PROVE  rows \in Seq(Row)
  <1>1. PICK n \in 0..MaxRows : rows \in [1..n -> Submitting(snap) \cup Reporting(snap)]
    BY DEF BlockRows
  <1> QED
    BY <1>1, SubmittingTyped, ReportingTyped, LedgerAssumption

LEMMA ResetMarks ==
  ASSUME NEW snap, IsFrame(snap), NEW rows, Ingest(snap, rows), Resets(snap)
  PROVE  reset' # None
  BY IngestWindow, LedgerAssumption DEF Reset, IsFrame

LEMMA ArchiveStep ==
  ASSUME TypeOK, NEW snap, IsFrame(snap), NEW rows \in Seq(Row), Ingest(snap, rows), Resets(snap)
  PROVE  archive' \in Archive
  <1> DEFINE losses == IF Closes(snap) THEN UsesAfterLosses(Closing(snap)) ELSE uses
  <1>1. archive' = [submissions |-> submissions, uses |-> losses, pending |-> pending]
    BY DEF Ingest, Transaction, Turns, Closes, Resets
  <1>2. losses \in [Key -> Use \cup {None}]
    BY LossesTyped DEF TypeOK, Closes, IsOpening, OpeningOf
  <1> HIDE DEF losses
  <1> QED
    BY <1>1, <1>2 DEF TypeOK, Archive

LEMMA TypeStep ==
  ASSUME TypeOK, NEW snap, IsFrame(snap), NEW rows \in Seq(Row), Ingest(snap, rows)
  PROVE  TypeOK'
  <1> DEFINE window   == WindowOf(snap.epoch)
             decision == Closing(snap)
             holder   == IF Closes(snap) THEN decision.king ELSE king
             losses   == IF Closes(snap) THEN UsesAfterLosses(decision) ELSE uses
             retiring == IF Closes(snap) THEN RetiredAfter(decision, losses, snap) ELSE retired
             bound    == IF Resets(snap) THEN [h \in Hotkey |-> None] ELSE submissions
             used     == IF Resets(snap) THEN [k \in Key |-> None] ELSE losses
             waiting  == IF Resets(snap) THEN {} ELSE pending
             out      == IF Resets(snap) THEN {} ELSE retiring
             last     == IF Resets(snap) THEN None ELSE after
             entries  == Admitted(bound, out, snap)
             opening  == IF Turns(snap) THEN Opening(snap, window, holder, entries, last) ELSE active
             first    == FirstOf(rows, Accepted(rows, opening, used, snap))
             waiting1 == PendingAfterRows(rows, first, opening, waiting)
  <1>1. /\ snapshot' = snap
        /\ commitments' = commitments \o rows
        /\ submissions' = [h \in Hotkey |-> FirstBinding(rows, h, snap, bound)]
        /\ active' = opening
        /\ king' = holder
        /\ uses' = UsesAfterPanels(opening, waiting1, UsesAfterRows(rows, first, opening, used))
        /\ pending' = waiting1
        /\ retired' = out
        /\ after' = IF Turns(snap) THEN AfterOpening(opening, entries, last) ELSE last
        /\ reset' = IF Resets(snap) THEN [window |-> ResetWindow, block |-> snap.block] ELSE reset
        /\ ~ Resets(snap) => archive' = archive
    BY DEF Ingest, Transaction, Turns, Closes, Resets
  <1>2. window \in Nat
    BY WindowOfNat DEF IsFrame
  <1>3. active # None => /\ active.id \in Nat /\ active.king \in Entry \cup {None}
                         /\ \A m \in DOMAIN active.candidates : active.candidates[m] \in Entry
    BY DEF TypeOK, IsOpening, OpeningOf
  <1>4. holder \in Entry \cup {None}
    BY <1>3, DecidedKingTyped DEF TypeOK, Closes, Closing
  <1>5. losses \in [Key -> Use \cup {None}]
    BY <1>3, LossesTyped DEF TypeOK, Closes
  <1>22. archive' \in Archive \cup {None}
    BY <1>1, ArchiveStep DEF TypeOK
  <1>6. retiring \subseteq Hotkey
    BY <1>3 DEF TypeOK, Closes, RetiredAfter, Entry
  <1>7. bound \in [Hotkey -> Entry \cup {None}]
    BY DEF TypeOK
  <1>8. used \in [Key -> Use \cup {None}]
    BY <1>5
  <1>9. waiting \in SUBSET Waiting
    BY DEF TypeOK
  <1>10. out \subseteq Hotkey /\ last \in Hotkey \cup {None}
    BY <1>6 DEF TypeOK
  <1> HIDE DEF decision, holder, losses, retiring, bound, used, waiting, out, last
  <1>11. entries \in SUBSET Entry
    BY <1>7, AdmittedTyped
  <1> HIDE DEF entries
  <1>12. IsOpening(opening)
    BY <1>2, <1>4, <1>11, OpeningTyped DEF TypeOK, Turns
  <1>13. opening.id \in Nat
    BY <1>12 DEF IsOpening, OpeningOf
  <1> HIDE DEF opening
  <1>14. waiting1 \in SUBSET Waiting
    BY <1>9, <1>13, PendingTyped
  <1>15. UsesAfterRows(rows, first, opening, used) \in [Key -> Use \cup {None}]
    BY <1>8, <1>13, RowUsesTyped
  <1> HIDE DEF waiting1, first, window
  <1>16. commitments' \in Seq(Row)
    BY <1>1 DEF TypeOK
  <1>17. submissions' \in [Hotkey -> Entry \cup {None}]
    BY <1>1, <1>7, BindingTyped
  <1>18. DOMAIN windows' \subseteq Nat /\ \A w \in DOMAIN windows' : IsOpening(windows'[w].opening)
    <2>1. DOMAIN windows' \subseteq DOMAIN windows \cup {window}
      BY IngestWindows DEF window
    <2>2. \A w \in DOMAIN windows' :
            \/ windows'[w].opening = opening
            \/ w \in DOMAIN windows /\ windows'[w].opening = windows[w].opening
      <3> SUFFICES ASSUME NEW w \in DOMAIN windows'
                   PROVE  \/ windows'[w].opening = opening
                          \/ w \in DOMAIN windows /\ windows'[w].opening = windows[w].opening
        OBVIOUS
      <3>1. CASE windows'[w] = [opening |-> active', decision |-> None]
        BY <3>1, <1>1
      <3>2. CASE w \in DOMAIN windows /\ windows'[w] = windows[w]
        BY <3>2
      <3>3. CASE w \in DOMAIN windows /\ windows'[w] = [windows[w] EXCEPT !.decision = Closing(snap)]
        BY <3>3
      <3> QED
        BY <3>1, <3>2, <3>3, IngestWindows
    <2> QED
      BY <1>2, <1>12, <2>1, <2>2 DEF TypeOK
  <1>19. uses' \in [Key -> Use \cup {None}]
    BY <1>1, <1>13, <1>14, <1>15, PanelUsesTyped
  <1>20. after' \in Hotkey \cup {None}
    <2>1. AfterOpening(opening, entries, last) \in Hotkey \cup {None}
      BY <1>10, <1>11 DEF AfterOpening, Entry
    <2> QED
      BY <1>1, <1>10, <2>1
  <1>21. reset' \in Reset \cup {None}
    BY <1>1, LedgerAssumption DEF TypeOK, Reset, IsFrame
  <1> QED
    BY <1>1, <1>4, <1>10, <1>12, <1>14, <1>16, <1>17, <1>18, <1>19, <1>20, <1>21, <1>22 DEF TypeOK

LEMMA FollowsFrame ==
  ASSUME NEW snap, Follows(snap), IsFrame(snapshot)
  PROVE  IsFrame(snap) /\ snap.epoch >= snapshot.epoch
  BY LedgerAssumption DEF Follows, IsFrame

(* Every table of the ledger holds what its columns say. *)
THEOREM TypeInvariant == Spec => []TypeOK
  <1>1. Init => TypeOK
    BY DEF Init, TypeOK, IsFrame
  <1>2. TypeOK /\ [Next]_vars => TypeOK'
    <2> SUFFICES ASSUME TypeOK, [Next]_vars PROVE TypeOK'
      OBVIOUS
    <2>1. CASE UNCHANGED vars
      BY <2>1 DEF TypeOK, vars
    <2>2. CASE Next
      <3>1. PICK snap : Follows(snap) /\ \E rows \in BlockRows(snap) : Ingest(snap, rows)
        BY <2>2, SomeBlock DEF Next
      <3>2. IsFrame(snap)
        BY <3>1, FollowsFrame DEF TypeOK
      <3> QED
        BY <3>1, <3>2, RowsTyped, TypeStep
    <2> QED
      BY <2>1, <2>2
  <1> QED
    BY <1>1, <1>2, PTL DEF Spec

-----------------------------------------------------------------------------
(* Attempts. *)

(* First terminal result wins, whatever the chain brings: an entry of the  *)
(* table is never rewritten, and leaves only into the archive of the reset.*)
THEOREM FirstResultStays == Spec => UsesNeverRewritten
  <1> DEFINE Keeps == \A k \in Key : uses[k] # None =>
                        \/ uses'[k] = uses[k]
                        \/ reset = None /\ reset' # None /\ archive'.uses[k] = uses[k]
  <1>1. TypeOK /\ [Next]_vars => [Keeps]_vars
    <2> SUFFICES ASSUME TypeOK, Next PROVE [Keeps]_vars
      OBVIOUS
    <2>1. PICK snap, rows : Follows(snap) /\ Ingest(snap, rows)
      BY SomeBlock DEF Next
    <2>2. IsFrame(snap)
      BY <2>1, FollowsFrame DEF TypeOK
    <2>3. Resets(snap) => reset = None /\ reset' # None
      BY <2>1, <2>2, ResetMarks DEF Resets
    <2> QED
      BY <2>1, <2>3, IngestUses
  <1>2. Spec => [][Keeps]_vars
    BY <1>1, TypeInvariant, PTL DEF Spec
  <1> QED
    BY <1>2, PTL DEF UsesNeverRewritten

-----------------------------------------------------------------------------
(* Windows.  The strengthening: the active window is the one of the last   *)
(* ingested block, it is open, every other window is older, and before the *)
(* reset there is no archive.                                              *)

WindowInv ==
  /\ \A w \in DOMAIN windows : active # None /\ w <= active.id
  /\ active # None =>
       /\ active.id = WindowOf(snapshot.epoch)
       /\ active.id \in DOMAIN windows
       /\ windows[active.id].decision = None
       /\ windows[active.id].opening = active
  /\ reset = None => archive = None
  /\ reset # None => archive # None

LEMMA DivMonotone ==
  ASSUME NEW n \in Nat \ {0}, NEW a \in Nat, NEW b \in Nat, a <= b
  PROVE  a \div n <= b \div n
  <1> DEFINE p == a \div n
             q == b \div n
  <1>1. /\ p \in Nat /\ a = n * p + (a % n) /\ a % n \in 0..(n - 1)
        /\ q \in Nat /\ b = n * q + (b % n) /\ b % n \in 0..(n - 1)
    OBVIOUS
  <1> HIDE DEF p, q
  <1>2. ASSUME p > q PROVE FALSE
    <2>1. p >= q + 1
      BY <1>1, <1>2
    <2>2. n * p >= n * (q + 1)
      BY <1>1, <2>1
    <2>3. n * (q + 1) = n * q + n
      BY <1>1
    <2> QED
      BY <1>1, <2>2, <2>3
  <1>3. p <= q
    BY <1>1, <1>2
  <1> QED
    BY <1>3 DEF p, q

(* Windows move forward: the one a turn opens is younger than every other. *)
LEMMA TurnsForward ==
  ASSUME TypeOK, WindowInv, NEW snap, Follows(snap), Closes(snap)
  PROVE  WindowOf(snap.epoch) > active.id
  <1>1. IsFrame(snap) /\ snap.epoch >= snapshot.epoch
    BY FollowsFrame DEF TypeOK
  <1>2. WindowOf(snapshot.epoch) <= WindowOf(snap.epoch)
    BY <1>1, DivMonotone, LedgerAssumption DEF TypeOK, IsFrame, WindowOf
  <1>3. WindowOf(snapshot.epoch) \in Nat /\ WindowOf(snap.epoch) \in Nat
    BY <1>1, WindowOfNat DEF TypeOK, IsFrame
  <1> QED
    BY <1>2, <1>3 DEF Closes, WindowInv

LEMMA OpeningNotNone ==
  ASSUME NEW o, IsOpening(o)
  PROVE  o # None
  BY LedgerAssumption DEF IsOpening

LEMMA WindowStep ==
  ASSUME TypeOK, WindowInv, NEW snap, Follows(snap), NEW rows \in BlockRows(snap), Ingest(snap, rows)
  PROVE  WindowInv' /\ active' # None
  <1> DEFINE window == WindowOf(snap.epoch)
  <1>1. IsFrame(snap)
    BY FollowsFrame DEF TypeOK
  <1>2. TypeOK'
    BY <1>1, RowsTyped, TypeStep
  <1>3. window \in Nat
    BY <1>1, WindowOfNat DEF IsFrame
  <1>4. active' # None /\ active'.id = window
    <2>1. CASE Turns(snap)
      <3>1. windows'[window].opening = active' /\ window \in DOMAIN windows'
        BY <2>1, OpensWindow
      <3>2. IsOpening(active')
        BY <1>2, <3>1 DEF TypeOK
      <3> QED
        BY <2>1, <3>2, IngestWindow, OpeningNotNone
    <2>2. CASE ~ Turns(snap)
      BY <2>2, IngestWindow DEF Turns, Closes
    <2> QED
      BY <2>1, <2>2
  <1>5. \A w \in DOMAIN windows' : w <= window
    <2>1. CASE Turns(snap)
      <3>1. \A w \in DOMAIN windows : w < window
        <4>1. ASSUME NEW w \in DOMAIN windows PROVE w < window
          <5>1. active # None /\ w <= active.id /\ w \in Nat /\ active.id \in Nat
            BY DEF WindowInv, TypeOK, IsOpening, OpeningOf
          <5> QED
            BY <2>1, <5>1, <1>3, TurnsForward DEF Turns
        <4> QED
          BY <4>1
      <3>2. DOMAIN windows \subseteq Nat
        BY DEF TypeOK
      <3>3. DOMAIN windows' = DOMAIN windows \cup {window}
        BY <2>1, OpensWindow
      <3> HIDE DEF window
      <3> QED
        BY <3>1, <3>2, <3>3, <1>3
    <2>2. CASE ~ Turns(snap)
      BY <2>2, IngestWindows DEF WindowInv, Turns, Closes
    <2> QED
      BY <2>1, <2>2
  <1>6. window \in DOMAIN windows' /\ windows'[window].decision = None /\ windows'[window].opening = active'
    <2>1. CASE Turns(snap)
      BY <2>1, OpensWindow
    <2>2. CASE ~ Turns(snap)
      <3>1. active' = active /\ window = active.id /\ window \in DOMAIN windows'
        BY <2>2, IngestWindow, IngestWindows DEF Turns, Closes, WindowInv
      <3>2. windows'[active.id] = windows[active.id]
        BY <2>2, <3>1, IngestWindows DEF Turns
      <3>3. windows[active.id].decision = None /\ windows[active.id].opening = active
        BY <2>2 DEF WindowInv, Turns
      <3> QED
        BY <3>1, <3>2, <3>3
    <2> QED
      BY <2>1, <2>2
  <1>7. (reset' = None => archive' = None) /\ (reset' # None => archive' # None)
    <2>1. CASE Resets(snap)
      <3>1. reset' # None
        BY <1>1, <2>1, ResetMarks
      <3>2. archive' \in Archive
        BY <1>1, <2>1, RowsTyped, ArchiveStep
      <3> QED
        BY <3>1, <3>2, LedgerAssumption
    <2>2. CASE ~ Resets(snap)
      BY <2>2, IngestWindow DEF WindowInv
    <2> QED
      BY <2>1, <2>2
  <1>8. snapshot' = snap
    BY IngestWindow
  <1> QED
    BY <1>4, <1>5, <1>6, <1>7, <1>8 DEF WindowInv

LEMMA WindowInvariant == Spec => []WindowInv
  <1>1. Init => WindowInv
    BY DEF Init, WindowInv
  <1>2. TypeOK /\ WindowInv /\ [Next]_vars => WindowInv'
    <2> SUFFICES ASSUME TypeOK, WindowInv, [Next]_vars PROVE WindowInv'
      OBVIOUS
    <2>1. CASE UNCHANGED vars
      BY <2>1 DEF WindowInv, vars
    <2>2. CASE Next
      BY <2>2, SomeBlock, WindowStep DEF Next
    <2> QED
      BY <2>1, <2>2
  <1> QED
    BY <1>1, <1>2, TypeInvariant, PTL DEF Spec

-----------------------------------------------------------------------------
(* The ledger implements module Attempts: its state is the table of uses,  *)
(* the number of the active window and whether the reset happened.         *)

Number(opening) == IF opening = None THEN None ELSE opening.id

LEMMA PromiseStep ==
  ASSUME TypeOK, WindowInv, NEW snap, Follows(snap), NEW rows \in BlockRows(snap), Ingest(snap, rows)
  PROVE  Promise!Next
  <1> DEFINE current == Number(active)
             generation == IF reset = None THEN 0 ELSE 1
  <1>1. active' # None
    BY WindowStep
  <1>2. current' = active'.id /\ current' \in Nat
    BY <1>1, RowsTyped, TypeStep, FollowsFrame DEF Number, TypeOK, IsOpening, OpeningOf
  <1>3. active = None => \A k \in Key : uses[k] = None \/ uses[k].window \in Nat
    BY DEF TypeOK, Use
  <1>4. active # None => current = active.id /\ current \in Nat /\ current # None
    BY ConsensusAssumption DEF Number, TypeOK, IsOpening, OpeningOf
  <1>5. current' # None
    BY <1>2, ConsensusAssumption
  <1>6. CASE Resets(snap)
    <2>1. current' # None /\ (current # None => current' > current)
      BY <1>4, <1>5, <1>6, IngestWindow, TurnsForward DEF Resets, Turns, Number, Closes
    <2>2. generation = 0 /\ generation' = 1
      <3>1. IsFrame(snap)
        BY FollowsFrame DEF TypeOK
      <3>2. reset' # None
        BY <1>6, <3>1, ResetMarks
      <3> QED
        BY <1>6, <3>2 DEF Resets
    <2>3. \A k \in Key : uses'[k] # None => uses'[k].window = current'
      BY <1>2, <1>6, IngestUses
    <2> QED
      BY <2>1, <2>2, <2>3 DEF Promise!Next, Promise!Readmit, Promise!Forward, Number
  <1>7. CASE ~ Resets(snap) /\ Closes(snap)
    <2>1. current' # None /\ (current # None => current' > current)
      BY <1>2, <1>4, <1>5, <1>7, IngestWindow, TurnsForward DEF Turns, Closes
    <2>2. generation' = generation
      BY <1>7, IngestWindow
    <2>3. \A k \in Key :
            \/ uses'[k] = uses[k]
            \/ uses[k] = None /\ uses'[k] # None /\ uses'[k].window \in {current, current'}
      BY <1>2, <1>4, <1>7, IngestUses DEF Closes
    <2> QED
      BY <2>1, <2>2, <2>3
      DEF Promise!Next, Promise!Turn, Promise!Forward, Promise!Kept, Promise!SpentIn, Number
  <1>8. CASE ~ Resets(snap) /\ ~ Closes(snap)
    <2>1. generation' = generation
      BY <1>8, IngestWindow
    <2>2. \A k \in Key :
            \/ uses'[k] = uses[k]
            \/ uses[k] = None /\ uses'[k] # None /\ uses'[k].window = current'
      BY <1>2, <1>8, IngestUses
    <2>3. CASE active = None
      BY <1>5, <2>1, <2>2, <2>3
      DEF Promise!Next, Promise!Turn, Promise!Forward, Promise!Kept, Promise!SpentIn, Number
    <2>4. CASE active # None
      <3>1. current' = current
        BY <1>8, <2>4, IngestWindow DEF Turns
      <3> QED
        BY <1>4, <2>1, <2>2, <2>4, <3>1
        DEF Promise!Next, Promise!Measure, Promise!Kept, Promise!SpentIn, Number
    <2> QED
      BY <2>3, <2>4
  <1> QED
    BY <1>6, <1>7, <1>8

(* An evaluator's attempt on a hotkey is spent at most once per generation, *)
(* in a window that is open when it is spent, whatever the chain finalizes. *)
THEOREM PromiseKept == Spec => KeepsPromise
  <1>1. Init => Promise!Init
    BY DEF Init, Promise!Init
  <1>2. TypeOK /\ WindowInv /\ [Next]_vars
          => [Promise!Next]_<<IF active = None THEN None ELSE active.id, uses, IF reset = None THEN 0 ELSE 1>>
    <2> SUFFICES ASSUME TypeOK, WindowInv, [Next]_vars
                 PROVE  [Promise!Next]_<<IF active = None THEN None ELSE active.id, uses,
                                         IF reset = None THEN 0 ELSE 1>>
      OBVIOUS
    <2>1. CASE UNCHANGED vars
      BY <2>1 DEF vars
    <2>2. CASE Next
      BY <2>2, SomeBlock, PromiseStep DEF Next
    <2> QED
      BY <2>1, <2>2
  <1> QED
    BY <1>1, <1>2, TypeInvariant, WindowInvariant, PTL DEF Spec, KeepsPromise, Promise!Spec

Unchanged(w) ==
  /\ windows'[w].opening = windows[w].opening
  /\ Closed(w) => /\ windows'[w].decision = windows[w].decision
                  /\ \A k \in Key : Spent(k, w)' <=> Spent(k, w)

LEMMA HistoryStep ==
  ASSUME TypeOK, WindowInv, NEW snap, Follows(snap), NEW rows \in BlockRows(snap), Ingest(snap, rows),
         NEW w \in DOMAIN windows
  PROVE  Unchanged(w)
  <1>1. active # None /\ w <= active.id /\ w \in Nat /\ active.id \in Nat
    BY DEF WindowInv, TypeOK, IsOpening, OpeningOf
  <1>2. Turns(snap) => w # WindowOf(snap.epoch) /\ active'.id > active.id
    <2>1. IsFrame(snap)
      BY FollowsFrame DEF TypeOK
    <2>2. WindowOf(snap.epoch) \in Nat
      BY <2>1, WindowOfNat DEF IsFrame
    <2> QED
      BY <1>1, <2>2, TurnsForward, IngestWindow DEF Turns
  <1>3. w \in DOMAIN windows'
    BY IngestWindows
  <1>4. \/ windows'[w] = windows[w]
        \/ Closes(snap) /\ w = active.id /\ windows'[w] = [windows[w] EXCEPT !.decision = Closing(snap)]
    BY <1>2, <1>3, IngestWindows
  <1>5. windows'[w].opening = windows[w].opening
    <2>1. CASE windows'[w] = windows[w]
      BY <2>1
    <2>2. CASE windows'[w] = [windows[w] EXCEPT !.decision = Closing(snap)]
      BY <2>2
    <2> QED
      BY <1>4, <2>1, <2>2
  <1>6. Closed(w) => w # active.id
    BY <1>1 DEF WindowInv, Closed
  <1>7. Closed(w) => windows'[w].decision = windows[w].decision
    BY <1>4, <1>6
  <1>8. Closed(w) => w # active'.id
    BY <1>1, <1>2, <1>6, IngestWindow
  <1>9. ASSUME NEW k \in Key, Closed(w)
        PROVE  Spent(k, w)' <=> Spent(k, w)
    <2>1. IsFrame(snap)
      BY FollowsFrame DEF TypeOK
    <2>2. CASE Resets(snap)
      <3>1. archive = None /\ archive' # None
        BY <2>1, <2>2, WindowStep, ResetMarks DEF WindowInv, Resets
      <3> QED
        BY <1>6, <1>8, <1>9, <2>2, <3>1, IngestUses DEF Spent
    <2>3. CASE ~ Resets(snap)
      BY <1>6, <1>8, <1>9, <2>3, IngestUses, IngestWindow DEF Spent
    <2> QED
      BY <2>2, <2>3
  <1> QED
    BY <1>5, <1>7, <1>9 DEF Unchanged

(* A closed window is history: no later block reopens it, changes what it  *)
(* decided, or spends another attempt in it.                               *)
THEOREM HistoryFrozen == Spec => ClosedWindowsFrozen
  <1> DEFINE Frozen == \A w \in DOMAIN windows : Unchanged(w)
  <1>1. TypeOK /\ WindowInv /\ [Next]_vars => [Frozen]_vars
    <2> SUFFICES ASSUME TypeOK, WindowInv, Next PROVE [Frozen]_vars
      OBVIOUS
    <2>1. PICK snap : Follows(snap) /\ \E rows \in BlockRows(snap) : Ingest(snap, rows)
      BY SomeBlock DEF Next
    <2>2. PICK rows \in BlockRows(snap) : Ingest(snap, rows)
      BY <2>1
    <2> QED
      BY HistoryStep, <2>1, <2>2
  <1>2. Spec => [][Frozen]_vars
    BY <1>1, TypeInvariant, WindowInvariant, PTL DEF Spec
  <1> QED
    BY <1>2, PTL DEF ClosedWindowsFrozen, Unchanged

=============================================================================
