------------------------------- MODULE Ledger --------------------------------
(***************************************************************************)
(* ledger.py: the replayable ledger every validator rebuilds from the      *)
(* finalized chain.  One action per finalized block: `ingest` is a single  *)
(* SQLite transaction, so a crash leaves the state before or after it.     *)
(* The environment is the chain: it chooses the block's epoch, who is      *)
(* registered, who holds stake, and which commitments the block carries.   *)
(***************************************************************************)
EXTENDS Consensus

CONSTANTS
  ColdkeyOf,      \* owner of each miner hotkey, from the finalized chain
  WindowEpochs,   \* WINDOW_EPOCHS
  ResetWindow,    \* HOTKEY_RESET_WINDOW: the one network-wide second admission
  UpgradeWindow,  \* first window of the scheduled policy upgrade
  OldPolicy, NewPolicy,
  Registrations,  \* possible uids of a snapshot
  Stakes,         \* possible validators of a snapshot
  Shapes,         \* scores and flags a result may carry
  LateShapes,     \* those of a result finalized after its window closed
  MaxBlock, MaxEpoch, MaxCommitments, MaxRows     \* bounds of the exploration

Key == Validator \X Hotkey
Use == [window : Nat, value : Result]
Waiting == [evaluator : Validator, window : Nat, value : Result]
Reset == [window : Nat, block : Nat]
Archive == [ submissions : [Hotkey -> Entry \cup {None}], uses : [Key -> Use \cup {None}],
             pending : SUBSET Waiting ]
OpeningOf(panel) ==
  [ id : Nat, start_block : Nat, end_epoch : Nat, king : Entry \cup {None},
    candidates : [panel -> Entry], policy_hash : Policy ]

ASSUME LedgerAssumption ==
  /\ ColdkeyOf \in [Hotkey -> Nat]
  /\ WindowEpochs \in Nat \ {0}
  /\ {ResetWindow, UpgradeWindow, MaxBlock, MaxEpoch, MaxCommitments, MaxRows} \subseteq Nat
  /\ {OldPolicy, NewPolicy} \subseteq Policy
  /\ \A uids \in Registrations : DOMAIN uids \subseteq Hotkey /\ \A h \in DOMAIN uids : uids[h] \in Uid
  /\ \A stakes \in Stakes : DOMAIN stakes \subseteq Validator /\ \A v \in DOMAIN stakes : stakes[v] \in Nat
  /\ \A s \in Shapes \cup LateShapes : Sound(s)
  /\ None \notin Use \cup Reset \cup Archive \cup Hotkey
  /\ \A panel \in SUBSET Challenge : None \notin OpeningOf(panel)

VARIABLES
  snapshot,      \* frame of the last ingested block: its number is the cursor
  commitments,   \* table commitments, in block order
  submissions,   \* table submissions: first binding of each hotkey
  windows,       \* table windows: opening and decision by window
  active,        \* state 'active': the opening of the current window
  king,          \* state 'king'
  uses,          \* table uses: terminal result by evaluator and hotkey
  pending,       \* table bootstrap_pending
  retired,       \* state 'bootstrap_retired'
  after,         \* state 'bootstrap_after'
  reset,         \* state 'hotkey_reset'
  archive        \* table admission_archive

vars == <<snapshot, commitments, submissions, windows, active, king, uses,
          pending, retired, after, reset, archive>>

WindowOf(epoch) == epoch \div WindowEpochs
PolicyFor(window) == IF window < UpgradeWindow THEN OldPolicy ELSE NewPolicy

Init ==
  /\ snapshot = [block |-> 0, epoch |-> 0, uids |-> <<>>, validators |-> <<>>]
  /\ commitments = <<>>
  /\ submissions = [h \in Hotkey |-> None]
  /\ windows = <<>>
  /\ active = None
  /\ king = None
  /\ uses = [k \in Key |-> None]
  /\ pending = {}
  /\ retired = {}
  /\ after = None
  /\ reset = None
  /\ archive = None

-----------------------------------------------------------------------------
(* Closing a window. *)

(* Mistaken variant: every result of the window votes, spent hotkey or not. *)
VotingHistoryUnfiltered(opening, end) ==
  { i \in DOMAIN commitments :
      /\ commitments[i].block \in opening.start_block..(end - 1)
      /\ IsResult(commitments[i]) }

(* Results of the window that may vote: baselines, bounds that nothing     *)
(* earlier consumed, and exactly the terminal result recorded as the use.  *)
VotingHistory(opening, end) ==
  LET MayVote(row) ==
        /\ row.block >= opening.start_block /\ row.block < end
        /\ IsResult(row)
        /\ \/ Is(row, "BASELINE")
           \/ /\ row.value.model \in DOMAIN opening.candidates
              /\ row.hotkey \in Validator
              /\ LET use == uses[<<row.hotkey, opening.candidates[row.value.model].hotkey>>]
                 IN  \/ Is(row, "EARLY_STOP") /\ (use = None \/ use.window = opening.id)
                     \/ use # None /\ use.window = opening.id /\ use.value = row.value
  IN  { i \in DOMAIN commitments : MayVote(commitments[i]) }

Closing(snap) ==
  Decide(commitments, VotingHistory(active, snap.block), active.id, active.policy_hash,
         active.king, active.candidates, snap)

(* Mistaken variant: a loss overwrites the use already recorded. *)
UsesOverwrittenByLosses(decision) ==
  [ k \in Key |->
      LET lost == { row \in decision.early_losses :
                      row.hotkey = k[1] /\ active.candidates[row.value.model].hotkey = k[2] }
      IN  IF lost # {} THEN [window |-> active.id, value |-> (CHOOSE row \in lost : TRUE).value]
          ELSE uses[k] ]

(* A bounded loss consumes the attempt only now, after the comparison. *)
UsesAfterLosses(decision) ==
  [ k \in Key |->
      LET lost == { row \in decision.early_losses :
                      /\ row.hotkey = k[1]
                      /\ active.candidates[row.value.model].hotkey = k[2] }
      IN  IF uses[k] = None /\ lost # {}
          THEN [window |-> active.id, value |-> (CHOOSE row \in lost : TRUE).value]
          ELSE uses[k] ]

(* A bootstrap pair some validator measured completely without a winner retires. *)
RetiredAfter(decision, used, snap) ==
  LET pair == { active.candidates[m].hotkey : m \in DOMAIN active.candidates }
  IN  IF /\ active.king = None /\ decision.king = None /\ pair # {}
         /\ \E v \in DOMAIN snap.validators : \A h \in pair : used[<<v, h>>] # None
      THEN retired \cup pair ELSE retired

-----------------------------------------------------------------------------
(* Opening a window. *)

(* Round-robin over the owners, owners and their rows in commitment order. *)
BootstrapOrder(entries) ==
  LET Mine(e)  == { f \in entries : f.coldkey = e.coldkey }
      Rank(e)  == Cardinality({ f \in Mine(e) : Earlier(f, e) })
      Eldest(e) == CHOOSE f \in Mine(e) : \A g \in Mine(e) \ {f} : Earlier(f, g)
      Precedes(f, e) == \/ Rank(f) < Rank(e)
                        \/ Rank(f) = Rank(e) /\ Earlier(Eldest(f), Eldest(e))
  IN  [ e \in entries |-> Cardinality({ f \in entries : Precedes(f, e) }) ]

(* Distance of each entry from the one that follows `last` in the rotation. *)
Rotation(entries, last) ==
  LET place == BootstrapOrder(entries)
      n     == Cardinality(entries)
      index == IF \E e \in entries : e.hotkey = last
               THEN place[CHOOSE e \in entries : e.hotkey = last] + 1 ELSE 0
  IN  [ e \in entries |-> (place[e] + n - index) % n ]

(* Mistaken variant: the panel is drawn before the reset clears the table. *)
AdmittedBeforeReset(bound, out, snap) ==
  { [submissions[h] EXCEPT !.uid = snap.uids[h]] :
      h \in { g \in Hotkey : /\ submissions[g] # None
                             /\ submissions[g].block < snap.block
                             /\ g \in DOMAIN snap.uids
                             /\ g \notin out } }

(* admitted: hotkeys bound strictly before the opening block, still registered. *)
Admitted(bound, out, snap) ==
  { [bound[h] EXCEPT !.uid = snap.uids[h]] :
      h \in { g \in Hotkey : /\ bound[g] # None
                             /\ bound[g].block < snap.block
                             /\ g \in DOMAIN snap.uids
                             /\ g \notin out } }

Panel(entries) ==
  [ m \in { e.model : e \in entries } |-> CHOOSE e \in entries : e.model = m ]

(* Mistaken variant: the opening keeps the king of the previous opening. *)
ReigningKingStale(holder, snap) ==
  IF active # None /\ active.king # None THEN active.king ELSE holder

ReigningKing(holder, snap) ==
  IF holder = None THEN None
  ELSE IF holder.hotkey \in DOMAIN snap.uids
       THEN [holder EXCEPT !.uid = snap.uids[holder.hotkey]] ELSE None

Pair(entries, last) ==
  IF Cardinality(entries) < 2 THEN {}
  ELSE { e \in entries : Rotation(entries, last)[e] < 2 }

Opening(snap, window, holder, entries, last) ==
  LET reigning == ReigningKing(holder, snap)
  IN  [ id          |-> window,
        start_block |-> snap.block,
        end_epoch   |-> WindowEpochs * (window + 1),
        king        |-> reigning,
        candidates  |-> IF reigning = None THEN Panel(Pair(entries, last))
                        ELSE Panel({ e \in entries : e.model # reigning.model }),
        policy_hash |-> PolicyFor(window) ]

(* bootstrap_after moves to the second of the new pair. *)
AfterOpening(opening, entries, last) ==
  IF opening.king = None /\ \E e \in entries : Rotation(entries, last)[e] = 1
  THEN (CHOOSE e \in entries : Rotation(entries, last)[e] = 1).hotkey
  ELSE last

-----------------------------------------------------------------------------
(* Rows of the block, after any closing and opening. *)

FirstBinding(rows, h, snap, bound) ==
  LET mine  == { i \in DOMAIN rows : rows[i].hotkey = h /\ rows[i].value.kind = "submission" }
      first == { i \in mine : \A j \in mine : i <= j }
  IN  IF bound[h] # None \/ first = {} \/ h \notin DOMAIN snap.uids THEN bound[h]
      ELSE [ block |-> snap.block, hotkey |-> h, coldkey |-> ColdkeyOf[h], uid |-> snap.uids[h],
             model |-> <<h, rows[CHOOSE i \in first : TRUE].value.model>> ]

(* Mistaken variant: a result for a spent hotkey counts. *)
AcceptedAgain(rows, opening, used, snap) ==
  { i \in DOMAIN rows :
      /\ IsResult(rows[i])
      /\ rows[i].value.window = opening.id
      /\ rows[i].value.flags \cap {"BASELINE", "EARLY_STOP"} = {}
      /\ rows[i].value.model \in DOMAIN opening.candidates
      /\ rows[i].hotkey \in DOMAIN snap.validators }

(* Indices of the rows that are terminal results for the open panel. *)
Accepted(rows, opening, used, snap) ==
  { i \in DOMAIN rows :
      /\ IsResult(rows[i])
      /\ rows[i].value.window = opening.id
      /\ rows[i].value.policy = opening.policy_hash
      /\ rows[i].value.flags \cap {"BASELINE", "EARLY_STOP"} = {}
      /\ rows[i].value.model \in DOMAIN opening.candidates
      /\ opening.candidates[rows[i].value.model].uid = rows[i].value.uid
      /\ rows[i].hotkey \in DOMAIN snap.validators
      /\ used[<<rows[i].hotkey, opening.candidates[rows[i].value.model].hotkey>>] = None }

FirstOf(rows, accepted) ==
  { i \in accepted : \A j \in accepted : j < i => ~ SameKey(rows, i, j) }

UsesAfterRows(rows, first, opening, used) ==
  [ k \in Key |->
      LET mine == { i \in first : /\ rows[i].hotkey = k[1]
                                  /\ opening.candidates[rows[i].value.model].hotkey = k[2] }
      IN  IF opening.king # None /\ mine # {}
          THEN [window |-> opening.id, value |-> rows[CHOOSE i \in mine : TRUE].value]
          ELSE used[k] ]

(* Without a king a result waits for the other half of the evaluator's panel. *)
PendingAfterRows(rows, first, opening, waiting) ==
  IF opening.king # None THEN waiting
  ELSE waiting \cup
       { [evaluator |-> rows[i].hotkey, window |-> opening.id, value |-> rows[i].value] :
           i \in { j \in first : \A p \in waiting :
                     ~ /\ p.evaluator = rows[j].hotkey /\ p.window = opening.id
                       /\ p.value.model = rows[j].value.model } }

(* Mistaken variants: each half is spent alone; halves of any window pair up. *)
UsesAfterHalves(opening, waiting, used) ==
  [ k \in Key |->
      LET mine == { p \in waiting : /\ p.evaluator = k[1] /\ p.window = opening.id
                                    /\ p.value.model[1] = k[2] }
      IN  IF used[k] = None /\ mine # {}
          THEN [window |-> opening.id, value |-> (CHOOSE p \in mine : TRUE).value]
          ELSE used[k] ]

UsesAcrossWindows(opening, waiting, used) ==
  LET Half(v, m) == { p \in waiting : p.evaluator = v /\ p.value.model = m }
      Complete(v) == /\ opening.king = None /\ Cardinality(DOMAIN opening.candidates) = 2
                     /\ \A m \in DOMAIN opening.candidates : Half(v, m) # {}
  IN  [ k \in Key |->
          LET mine == { m \in DOMAIN opening.candidates : m[1] = k[2] }
              half == CHOOSE p \in Half(k[1], CHOOSE m \in mine : TRUE) : TRUE
          IN  IF used[k] = None /\ mine # {} /\ Complete(k[1])
              THEN [window |-> half.window, value |-> half.value] ELSE used[k] ]

(* A complete pair consumes both hotkeys at once. *)
UsesAfterPanels(opening, waiting, used) ==
  LET Half(v, m) == { p \in waiting : /\ p.evaluator = v /\ p.window = opening.id
                                      /\ p.value.model = m }
      Complete(v) == /\ opening.king = None /\ Cardinality(DOMAIN opening.candidates) = 2
                     /\ \A m \in DOMAIN opening.candidates : Half(v, m) # {}
  IN  [ k \in Key |->
          LET mine == { m \in DOMAIN opening.candidates : opening.candidates[m].hotkey = k[2] }
          IN  IF used[k] = None /\ mine # {} /\ Complete(k[1])
              THEN [ window |-> opening.id,
                     value |-> (CHOOSE p \in Half(k[1], CHOOSE m \in mine : TRUE) : TRUE).value ]
              ELSE used[k] ]

-----------------------------------------------------------------------------
(* ingest: one contiguous finalized block.  The transaction writes every   *)
(* table from the rows of the block and from its snapshot.                 *)

Transaction(snap, rows) ==
  LET window    == WindowOf(snap.epoch)
      closing   == active # None /\ window # active.id
      turning   == active = None \/ closing
      resetting == turning /\ window >= ResetWindow /\ reset = None
      decision  == Closing(snap)
      king1     == IF closing THEN decision.king ELSE king
      uses1     == IF closing THEN UsesAfterLosses(decision) ELSE uses
      retired1  == IF closing THEN RetiredAfter(decision, uses1, snap) ELSE retired
      \* _reset_admissions: archive and clear the admission tables
      bound     == IF resetting THEN [h \in Hotkey |-> None] ELSE submissions
      uses2     == IF resetting THEN [k \in Key |-> None] ELSE uses1
      waiting   == IF resetting THEN {} ELSE pending
      out       == IF resetting THEN {} ELSE retired1
      last      == IF resetting THEN None ELSE after
      \* _open
      entries   == Admitted(bound, out, snap)
      opening   == IF turning THEN Opening(snap, window, king1, entries, last) ELSE active
      \* the commitments of the block
      first     == FirstOf(rows, Accepted(rows, opening, uses2, snap))
      waiting1  == PendingAfterRows(rows, first, opening, waiting)
  IN  /\ commitments' = commitments \o rows
      /\ submissions' = [h \in Hotkey |-> FirstBinding(rows, h, snap, bound)]
      /\ windows' = [ w \in DOMAIN windows \cup (IF turning THEN {window} ELSE {}) |->
                        IF turning /\ w = window THEN [opening |-> opening, decision |-> None]
                        ELSE IF closing /\ w = active.id THEN [windows[w] EXCEPT !.decision = decision]
                        ELSE windows[w] ]
      /\ active' = opening
      /\ king' = king1
      /\ uses' = UsesAfterPanels(opening, waiting1, UsesAfterRows(rows, first, opening, uses2))
      /\ pending' = waiting1
      /\ retired' = out
      /\ after' = IF turning THEN AfterOpening(opening, entries, last) ELSE last
      /\ reset' = IF resetting THEN [window |-> ResetWindow, block |-> snap.block] ELSE reset
      /\ archive' = IF ~ resetting THEN archive
                    ELSE [submissions |-> submissions, uses |-> uses1, pending |-> pending]

Ingest(snap, rows) ==
  /\ snap.block = snapshot.block + 1
  /\ snapshot' = snap
  /\ Transaction(snap, rows)

-----------------------------------------------------------------------------
(* The finalized chain. *)

(* A hotkey binds a model, or tries to bind another one. *)
Submitting(snap) ==
  { [block |-> snap.block, hotkey |-> c[1], value |-> [kind |-> "submission", model |-> c[2]]] :
      c \in { d \in (DOMAIN snap.uids) \X Model :
               submissions[d[1]] = None \/ submissions[d[1]].model # d } }

(* The results an evaluator may finalize about challenge m in window w.    *)
Reports(snap, w, m, uid, shapes) ==
  { [ block |-> snap.block, hotkey |-> v,
      value |-> [ kind |-> "result", window |-> w, uid |-> uid, model |-> m,
                  policy |-> PolicyFor(w), quality |-> s.quality, reward |-> s.reward,
                  king_quality |-> s.king_quality, king_reward |-> s.king_reward,
                  flags |-> s.flags ] ] : v \in Validator, s \in shapes }

(* A challenge is named with the slot of the opening or the slot of today. *)
OfPanel(snap, w, shapes) ==
  LET panel == windows[w].opening.candidates
      Slots(m) == {panel[m].uid} \cup { snap.uids[h] : h \in DOMAIN snap.uids \cap {m[1]} }
  IN  UNION { UNION { Reports(snap, w, m, uid, shapes) : uid \in Slots(m) } : m \in DOMAIN panel }

OfKing(snap, w, shapes) ==
  LET reigning == windows[w].opening.king
  IN  IF reigning = None THEN {} ELSE Reports(snap, w, reigning.model, reigning.uid, shapes)

(* A result is about a window that has opened: the current one or, when it *)
(* is finalized late, the one before.                                      *)
Reporting(snap) ==
  LET now       == WindowOf(snap.epoch)
      Baselines == { s \in Shapes : "BASELINE" \in s.flags }
      timely    == UNION { OfPanel(snap, w, Shapes \ Baselines) \cup OfKing(snap, w, Baselines) :
                             w \in {now} \cap DOMAIN windows }
      late      == UNION { OfPanel(snap, w, LateShapes) : w \in {now - 1} \cap DOMAIN windows }
  IN  timely \cup late

BlockRows(snap) ==
  LET offer == Submitting(snap) \cup Reporting(snap)
      room  == MaxCommitments - Len(commitments)
  IN  UNION { { rows \in [1..n -> offer] :
                  \A i, j \in 1..n : i < j => /\ rows[i].hotkey <= rows[j].hotkey
                                              /\ rows[i] # rows[j] } :
                n \in { k \in 0..MaxRows : k <= room } }

NextBlock ==
  /\ snapshot.block < MaxBlock
  /\ \E epoch \in {snapshot.epoch, snapshot.epoch + 1}, uids \in Registrations, validators \in Stakes :
       LET snap == [block |-> snapshot.block + 1, epoch |-> epoch,
                    uids |-> uids, validators |-> validators]
       IN  /\ epoch <= MaxEpoch
           /\ \E rows \in BlockRows(snap) : Ingest(snap, rows)

Next == NextBlock

Spec == Init /\ [][Next]_vars

-----------------------------------------------------------------------------
(* Properties. *)

IsFrame(s) ==
  /\ s.block \in Nat /\ s.epoch \in Nat
  /\ DOMAIN s.uids \subseteq Hotkey /\ \A h \in DOMAIN s.uids : s.uids[h] \in Uid
  /\ DOMAIN s.validators \subseteq Validator

IsOpening(o) ==
  LET panel == DOMAIN o.candidates
  IN  /\ panel \subseteq Challenge
      /\ o \in OpeningOf(panel)
      /\ \A m \in panel : o.candidates[m].model = m

(* The tables hold what their columns say. *)
TypeOK ==
  /\ IsFrame(snapshot)
  /\ commitments \in Seq(Row)
  /\ submissions \in [Hotkey -> Entry \cup {None}]
  /\ DOMAIN windows \subseteq Nat
  /\ \A w \in DOMAIN windows : IsOpening(windows[w].opening)
  /\ active # None => IsOpening(active)
  /\ king \in Entry \cup {None}
  /\ uses \in [Key -> Use \cup {None}]
  /\ pending \subseteq Waiting
  /\ retired \subseteq Hotkey
  /\ after \in Hotkey \cup {None}
  /\ reset \in Reset \cup {None}
  /\ archive \in Archive \cup {None}

Closed(w) == w \in DOMAIN windows /\ windows[w].decision # None

(* What was recorded for a pair, before or after the admission reset. *)
Spent(k, w) ==
  \/ uses[k] # None /\ uses[k].window = w
  \/ archive # None /\ archive.uses[k] # None /\ archive.uses[k].window = w

(* Without a king an evaluator consumes both hotkeys of the pair or neither. *)
BootstrapAllOrNothing ==
  \A w \in DOMAIN windows, v \in Validator :
    LET o    == windows[w].opening
        pair == { o.candidates[m].hotkey : m \in DOMAIN o.candidates }
        hit  == { h \in pair : Spent(<<v, h>>, w) }
    IN  o.king = None => hit = {} \/ hit = pair

(* An evaluator weighs a hotkey in a second window only if the first left  *)
(* its bound unresolved (or an admission reset lies between them).         *)
OneConclusiveVote ==
  \A w1, w2 \in DOMAIN windows :
    Closed(w1) /\ Closed(w2) /\ w1 < w2 /\ (reset = None \/ w2 < ResetWindow \/ w1 >= ResetWindow) =>
      \A m \in DOMAIN windows[w1].decision.aggregates \cap DOMAIN windows[w2].decision.aggregates :
        LET twice == windows[w1].decision.aggregates[m].evaluators
                     \cap windows[w2].decision.aggregates[m].evaluators
        IN  twice # {} => m \in windows[w1].decision.inconclusive

(* A hotkey is crowned only by measurements that are spent: each evaluator *)
(* in the winning aggregate recorded its terminal result in that window.   *)
CrownedByTerminalResults ==
  \A w \in DOMAIN windows : Closed(w) =>
    LET d == windows[w].decision
        o == windows[w].opening
    IN  d.king # None /\ d.king.model \in DOMAIN o.candidates =>
          \A v \in d.aggregates[d.king.model].evaluators : Spent(<<v, d.king.hotkey>>, w)

(* A bound left unresolved never consumes the attempt. *)
UnresolvedBoundKeepsAttempt ==
  \A w \in DOMAIN windows, k \in Key :
    Closed(w) /\ uses[k] # None =>
      (uses[k].window = w /\ Is(uses[k], "EARLY_STOP") =>
         uses[k].value.model \notin windows[w].decision.inconclusive)

(* One throne: the next opening's king is the one the last window decided, *)
(* unless it left the subnet; and a decision crowns nobody outside its     *)
(* panel.                                                                  *)
Succession ==
  \A w \in DOMAIN windows :
    LET o    == windows[w].opening
        past == { u \in DOMAIN windows : u < w }
        d    == windows[w].decision
    IN  /\ o.king # None => past # {} /\ (LET p == CHOOSE u \in past : \A x \in past : x <= u
                                          IN  windows[p].decision.king # None
                                              /\ windows[p].decision.king.model = o.king.model)
        /\ Closed(w) /\ d.king # None =>
             \/ o.king # None /\ d.king.model = o.king.model
             \/ d.king.model \in DOMAIN o.candidates

(* A closed window is history: no later block changes its opening, its     *)
(* decision, or the set of attempts spent in it.                           *)
ClosedWindowsFrozen ==
  [][ \A w \in DOMAIN windows :
        /\ windows'[w].opening = windows[w].opening
        /\ Closed(w) => /\ windows'[w].decision = windows[w].decision
                        /\ \A k \in Key : Spent(k, w)' <=> Spent(k, w) ]_vars

(* The evaluator's first baseline of the window's king passed, and is the  *)
(* one the recorded result was compared with.                              *)
Comparable(k, w) ==
  LET Baseline(i) ==
        /\ commitments[i].hotkey = k[1] /\ IsResult(commitments[i])
        /\ Is(commitments[i], "BASELINE") /\ commitments[i].value.window = w
        /\ commitments[i].value.model = windows[w].opening.king.model
  IN  \E i \in DOMAIN commitments :
        /\ Baseline(i) /\ \A j \in 1..(i - 1) : ~ Baseline(j)
        /\ Is(commitments[i], "CONTROLS_OK") /\ ~ Is(commitments[i], "REJECTED")
        /\ commitments[i].value.quality = uses[k].value.king_quality
        /\ commitments[i].value.reward = uses[k].value.king_reward

(* The close of w counts the evaluator in the aggregate of its hotkey.     *)
WeighedAtClose(w, k) ==
  LET kept == windows'[w].decision.aggregates
      m    == uses[k].value.model
  IN  ( /\ ~ Closed(w) /\ Closed(w)' /\ windows[w].opening.king # None
        /\ uses[k] # None /\ uses[k].window = w /\ Is(uses[k], "CONTROLS_OK") /\ Comparable(k, w)
        /\ k[1] \in DOMAIN snapshot'.validators /\ snapshot'.validators[k[1]] > 0 )
      => (m \in DOMAIN kept => k[1] \in kept[m].evaluators)

(* A rejection is a measured zero: at the close every recorded terminal     *)
(* result whose controls passed and whose baseline agrees is weighed, with *)
(* its evaluator's stake, in the aggregate of its hotkey.                  *)
EveryMeasurementWeighs ==
  [][ \A w \in DOMAIN windows, k \in Key : WeighedAtClose(w, k) ]_vars

(* First terminal result wins: a recorded use never changes, and leaves    *)
(* the table only into the archive of the single admission reset.          *)
UsesNeverRewritten ==
  [][ \A k \in Key : uses[k] # None =>
        \/ uses'[k] = uses[k]
        \/ reset = None /\ reset' # None /\ archive'.uses[k] = uses[k] ]_vars

(* The reset starts a generation of its own: a panel opened after it holds *)
(* only hotkeys that committed again since, and the king outlives it.      *)
ReadmittedAfterReset ==
  \A w \in DOMAIN windows :
    LET o == windows[w].opening
    IN  reset # None /\ w >= ResetWindow =>
          /\ \A m \in DOMAIN o.candidates : o.candidates[m].block \in reset.block..(o.start_block - 1)
          /\ o.start_block = reset.block /\ Closed(w - 1) =>
               LET k == windows[w - 1].decision.king
               IN  k # None => o.king # None /\ o.king.model = k.model

(* The ledger keeps the promise of module Attempts. *)
Promise == INSTANCE Attempts WITH
  current    <- IF active = None THEN None ELSE active.id,
  spent      <- uses,
  generation <- IF reset = None THEN 0 ELSE 1

KeepsPromise == Promise!Spec
=============================================================================
