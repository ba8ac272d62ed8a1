------------------------------ MODULE Consensus ------------------------------
(***************************************************************************)
(* protocol.py: result commitments and `decide`, the pure function every   *)
(* follower runs over the finalized history of a window.  Rows arrive in   *)
(* the order the code sorts them in (block, hotkey, value); a "first" row  *)
(* is the least index.  Digests and encodings are abstracted: a commitment *)
(* value is the record it encodes, a challenge id is the pair of hotkey    *)
(* and model it hashes.  Fractions are compared by cross-multiplication.   *)
(***************************************************************************)
EXTENDS Integers, FiniteSets, Sequences, FiniteSetsExt, Functions

CONSTANTS
  Hotkey,      \* miners, numbered in the order of their addresses
  Validator,   \* evaluators, numbered in the order of their addresses
  Model,       \* model digests
  Uid,         \* slots of the subnet
  Policy,      \* policy digests
  Scale,       \* SCALE: units of a score of one
  None

Flag == {"CONTROLS_OK", "REJECTED", "BASELINE", "EARLY_STOP"}
Score == 0..Scale

Challenge == Hotkey \X Model      \* submission.challenge_id(hotkey, model)

(* Result.__post_init__: what a parsed result satisfies. *)
Sound(r) ==
  /\ {r.quality, r.reward, r.king_quality, r.king_reward} \subseteq Score
  /\ r.flags \subseteq Flag
  /\ r.reward <= r.quality /\ r.king_reward <= r.king_quality
  /\ "REJECTED" \in r.flags => r.quality = 0
  /\ "EARLY_STOP" \in r.flags =>
       "CONTROLS_OK" \in r.flags /\ r.flags \cap {"BASELINE", "REJECTED"} = {}

Result ==
  { r \in [kind : {"result"}, window : Nat, uid : Uid, model : Challenge,
           policy : Policy, quality : Score, reward : Score,
           king_quality : Score, king_reward : Score, flags : SUBSET Flag] : Sound(r) }

Submission == [kind : {"submission"}, model : Model]

Row == [block : Nat, hotkey : Hotkey \cup Validator, value : Result \cup Submission]

(* A committed challenge with the owner and the slot the chain gave it. *)
Entry == [block : Nat, hotkey : Hotkey, coldkey : Nat, uid : Uid, model : Challenge]

ASSUME ConsensusAssumption ==
  /\ Hotkey \subseteq Nat /\ Validator \subseteq Nat
  /\ Scale \in Nat \ {0}
  /\ None \notin Nat \cup Entry

IsResult(row) == row.value.kind = "result"
Is(row, flag) == flag \in row.value.flags
AtMostPercent(sum, stake, percent) == 100 * sum <= percent * stake * Scale

-----------------------------------------------------------------------------
(* decide: the loop over the sorted rows, as sets of indices; `history` is *)
(* the part of the rows it is given.                                       *)

Counted(rows, history, window, policy, snapshot) ==
  { i \in history :
      /\ IsResult(rows[i])
      /\ rows[i].value.window = window /\ rows[i].value.policy = policy
      /\ rows[i].hotkey \in DOMAIN snapshot.validators
      /\ snapshot.validators[rows[i].hotkey] > 0 }

Measured(rows, counted, candidates) ==
  { i \in counted :
      /\ ~ Is(rows[i], "BASELINE")
      /\ rows[i].value.model \in DOMAIN candidates
      /\ candidates[rows[i].value.model].uid = rows[i].value.uid }

SameKey(rows, i, j) ==
  rows[i].hotkey = rows[j].hotkey /\ rows[i].value.model = rows[j].value.model

(* `used`: the first result of an evaluator for a hotkey that is no bound. *)
Terminals(rows, measured) ==
  { i \in measured :
      /\ ~ Is(rows[i], "EARLY_STOP")
      /\ \A j \in measured : j < i /\ SameKey(rows, i, j) => Is(rows[j], "EARLY_STOP") }

(* Mistaken variant: a rejected result is dropped instead of weighed as zero. *)
VotesWithoutRejections(rows, measured, king) ==
  { i \in Terminals(rows, measured) :
      Is(rows[i], "CONTROLS_OK") /\ ~ Is(rows[i], "REJECTED") }

(* `records`: a terminal result that passed its controls, else the first   *)
(* bound that no terminal result of the same key came before.              *)
Votes(rows, measured, king) ==
  LET terminals == Terminals(rows, measured)
      passed    == { i \in terminals : Is(rows[i], "CONTROLS_OK") }
      Bound(i)  ==
        /\ Is(rows[i], "EARLY_STOP") /\ king # None
        /\ \A j \in measured : j < i => ~ SameKey(rows, i, j)
        /\ \A j \in passed : ~ SameKey(rows, i, j)
  IN  passed \cup { i \in measured : Bound(i) }

TerminalPanel(rows, measured, voter) ==
  { rows[i].value.model : i \in { j \in Terminals(rows, measured) :
                                    rows[j].hotkey = voter /\ Is(rows[j], "CONTROLS_OK") } }

(* The evaluator's first baseline of the king in this window, matched by the vote. *)
BaselineAgrees(rows, counted, king, i) ==
  \E b \in counted :
    LET Baseline(j) == /\ Is(rows[j], "BASELINE") /\ rows[j].hotkey = rows[i].hotkey
                       /\ rows[j].value.model = king.model
    IN  /\ Baseline(b)
        /\ \A j \in counted : j < b => ~ Baseline(j)
        /\ ~ Is(rows[b], "REJECTED") /\ Is(rows[b], "CONTROLS_OK")
        /\ rows[b].value.quality = rows[i].value.king_quality
        /\ rows[b].value.reward = rows[i].value.king_reward

ValidVotes(rows, history, window, policy, king, candidates, snapshot) ==
  LET counted  == Counted(rows, history, window, policy, snapshot)
      measured == Measured(rows, counted, candidates)
  IN  { i \in Votes(rows, measured, king) :
          IF king = None
          THEN /\ Cardinality(DOMAIN candidates) = 2
               /\ TerminalPanel(rows, measured, rows[i].hotkey) = DOMAIN candidates
          ELSE BaselineAgrees(rows, counted, king, i) }

-----------------------------------------------------------------------------
(* decide: stake-weighted aggregates and the choice of the winner.  Sums   *)
(* are kept over the common denominator stake * Scale.                     *)

(* Mistaken variant: one terminal result makes the whole aggregate terminal. *)
AggregateHalfBounded(rows, votes, snapshot) ==
  LET stakes == [ i \in votes |-> snapshot.validators[rows[i].hotkey] ]
  IN  [ quality    |-> SumFunctionOnSet([ i \in votes |-> stakes[i] * rows[i].value.quality ], votes),
        reward     |-> SumFunctionOnSet([ i \in votes |-> stakes[i] * rows[i].value.reward ], votes),
        delta      |-> SumFunctionOnSet([ i \in votes |->
                         stakes[i] * (rows[i].value.reward - rows[i].value.king_reward) ], votes),
        stake      |-> SumFunctionOnSet(stakes, votes),
        bounded    |-> \A i \in votes : Is(rows[i], "EARLY_STOP"),
        evaluators |-> { rows[i].hotkey : i \in votes } ]

Aggregate(rows, votes, snapshot) ==
  LET stakes == [ i \in votes |-> snapshot.validators[rows[i].hotkey] ]
  IN  [ quality    |-> SumFunctionOnSet([ i \in votes |-> stakes[i] * rows[i].value.quality ], votes),
        reward     |-> SumFunctionOnSet([ i \in votes |-> stakes[i] * rows[i].value.reward ], votes),
        delta      |-> SumFunctionOnSet([ i \in votes |->
                         stakes[i] * (rows[i].value.reward - rows[i].value.king_reward) ], votes),
        stake      |-> SumFunctionOnSet(stakes, votes),
        bounded    |-> \E i \in votes : Is(rows[i], "EARLY_STOP"),
        evaluators |-> { rows[i].hotkey : i \in votes } ]

TooPoor(a) == AtMostPercent(a.quality, a.stake, 5)
Improves(a) == ~ AtMostPercent(a.delta, a.stake, 2)
Metric(a, king) == IF king = None THEN a.reward ELSE a.delta
AtLeast(a, b, king) == Metric(a, king) * b.stake >= Metric(b, king) * a.stake

Earlier(e, f) == e.block < f.block \/ (e.block = f.block /\ e.hotkey < f.hotkey)

Chosen(aggregates, eligible, inconclusive, king, candidates) ==
  LET Beats(m, n) == /\ AtLeast(aggregates[m], aggregates[n], king)
                     /\ AtLeast(aggregates[n], aggregates[m], king) =>
                          Earlier(candidates[m], candidates[n])
      best == { m \in eligible : \A n \in eligible \ {m} : Beats(m, n) }
  IN  { m \in best : \A n \in inconclusive : ~ AtLeast(aggregates[n], aggregates[m], king) }

(* Mistaken variant: a bound that is left unresolved is charged as a loss. *)
LostOrUnresolved(a) == TooPoor(a) \/ ~ Improves(a) \/ a.bounded

(* The comparison is lost even if every missing video were perfect.        *)
Lost(a) == TooPoor(a) \/ ~ Improves(a)

(* Only terminal results crown, and against a king only an improvement.    *)
Eligible(a, king) == ~ a.bounded /\ (king = None \/ Improves(a))

Winner(chosen, king, candidates) ==
  IF chosen = {} THEN king ELSE candidates[CHOOSE m \in chosen : TRUE]

(* The throne is empty while its holder is not registered. *)
Enthroned(winner, snapshot) ==
  IF winner = None THEN None
  ELSE IF winner.hotkey \in DOMAIN snapshot.uids THEN winner ELSE None

(* What follows from the votes and from the aggregate of each challenge.   *)
Decision(rows, votes, all, window, king, candidates, snapshot) ==
  LET lost     == { m \in DOMAIN all : Lost(all[m]) }
      kept     == { m \in DOMAIN all : ~ TooPoor(all[m]) }
      open     == { m \in kept : all[m].bounded /\ Improves(all[m]) }
      eligible == { m \in kept : /\ candidates[m].hotkey \in DOMAIN snapshot.uids
                                 /\ Eligible(all[m], king) }
      chosen   == Chosen(all, eligible, open, king, candidates)
  IN  [ window       |-> window,
        block        |-> snapshot.block,
        king         |-> Enthroned(Winner(chosen, king, candidates), snapshot),
        inconclusive |-> open,
        early_losses |-> { rows[i] : i \in { j \in votes : /\ rows[j].value.model \in lost
                                                           /\ Is(rows[j], "EARLY_STOP") } },
        aggregates   |-> [ m \in kept |-> all[m] ] ]

Aggregates(rows, votes, candidates, snapshot) ==
  LET For(m) == { i \in votes : rows[i].value.model = m }
  IN  [ m \in { n \in DOMAIN candidates : For(n) # {} } |-> Aggregate(rows, For(m), snapshot) ]

Weighed(rows, votes, window, king, candidates, snapshot) ==
  Decision(rows, votes, Aggregates(rows, votes, candidates, snapshot), window, king, candidates, snapshot)

Decide(rows, history, window, policy, king, candidates, snapshot) ==
  Weighed(rows, ValidVotes(rows, history, window, policy, king, candidates, snapshot),
          window, king, candidates, snapshot)

=============================================================================
