------------------------------ MODULE WeightWriter -----------------------------
(***************************************************************************)
(* How a validator sets weights (validator.py): one chain thread decides,  *)
(* one writer thread signs, and two files outlive a crash.                 *)
(*   weight-send.json    the last operation and what is known of it        *)
(*   last-weights.json   the last operation that succeeded                 *)
(* An extrinsic that was signed is abroad until the chain applies or drops *)
(* it, whatever became of the process that signed it.                      *)
(* Every block in the code is compared with the current one, so a recorded *)
(* block is kept as its age, capped at Horizon: time has no bound here.    *)
(***************************************************************************)
EXTENDS Integers

CONSTANTS
  Vector, None,
  RateLimit,      \* weights_rate_limit
  Tempo,          \* tempo: an unchanged vector is sent again after it
  RejectPause,    \* blocks between a rejection and the next attempt
  Horizon,        \* the oldest age that is told apart
  Id              \* names of operations, reused once nothing refers to them

ASSUME WriterAssumption ==
  /\ None \notin Vector \cup Id
  /\ {RateLimit, Tempo, RejectPause, Horizon} \subseteq Nat
  /\ RateLimit > 0
  /\ RateLimit <= Horizon /\ Tempo <= Horizon /\ RejectPause <= Horizon

VARIABLES
  want,       \* weight_vector() of the current decision
  applied,    \* weights of this validator on the chain
  updated,    \* age of its last_update on the chain
  since,      \* last_update is not older than the block of weight-send.json
  abroad,     \* signed extrinsics, neither applied nor dropped
  landed,     \* operations whose extrinsic was applied
  send,       \* weight-send.json
  last,       \* last-weights.json
  op,         \* Validator.operation
  future,     \* state of Validator.future
  pc          \* the file write or call the chain thread has still to make

world == <<want, applied, updated, since, abroad, landed>>
files == <<send, last>>
thread == <<op, future, pc>>
vars == <<world, files, thread>>

Nothing == [id |-> None, age |-> Horizon, vector |-> None]

Init ==
  /\ want \in Vector
  /\ applied = None
  /\ updated = Horizon
  /\ since = FALSE
  /\ abroad = {}
  /\ landed = {}
  /\ send = [status |-> "none", id |-> None, age |-> Horizon, vector |-> None]
  /\ last = Nothing
  /\ op = Nothing
  /\ future = "none"
  /\ pc = "idle"

Recorded(operation, status) ==
  [status |-> status, id |-> operation.id, age |-> operation.age, vector |-> operation.vector]
Checkpoint(operation) == [id |-> operation.id, age |-> operation.age, vector |-> operation.vector]

-----------------------------------------------------------------------------
(* The chain. *)

Older(age) == IF age < Horizon THEN age + 1 ELSE Horizon

Tick ==
  /\ updated' = Older(updated)
  /\ send' = [send EXCEPT !.age = Older(@)]
  /\ last' = [last EXCEPT !.age = Older(@)]
  /\ op' = [op EXCEPT !.age = Older(@)]
  /\ UNCHANGED <<want, applied, since, abroad, landed, future, pc>>

(* A decision, a registration or the burn override changes the vector. *)
Change ==
  /\ want' \in Vector \ {want}
  /\ UNCHANGED <<applied, updated, since, abroad, landed, files, thread>>

Land ==
  /\ \E x \in abroad :
       /\ applied' = x.vector
       /\ abroad' = abroad \ {x}
       /\ landed' = landed \cup {x.id}
  /\ updated' = 0
  /\ since' = TRUE
  /\ UNCHANGED <<want, files, thread>>

Drop ==
  /\ \E x \in abroad : abroad' = abroad \ {x}
  /\ UNCHANGED <<want, applied, updated, since, landed, files, thread>>

-----------------------------------------------------------------------------
(* The writer thread: submit_weights, or the publication of a commitment. *)

Committing == op.id = None

Sign ==
  /\ future = "queued" /\ ~ Committing
  /\ future' = "signed"
  /\ abroad' = abroad \cup {[id |-> op.id, vector |-> op.vector]}
  /\ UNCHANGED <<want, applied, updated, since, landed, files, op, pc>>

Receive ==
  /\ future = "signed"
  /\ \A x \in abroad : x.id # op.id
  /\ future' = IF op.id \in landed THEN "success" ELSE "rejected"
  /\ UNCHANGED <<world, files, op, pc>>

(* The connection fails before or after the signature. *)
Raise ==
  /\ future \in {"queued", "signed"}
  /\ future' = "error"
  /\ UNCHANGED <<world, files, op, pc>>

Publish ==
  /\ future = "queued" /\ Committing
  /\ future' = "success"
  /\ UNCHANGED <<world, files, op, pc>>

-----------------------------------------------------------------------------
(* The chain thread: Validator.step. *)

(* Failures do not advance the success checkpoint. *)
Succeeded(outcome) == outcome = "success"

Status(outcome) ==
  CASE outcome = "success" -> "submitted" [] outcome = "rejected" -> "rejected" [] outcome = "error" -> "unknown"

(* _complete_write: the outcome is recorded, then the success checkpoint. *)
Collect ==
  /\ pc = "idle"
  /\ future \in {"success", "rejected", "error"}
  /\ IF Committing THEN UNCHANGED <<send, pc>> /\ op' = Nothing
     ELSE /\ send' = Recorded(op, Status(future))
          /\ IF Succeeded(future) THEN pc' = "checkpoint" /\ UNCHANGED op
             ELSE pc' = "idle" /\ op' = Nothing
  /\ future' = "none"
  /\ UNCHANGED <<world, last>>

(* Mistaken variant: equal weights on the chain are taken for the extrinsic. *)
ObservedByValue == applied = send.vector

(* weights_match and last_update: finalized since the operation was decided. *)
Observed == applied = send.vector /\ since

(* Mistaken variant: a rejection waits to be observed as well. *)
AmbiguousOnceSent == send.status \in {"unknown", "submitted", "rejected"}

Ambiguous == send.status \in {"unknown", "submitted"}
Ready == pc = "idle" /\ future = "none"

(* _due: an ambiguous operation is settled by what the chain shows. *)
Reconcile ==
  /\ Ready
  /\ Ambiguous /\ Observed
  /\ send' = [send EXCEPT !.status = "applied"]
  /\ pc' = "checkpoint"
  /\ UNCHANGED <<world, last, op, future>>

(* last-weights.json is written after weight-send.json. *)
WriteCheckpoint ==
  /\ pc = "checkpoint"
  /\ last' = Checkpoint(send)
  /\ op' = Nothing
  /\ pc' = "idle"
  /\ UNCHANGED <<world, send, future>>

(* Mistaken variant: the limit counts from the last decision, not the last update. *)
PacedByCheckpoint == last.age >= RateLimit

Paced == last.age >= RateLimit /\ updated >= RateLimit

Due ==
  /\ ~ Ambiguous
  /\ send.status = "rejected" => send.age >= RejectPause
  /\ Paced
  /\ last.vector # want \/ last.age >= Tempo

Unused == Id \ ({ x.id : x \in abroad } \cup {send.id, last.id})

(* The intent is recorded before anything can be signed. *)
Decide ==
  /\ Ready
  /\ Due
  /\ \E id \in Unused :
       /\ op' = [id |-> id, age |-> 0, vector |-> want]
       /\ landed' = landed \ {id}
  /\ send' = Recorded(op', "submitting")
  /\ since' = (updated = 0)
  /\ pc' = "submit"
  /\ UNCHANGED <<want, applied, updated, abroad, last, future>>

Submit ==
  /\ pc = "submit"
  /\ future' = "queued"
  /\ pc' = "idle"
  /\ UNCHANGED <<world, files, op>>

(* With no weights due, the one writer publishes a commitment. *)
Flush ==
  /\ Ready
  /\ ~ Due
  /\ future' = "queued"
  /\ UNCHANGED <<world, files, op, pc>>

-----------------------------------------------------------------------------
(* Mistaken variant: the record is left as it was found. *)
RecoveredAsFound(record) == record

(* __init__: a send that was interrupted has an unknown outcome. *)
Recovered(record) ==
  IF record.status = "submitting" THEN [record EXCEPT !.status = "unknown"] ELSE record

(* The process dies and starts again. *)
Crash ==
  /\ op' = Nothing
  /\ future' = "none"
  /\ pc' = "idle"
  /\ send' = Recovered(send)
  /\ UNCHANGED <<world, last>>

Step == Collect \/ Reconcile \/ WriteCheckpoint \/ Decide \/ Submit
Writer == Sign \/ Receive \/ Publish

Next == Tick \/ Change \/ Land \/ Drop \/ Step \/ Flush \/ Writer \/ Raise \/ Crash

(* Both threads run, blocks are finalized, and what is signed and not       *)
(* dropped is applied.  Commitments may keep the one writer busy, so the    *)
(* thread that decides gets its turn again and again rather than always.    *)
Fairness == SF_vars(Step) /\ WF_vars(Writer) /\ WF_vars(Tick) /\ WF_vars(Land)

Spec == Init /\ [][Next]_vars
FairSpec == Spec /\ Fairness

-----------------------------------------------------------------------------
(* Properties. *)

Operation == [id : Id \cup {None}, age : 0 .. Horizon, vector : Vector \cup {None}]
Record == [ status : {"none", "submitting", "submitted", "rejected", "unknown", "applied"},
            id : Id \cup {None}, age : 0 .. Horizon, vector : Vector \cup {None} ]

(* Types, and the agreement of the writer's memory with its record: while a *)
(* weight operation is in hand, the file says so, with the same identity    *)
(* and the same age.                                                        *)
TypeOK ==
  /\ want \in Vector /\ applied \in Vector \cup {None}
  /\ updated \in 0 .. Horizon /\ since \in BOOLEAN
  /\ abroad \subseteq [id : Id, vector : Vector] /\ landed \subseteq Id
  /\ pc \in {"idle", "checkpoint", "submit"}
  /\ future \in {"none", "queued", "signed", "success", "rejected", "error"}
  /\ op \in Operation /\ send \in Record /\ last \in Operation
  /\ op.id # None => op.vector \in Vector
  /\ op.id # None /\ pc # "checkpoint" => send = Recorded(op, "submitting")

(* "Without double-signing": at most one extrinsic is abroad, whenever the  *)
(* process died or the connection failed, because an operation of unknown   *)
(* outcome is settled before the next one is signed.                        *)
SingleSignature == \A x, y \in abroad : x = y

(* Nothing is recorded as applied, and nothing becomes the success          *)
(* checkpoint, that the chain has not applied.                              *)
CheckpointLanded ==
  /\ send.status = "applied" => send.id \in landed
  /\ last.id # None => last.id \in landed

(* The chain's rate limit is kept from update to update, also when one was  *)
(* applied long after it was decided, or noticed after a restart.           *)
RateLimitKept == [][ ~ (landed' \subseteq landed) => updated >= RateLimit ]_vars

(* The decision reaches the chain: once the decision stands and failures    *)
(* stop, the applied weights are the wanted ones for good, unless an        *)
(* operation of unknown outcome waits for the operator.                     *)
WeightsFollow ==
  <>[][ ~ (Change \/ Crash \/ Raise \/ Drop) ]_vars => <>[](applied = want \/ send.status = "unknown")
=============================================================================
