---------------------------- MODULE Machine_proofs -----------------------------
(***************************************************************************)
(* What holds of the parts of a validator's machine that share no state,   *)
(* part by part: the weight writer, the batch of a window, the schedule of *)
(* policies, the private records, a streamed measurement and its early     *)
(* stop.                                                                   *)
(***************************************************************************)
EXTENDS WeightWriter, BatchState, ScheduleState, RecordState, GateState, FutilityState,
        SequenceTheorems, SumTheorems

Batch    == INSTANCE WindowBatch
Schedule == INSTANCE PolicySchedule
Private  == INSTANCE Storage
Stream   == INSTANCE StreamGate
Early    == INSTANCE Futility


-----------------------------------------------------------------------------
(* WeightWriter: one signature, for every vector set, rate limit, tempo    *)
(* and pause, and for any number of crashes and lost connections.          *)

(* While an extrinsic is abroad, or may still be signed: the chain has not  *)
(* changed since the operation was decided, and it was decided in time.     *)
Fresh == ~ since /\ updated >= RateLimit

(* What is abroad is the operation of weight-send.json, still undecided.    *)
AbroadIsRecorded ==
  \A x \in abroad : /\ x = [id |-> send.id, vector |-> send.vector]
                    /\ send.status \in {"submitting", "unknown"}
                    /\ Fresh

(* Who holds the operation, and what the chain can have done with it.       *)
InHand ==
  /\ send.status = "submitting" =>
       op.id # None /\ pc # "checkpoint" /\ (pc = "submit" \/ future # "none")
  /\ pc = "submit" => future = "none" /\ op.id # None /\ abroad = {} /\ Fresh
  /\ future = "queued" /\ op.id # None => abroad = {} /\ Fresh
  /\ future \in {"success", "rejected"} /\ op.id # None => abroad = {}
  /\ future = "success" /\ op.id # None => op.id \in landed
  /\ pc = "checkpoint" =>
       future = "none" /\ send.id \in landed /\ send.status \in {"submitted", "applied"}

(* What the files may rely on. *)
OnChain ==
  /\ since => send.id \in landed
  /\ send.status \in {"submitted", "applied"} => send.id \in landed
  /\ last.id # None => last.id \in landed

WriterInv == TypeOK /\ AbroadIsRecorded /\ InHand /\ OnChain

(* Between two operations the chain thread holds none. *)
LEMMA ReadyHoldsNone == WriterInv /\ Ready => op.id = None /\ send.status # "submitting"
BY DEF WriterInv, TypeOK, InHand, Ready, Recorded, Operation, Record

LEMMA InitWriter == Init => WriterInv
<1> SUFFICES ASSUME Init PROVE WriterInv
  OBVIOUS
<1>1. TypeOK
  <2>1. Nothing \in Operation /\ Nothing.id = None /\ Horizon \in 0 .. Horizon
    BY WriterAssumption DEF Nothing, Operation
  <2>2. send \in Record
    BY <2>1 DEF Init, Record
  <2> QED
    BY <2>1, <2>2 DEF Init, TypeOK
<1>2. AbroadIsRecorded /\ InHand /\ OnChain
  BY DEF Init, AbroadIsRecorded, InHand, OnChain, Nothing
<1> QED
  BY <1>1, <1>2 DEF WriterInv

(* Every step keeps the invariant. *)
LEMMA StepWriter == WriterInv /\ [Next]_vars => WriterInv'
<1> SUFFICES ASSUME WriterInv, [Next]_vars PROVE WriterInv'
  OBVIOUS
<1> USE WriterAssumption
<1> USE DEF WriterInv, Operation, Record, Recorded, Fresh
<1>1. CASE Tick
  BY <1>1 DEF Tick, Older, TypeOK, AbroadIsRecorded, InHand, OnChain
<1>2. CASE Change
  BY <1>2 DEF Change, files, thread, TypeOK, AbroadIsRecorded, InHand, OnChain
<1>3. CASE Land
  BY <1>3 DEF Land, files, thread, TypeOK, AbroadIsRecorded, InHand, OnChain
<1>4. CASE Drop
  BY <1>4 DEF Drop, files, thread, TypeOK, AbroadIsRecorded, InHand, OnChain
<1>5. CASE Collect
  <2>1. CASE op.id = None
    BY <1>5, <2>1 DEF Collect, Committing, Nothing, world, TypeOK, AbroadIsRecorded, InHand, OnChain
  <2>2. CASE op.id # None
    <3>1. send = Recorded(op, "submitting") /\ send' = Recorded(op, Status(future))
      BY <1>5, <2>2 DEF Collect, Committing, TypeOK
    <3>2. CASE future = "success"
      <4>1. Status(future) = "submitted"
        BY <3>2 DEF Status
      <4> QED
        BY <1>5, <2>2, <3>1, <3>2, <4>1
        DEF Collect, Committing, Succeeded, Nothing, world, TypeOK, AbroadIsRecorded, InHand, OnChain
    <3>3. CASE future \in {"rejected", "error"}
      <4>1. Status(future) = (IF future = "rejected" THEN "rejected" ELSE "unknown")
        BY <3>3 DEF Status
      <4>2. /\ pc' = "idle" /\ op' = Nothing /\ future' = "none" /\ UNCHANGED <<world, last>>
            /\ send'.status \in {"rejected", "unknown"} /\ send'.id = send.id /\ send'.vector = send.vector
            /\ send' \in Record /\ op' \in Operation /\ op'.id = None
        BY <1>5, <2>2, <3>1, <3>3, <4>1 DEF Collect, Committing, Succeeded, Nothing, TypeOK
      <4>3. future = "rejected" => abroad = {}
        BY <2>2 DEF InHand
      <4>4. future = "error" => send'.status = "unknown"
        BY <3>1, <4>1
      <4> QED
        BY <3>3, <4>2, <4>3, <4>4 DEF world, TypeOK, AbroadIsRecorded, InHand, OnChain
    <3> QED
      BY <1>5, <3>2, <3>3 DEF Collect
  <2> QED
    BY <2>1, <2>2
<1>6. CASE Reconcile
  BY <1>6, ReadyHoldsNone DEF Reconcile, Ready, Ambiguous, Observed, world, TypeOK, AbroadIsRecorded, InHand, OnChain
<1>7. CASE WriteCheckpoint
  BY <1>7 DEF WriteCheckpoint, Checkpoint, Nothing, world, TypeOK, AbroadIsRecorded, InHand, OnChain
<1>8. CASE Decide
  <2>1. /\ abroad = {} /\ updated >= RateLimit /\ pc' = "submit" /\ future = "none"
        /\ UNCHANGED <<want, applied, updated, abroad, last, future>>
    BY <1>8, ReadyHoldsNone DEF Decide, Ready, Due, Ambiguous, Paced, AbroadIsRecorded
  <2>2. updated # 0 /\ updated \in 0 .. Horizon
    BY <2>1 DEF TypeOK
  <2>3. PICK id \in Unused : /\ op' = [id |-> id, age |-> 0, vector |-> want]
                            /\ landed' = landed \ {id}
    BY <1>8 DEF Decide
  <2>4. id \in Id /\ id # None /\ id # last.id
    BY DEF Unused
  <2>5. since' = FALSE /\ send' = [status |-> "submitting", id |-> id, age |-> 0, vector |-> want]
    BY <1>8, <2>2, <2>3 DEF Decide
  <2>6. TypeOK'
    <3>1. 0 \in 0 .. Horizon
      OBVIOUS
    <3>2. want \in Vector /\ op' \in Operation /\ send' \in Record /\ op'.vector \in Vector
      BY <2>3, <2>4, <2>5, <3>1 DEF TypeOK
    <3>3. send' = Recorded(op, "submitting")'
      BY <2>3, <2>5
    <3> QED
      BY <2>1, <2>2, <2>3, <2>5, <3>2, <3>3 DEF TypeOK
  <2>7. AbroadIsRecorded' /\ InHand'
    BY <2>1, <2>3, <2>4, <2>5 DEF AbroadIsRecorded, InHand
  <2>8. OnChain'
    BY <2>1, <2>3, <2>4, <2>5 DEF OnChain
  <2> QED
    BY <2>6, <2>7, <2>8
<1>9. CASE Submit
  BY <1>9 DEF Submit, world, files, TypeOK, AbroadIsRecorded, InHand, OnChain
<1>10. CASE Flush
  BY <1>10, ReadyHoldsNone DEF Flush, Ready, world, files, TypeOK, AbroadIsRecorded, InHand, OnChain
<1>11. CASE Sign
  BY <1>11 DEF Sign, Committing, files, TypeOK, AbroadIsRecorded, InHand, OnChain
<1>12. CASE Receive
  BY <1>12 DEF Receive, world, files, TypeOK, AbroadIsRecorded, InHand, OnChain
<1>13. CASE Publish
  BY <1>13 DEF Publish, Committing, world, files, TypeOK, AbroadIsRecorded, InHand, OnChain
<1>14. CASE Raise
  BY <1>14 DEF Raise, world, files, TypeOK, AbroadIsRecorded, InHand, OnChain
<1>15. CASE Crash
  BY <1>15 DEF Crash, Recovered, Nothing, world, TypeOK, AbroadIsRecorded, InHand, OnChain
<1>16. CASE UNCHANGED vars
  BY <1>16 DEF vars, world, files, thread, TypeOK, AbroadIsRecorded, InHand, OnChain
<1> QED
  BY <1>1, <1>2, <1>3, <1>4, <1>5, <1>6, <1>7, <1>8, <1>9, <1>10, <1>11, <1>12, <1>13, <1>14,
     <1>15, <1>16 DEF Next, Step, Writer

LEMMA AlwaysWriter == Spec => []WriterInv
BY InitWriter, StepWriter, PTL DEF Spec

(* The files and the memory of the writer keep their types and agree. *)
THEOREM WriterTypes == Spec => []TypeOK
BY AlwaysWriter, PTL DEF WriterInv

(* "Without double-signing": never two extrinsics abroad, however often the *)
(* process dies or loses its connection.                                    *)
THEOREM NeverTwoSignatures == Spec => []SingleSignature
<1>1. WriterInv => SingleSignature
  BY DEF WriterInv, AbroadIsRecorded, SingleSignature
<1> QED
  BY <1>1, AlwaysWriter, PTL

(* "Applied" and the success checkpoint are never ahead of the chain. *)
THEOREM CheckpointsLanded == Spec => []CheckpointLanded
<1>1. WriterInv => CheckpointLanded
  BY DEF WriterInv, OnChain, CheckpointLanded
<1> QED
  BY <1>1, AlwaysWriter, PTL

(* Only an extrinsic abroad changes the chain, and what is abroad was       *)
(* decided when the limit had passed.                                       *)
THEOREM UpdatesPaced == Spec => RateLimitKept
<1>1. WriterInv /\ [Next]_vars => [~ (landed' \subseteq landed) => updated >= RateLimit]_vars
  <2> SUFFICES ASSUME WriterInv, Next, ~ (landed' \subseteq landed) PROVE updated >= RateLimit
    OBVIOUS
  <2>1. CASE Land
    BY <2>1 DEF Land, WriterInv, AbroadIsRecorded, Fresh
  <2>2. CASE ~ Land
    BY <2>2 DEF Next, Step, Writer, Tick, Change, Drop, Collect, Reconcile, WriteCheckpoint, Decide, Submit,
       Flush, Sign, Receive, Publish, Raise, Crash, world
  <2> QED
    BY <2>1, <2>2
<1> QED
  BY <1>1, AlwaysWriter, PTL DEF Spec, RateLimitKept

-----------------------------------------------------------------------------
(* WindowBatch: every evaluation of a window is given one and the same     *)
(* batch of clips, whatever the catalogue, the media and the crashes.      *)

(* A batch keeps every video of the draw that is not rejected in its place. *)
Keeps(b) ==
  /\ b = [i \in 1 .. Size |-> b[i]]
  /\ \A i \in 1 .. Size : b[i] = Batch!Draw[i] \/ Batch!Draw[i] \in rejected

(* Nothing is served that is not locked, and what is locked is never       *)
(* amended: whoever works on a batch after the lock works on that one.     *)
BatchInv ==
  /\ stage # "idle" => Keeps(selected)
  /\ locked # <<>> => Keeps(locked)
  /\ locked # <<>> /\ stage # "idle" => selected = locked
  /\ stage = "serve" => locked # <<>>
  /\ batch # <<>> => batch = locked
  /\ served # {} => locked # <<>>
  /\ served \subseteq {locked}

LEMMA DrawKept ==
  ASSUME Batch!BatchAssumption
  PROVE  Keeps(Batch!Draw)
BY DEF Keeps, Batch!Draw

LEMMA BatchNotEmpty ==
  ASSUME Batch!BatchAssumption, NEW b, Keeps(b)
  PROVE  b # <<>>
<1>1. 1 \in DOMAIN b
  BY DEF Batch!BatchAssumption, Keeps
<1>2. DOMAIN <<>> = {}
  OBVIOUS
<1> QED BY <1>1, <1>2

(* Rejections are never taken back. *)
LEMMA StaysKept ==
  ASSUME NEW b, Keeps(b), rejected \subseteq rejected'
  PROVE  b = [i \in 1 .. Size |-> b[i]] /\ \A i \in 1 .. Size : b[i] = Batch!Draw[i] \/ Batch!Draw[i] \in rejected'
BY DEF Keeps

(* A step that neither locks nor serves, and rejects at most more. *)
LEMMA BatchQuiet ==
  ASSUME BatchInv, rejected \subseteq rejected', UNCHANGED <<locked, batch, served>>, stage' # "serve",
         stage' # "idle" => stage # "idle" /\ UNCHANGED selected
  PROVE  BatchInv'
BY DEF BatchInv, Keeps, Batch!Draw

(* A replacement only takes a place whose video of the draw is rejected. *)
LEMMA FilledKeeps ==
  ASSUME Keeps(selected), NEW fresh
  PROVE  Keeps(Batch!Filled(Batch!Places(rejected), fresh))
<1> DEFINE F == Batch!Filled(Batch!Places(rejected), fresh)
<1>1. DOMAIN selected = 1 .. Size
  BY DEF Keeps
<1>2. F = [i \in 1 .. Size |-> F[i]]
  BY <1>1 DEF Batch!Filled
<1>3. ASSUME NEW i \in 1 .. Size
      PROVE  F[i] = Batch!Draw[i] \/ Batch!Draw[i] \in rejected
  <2>1. CASE selected[i] \in Batch!Places(rejected)
    BY <2>1 DEF Keeps, Batch!Places
  <2>2. CASE selected[i] \notin Batch!Places(rejected)
    BY <2>2, <1>1 DEF Keeps, Batch!Filled
  <2> QED BY <2>1, <2>2
<1> QED BY <1>2, <1>3 DEF Keeps

LEMMA BatchReplaceStep ==
  ASSUME Batch!BatchAssumption, BatchInv, Batch!Replace
  PROVE  BatchInv'
<1>1. UNCHANGED <<rejected, locked, batch, served>> /\ stage # "idle"
  BY DEF Batch!Replace, Batch!files
<1>2. CASE Batch!Error
  BY <1>1, <1>2, BatchQuiet DEF Batch!Error
<1>3. CASE locked = <<>> /\ stage' = "check" /\ \E fresh : selected' = Batch!Filled(Batch!Places(rejected), fresh)
  <2>1. Keeps(selected')
    BY <1>1, <1>3, FilledKeeps DEF BatchInv
  <2> QED BY <2>1, <1>1, <1>3 DEF BatchInv, Keeps
<1> QED BY <1>2, <1>3 DEF Batch!Replace

LEMMA BatchLoadStep ==
  ASSUME Batch!BatchAssumption, BatchInv, Batch!Load
  PROVE  BatchInv'
<1>1. UNCHANGED <<rejected, batch, served>> /\ stage # "idle" /\ Keeps(selected) /\ selected # <<>>
  BY BatchNotEmpty DEF Batch!Load, BatchInv
<1>2. CASE Batch!Error /\ UNCHANGED locked
  BY <1>1, <1>2, BatchQuiet DEF Batch!Error
<1>3. CASE Batch!Storable(locked, selected) /\ locked' = selected /\ stage' = "serve" /\ UNCHANGED selected
  BY <1>1, <1>3 DEF Batch!Storable, BatchInv, Keeps
<1> QED BY <1>2, <1>3 DEF Batch!Load

LEMMA BatchSteps ==
  ASSUME Batch!BatchAssumption, BatchInv, [Batch!Next]_Batch!vars
  PROVE  BatchInv'
<1>1. CASE Batch!Start
  BY <1>1, DrawKept DEF Batch!Start, Batch!files, BatchInv, Keeps
<1>2. CASE Batch!Check
  <2>1. UNCHANGED <<rejected, locked, batch, selected, served>> /\ stage # "idle" /\ stage' \in {"build", "replace"}
    BY <1>2 DEF Batch!Check
  <2> QED BY <2>1, BatchQuiet
<1>3. CASE Batch!CutVideo
  <2>1. UNCHANGED <<rejected, locked, batch, stage, selected, served>> /\ stage = "build"
    BY <1>3 DEF Batch!CutVideo
  <2> QED BY <2>1, BatchQuiet
<1>4. CASE Batch!Built
  <2>1. /\ UNCHANGED <<locked, batch, selected, served>> /\ rejected \subseteq rejected'
        /\ stage # "idle" /\ stage' \in {"load", "replace"}
    BY <1>4 DEF Batch!Built
  <2> QED BY <2>1, BatchQuiet
<1>5. CASE Batch!Replace
  BY <1>5, BatchReplaceStep
<1>6. CASE Batch!Load
  BY <1>6, BatchLoadStep
<1>7. CASE Batch!Serve
  BY <1>7 DEF Batch!Serve, Batch!Ordered, Batch!Error, BatchInv, Keeps
<1>8. CASE Batch!ServeKept
  BY <1>8 DEF Batch!ServeKept, Batch!files, BatchInv, Keeps
<1>9. CASE Batch!Crash
  <2>1. UNCHANGED <<rejected, locked, batch, served>> /\ stage' = "idle"
    BY <1>9 DEF Batch!Crash, Batch!Error
  <2> QED BY <2>1, BatchQuiet
<1>10. CASE UNCHANGED Batch!vars
  BY <1>10 DEF Batch!vars, Batch!files, BatchInv, Keeps
<1> QED BY <1>1, <1>2, <1>3, <1>4, <1>5, <1>6, <1>7, <1>8, <1>9, <1>10 DEF Batch!Next

LEMMA OneServed ==
  ASSUME BatchInv
  PROVE  OneBatchServed
<1>1. Cardinality(served) <= 1
  <2>1. IsFiniteSet({locked}) /\ Cardinality({locked}) = 1
    BY FS_Singleton
  <2> QED BY <2>1, FS_Subset DEF BatchInv
<1> QED BY <1>1 DEF BatchInv, Keeps, OneBatchServed, Draw, Batch!Draw

(* For every catalogue and every size of a batch: one batch is served in a *)
(* window, and it follows the draw wherever the draw was not rejected.     *)
THEOREM OneBatch ==
  ASSUME BatchAssumption
  PROVE  Batch!Spec => []OneBatchServed
<1>1. Batch!Init => BatchInv
  BY DEF Batch!Init, BatchInv
<1>2. BatchInv /\ [Batch!Next]_Batch!vars => BatchInv'
  BY BatchSteps DEF BatchAssumption, Batch!BatchAssumption
<1>3. BatchInv => OneBatchServed
  BY OneServed
<1> QED BY <1>1, <1>2, <1>3, PTL DEF Batch!Spec

-----------------------------------------------------------------------------
(* PolicySchedule: the stored schedule explains the windows that were      *)
(* opened since its past was taken over, for schedules and histories of    *)
(* any length.                                                             *)

LegacyRelease == [policy |-> Legacy, steps |-> <<>>]

(* A ledger that was never started has opened nothing, and one without a   *)
(* schedule has taken over no past.                                        *)
ScheduleInv ==
  /\ saved \in Schedule!Release \cup {Unset, LegacyRelease}
  /\ next \in Nat /\ inherited \in Nat
  /\ saved = Unset => next = 0 /\ inherited = 0
  /\ saved # Unset => (saved.steps = <<>> => inherited = 0)
  /\ opened = [w \in 0 .. next - 1 |-> opened[w]]
  /\ Schedule!ReplayAgrees

-----------------------------------------------------------------------------
LEMMA Least ==
  ASSUME NEW S, S \subseteq Nat, S # {}
  PROVE  \E i \in S : \A j \in S : i <= j
<1>1. PICK i \in S : \A j \in S : ~ (<<j, i>> \in OpToRel(<, Nat))
  BY NatLessThanWellFounded, WFMin, Zenon
<1>2. \A j \in S : ~ (j < i)
  BY <1>1 DEF OpToRel
<1> QED BY <1>2

LEMMA FirstIsLeast ==
  ASSUME NEW S, S \subseteq Nat, S # {}
  PROVE  Schedule!First(S) \in S /\ \A j \in S : Schedule!First(S) <= j
BY Least DEF Schedule!First

(* A later step changes nothing for a window that others lie ahead of. *)
LEMMA FirstStays ==
  ASSUME NEW S, NEW n \in Nat, S \subseteq Nat, S # {}, \A i \in S : i < n
  PROVE  Schedule!First(S \cup {n}) = Schedule!First(S)
<1>1. Schedule!First(S) \in S /\ \A j \in S : Schedule!First(S) <= j
  BY FirstIsLeast
<1> DEFINE T == S \cup {n}
<1>2. T \subseteq Nat /\ T # {}
  OBVIOUS
<1> HIDE DEF T
<1>3. Schedule!First(T) \in T /\ \A j \in T : Schedule!First(T) <= j
  BY <1>2, FirstIsLeast
<1>4. Schedule!First(T) # n
  <2>1. Schedule!First(S) \in T /\ Schedule!First(S) < n /\ Schedule!First(S) \in Nat
    BY <1>1 DEF T
  <2>2. Schedule!First(T) <= Schedule!First(S)
    BY <1>3, <2>1
  <2> QED BY <2>1, <2>2
<1>5. Schedule!First(T) \in S /\ Schedule!First(S) \in T
  BY <1>1, <1>3, <1>4 DEF T
<1>6. Schedule!First(T) <= Schedule!First(S) /\ Schedule!First(S) <= Schedule!First(T) /\ Schedule!First(S) \in Nat /\ Schedule!First(T) \in Nat
  BY <1>1, <1>3, <1>5
<1>7. Schedule!First(T) = Schedule!First(S)
  BY <1>6
<1> QED BY <1>7 DEF T

LEMMA StepsAreSequences ==
  ASSUME Schedule!ScheduleAssumption, NEW c \in Schedule!Release
  PROVE  c.steps \in Seq(Schedule!Step) /\ Len(c.steps) \in Nat
<1>1. PICK n \in 0 .. MaxSteps : c.steps \in [1 .. n -> Schedule!Step]
  BY DEF Schedule!Release
<1>2. n \in Nat
  BY <1>1 DEF Schedule!ScheduleAssumption
<1>3. c.steps \in Seq(Schedule!Step)
  BY <1>1, <1>2
<1> QED BY <1>3, LenProperties

LEMMA Firsts ==
  ASSUME Schedule!ScheduleAssumption, NEW c \in Schedule!Release, NEW i \in 1 .. Len(c.steps)
  PROVE  c.steps[i].first \in Nat
<1>1. c.steps[i] \in Schedule!Step
  BY StepsAreSequences, ElementOfSeq
<1> QED BY <1>1 DEF Schedule!Step, Schedule!ScheduleAssumption

(* All steps but the newest. *)
LEMMA EarlierSteps ==
  ASSUME Schedule!ScheduleAssumption, NEW c \in Schedule!Release, c.steps # <<>>
  PROVE  /\ Len(c.steps) \in Nat \ {0}
         /\ Len(Schedule!Earlier(c)) = Len(c.steps) - 1
         /\ \A i \in 1 .. Len(c.steps) - 1 : Schedule!Earlier(c)[i] = c.steps[i]
<1>1. c.steps \in Seq(Schedule!Step) /\ Len(c.steps) \in Nat \ {0}
  BY StepsAreSequences, EmptySeq
<1>2. \A i \in 1 .. Len(c.steps) - 1 : c.steps[i] \in Schedule!Step
  BY <1>1, ElementOfSeq
<1> DEFINE n == Len(c.steps) - 1
<1>3. n \in Int /\ \A i \in 1 .. n : c.steps[i] \in Schedule!Step
  BY <1>1, <1>2
<1>4. n + 1 = Len(c.steps) /\ n \in Nat
  BY <1>1
<1> HIDE DEF n
<1>5. /\ Len(SubSeq(c.steps, 1, n)) = IF 1 <= n THEN n - 1 + 1 ELSE 0
      /\ \A i \in 1 .. n - 1 + 1 : SubSeq(c.steps, 1, n)[i] = c.steps[1 + i - 1]
  BY <1>3, SubSeqProperties
<1>6. /\ Len(SubSeq(c.steps, 1, n)) = n
      /\ \A i \in 1 .. n : SubSeq(c.steps, 1, n)[i] = c.steps[i]
  BY <1>4, <1>5
<1> QED BY <1>1, <1>6 DEF Schedule!Earlier, n

(* Before the first boundary that lies ahead, a policy is the one that the *)
(* steps behind it led to.                                                 *)
LEMMA ExtendedAgrees ==
  ASSUME Schedule!ScheduleAssumption, NEW c \in Schedule!Release, NEW d, c.steps # <<>>,
         Schedule!Earlier(c) = d.steps, d.policy = Schedule!Newest(c).previous,
         NEW w \in Nat, w < Schedule!Newest(c).first
  PROVE  Schedule!PolicyFor(c, w) = Schedule!PolicyFor(d, w)
<1> DEFINE n == Len(c.steps)
<1>1. /\ n \in Nat \ {0} /\ Len(d.steps) = n - 1
      /\ \A i \in 1 .. n - 1 : d.steps[i] = c.steps[i]
  BY EarlierSteps
<1>2. c.steps[n].first > w /\ Schedule!Newest(c) = c.steps[n]
  BY <1>1, Firsts DEF Schedule!Newest
<1> HIDE DEF n
<1>3. Schedule!Ahead(c, w) = Schedule!Ahead(d, w) \cup {n} /\ Schedule!Ahead(d, w) \subseteq 1 .. n - 1
  BY <1>1, <1>2 DEF Schedule!Ahead, n
<1>4. CASE Schedule!Ahead(d, w) = {}
  <2>1. Schedule!Ahead(c, w) = {n}
    BY <1>3, <1>4
  <2>2. Schedule!First(Schedule!Ahead(c, w)) = n
    BY <2>1, <1>1, FirstIsLeast
  <2> QED BY <2>1, <2>2, <1>2, <1>4 DEF Schedule!PolicyFor
<1>5. CASE Schedule!Ahead(d, w) # {}
  <2>1. Schedule!First(Schedule!Ahead(d, w)) \in Schedule!Ahead(d, w)
    BY <1>1, <1>3, <1>5, FirstIsLeast
  <2>2. Schedule!First(Schedule!Ahead(c, w)) = Schedule!First(Schedule!Ahead(d, w))
    <3> DEFINE S == Schedule!Ahead(d, w)
    <3>1. S \subseteq Nat /\ S # {} /\ n \in Nat /\ \A i \in S : i < n
      BY <1>1, <1>3, <1>5
    <3> HIDE DEF S
    <3>2. Schedule!First(S \cup {n}) = Schedule!First(S)
      BY <3>1, FirstStays
    <3> QED BY <3>2, <1>3 DEF S
  <2>3. d.steps[Schedule!First(Schedule!Ahead(d, w))] = c.steps[Schedule!First(Schedule!Ahead(d, w))]
    BY <2>1, <1>1, <1>3
  <2>4. Schedule!Ahead(c, w) # {}
    BY <1>3
  <2> QED BY <2>2, <2>3, <2>4, <1>5 DEF Schedule!PolicyFor
<1> QED BY <1>4, <1>5

(* Two releases that differ in the boundary of the newest step only. *)
LEMMA ReplacedAgrees ==
  ASSUME Schedule!ScheduleAssumption, NEW c \in Schedule!Release, NEW d \in Schedule!Release,
         c.steps # <<>>, d.steps # <<>>,
         Schedule!Earlier(c) = Schedule!Earlier(d), Schedule!Newest(c).previous = Schedule!Newest(d).previous,
         NEW w \in Nat, w < Schedule!Newest(c).first, w < Schedule!Newest(d).first
  PROVE  Schedule!PolicyFor(c, w) = Schedule!PolicyFor(d, w)
<1> DEFINE b == [policy |-> Schedule!Newest(c).previous, steps |-> Schedule!Earlier(c)]
<1>1. b.policy = Schedule!Newest(c).previous /\ b.policy = Schedule!Newest(d).previous
      /\ Schedule!Earlier(c) = b.steps /\ Schedule!Earlier(d) = b.steps
  OBVIOUS
<1> HIDE DEF b
<1>2. Schedule!PolicyFor(c, w) = Schedule!PolicyFor(b, w)
  BY <1>1, ExtendedAgrees
<1>3. Schedule!PolicyFor(d, w) = Schedule!PolicyFor(b, w)
  BY <1>1, ExtendedAgrees
<1> QED BY <1>2, <1>3

-----------------------------------------------------------------------------
(* Between its last two boundaries a schedule gives what its newest step   *)
(* is an upgrade of.                                                       *)
LEMMA BetweenLast ==
  ASSUME Schedule!ScheduleAssumption, NEW c \in Schedule!Release, c.steps # <<>>,
         NEW w \in Nat, w < Schedule!Newest(c).first, w >= ZeroBurn,
         Len(c.steps) > 1 => w >= c.steps[Len(c.steps) - 1].first
  PROVE  Schedule!PolicyFor(c, w) = Schedule!Newest(c).previous
<1> DEFINE n == Len(c.steps)
<1>1. n \in Nat \ {0} /\ \A i \in 1 .. n : c.steps[i].first \in Nat
  BY EarlierSteps, Firsts
<1>2. c.steps[n].first > w /\ Schedule!Newest(c) = c.steps[n]
  BY <1>1 DEF Schedule!Newest
<1>3. n > 1 => w >= c.steps[n - 1].first
  OBVIOUS
<1>4. \A i, j \in 1 .. n : i < j => c.steps[i].first < c.steps[j].first
  BY DEF Schedule!Release, Schedule!Valid
<1> HIDE DEF n
<1>5. ASSUME NEW i \in 1 .. n - 1
      PROVE  ~ (w < c.steps[i].first)
  <2>1. n > 1 /\ n - 1 \in 1 .. n /\ i \in 1 .. n
    BY <1>1
  <2>2. i = n - 1 \/ i < n - 1
    BY <1>1
  <2>3. c.steps[i].first \in Nat /\ c.steps[n - 1].first \in Nat
    BY <1>1, <2>1
  <2>4. c.steps[i].first <= c.steps[n - 1].first
    BY <1>4, <2>1, <2>2, <2>3
  <2> QED BY <1>3, <2>1, <2>3, <2>4
<1>6. Schedule!Ahead(c, w) = {n}
  <2>1. \A i \in 1 .. n : i # n => i \in 1 .. n - 1
    BY <1>1
  <2>2. n \in 1 .. n
    BY <1>1
  <2> QED BY <1>2, <1>5, <2>1, <2>2 DEF Schedule!Ahead, n
<1>7. Schedule!First(Schedule!Ahead(c, w)) = n
  BY <1>1, <1>6, FirstIsLeast
<1>8. ~ (w < ZeroBurn)
  BY DEF Schedule!ScheduleAssumption
<1> QED BY <1>2, <1>6, <1>7, <1>8 DEF Schedule!PolicyFor

-----------------------------------------------------------------------------
(* What a start does to the windows that were opened before it. *)
LEMMA StartStep ==
  ASSUME Schedule!ScheduleAssumption, ScheduleInv, Schedule!Start
  PROVE  ScheduleInv'
<1>1. PICK c \in Schedule!Release :
        /\ \/ Schedule!Replaces(c) /\ Schedule!Unopened(Schedule!Newest(c).first)
           \/ Schedule!Extends(c) /\ Schedule!Upgrade(c)
           \/ ~ Schedule!Scheduled(saved) /\ Schedule!Scheduled(c) /\ Schedule!Upgrade(c)
           \/ saved = Unset /\ ~ Schedule!Scheduled(c)
           \/ saved = c
        /\ saved' = c /\ inherited' = Schedule!Takeover(c) /\ UNCHANGED <<next, opened>>
  BY DEF Schedule!Start
<1>2. c # Unset
  BY DEF Schedule!ScheduleAssumption
<1>3. /\ next \in Nat /\ inherited \in Nat /\ saved \in Schedule!Release \cup {Unset, LegacyRelease}
      /\ saved = Unset => next = 0 /\ inherited = 0
      /\ saved # Unset => (saved.steps = <<>> => inherited = 0)
  BY DEF ScheduleInv
<1>4. inherited' \in Nat /\ inherited' >= inherited
  <2>1. CASE saved # Unset /\ saved.steps = <<>> /\ Len(c.steps) > 1
    <3>1. c.steps # <<>>
      <4>1. CASE c.steps = <<>>
        BY <2>1, <4>1
      <4> QED BY <4>1
    <3>2. Len(c.steps) \in Nat
      BY StepsAreSequences
    <3>3. Len(c.steps) - 1 \in 1 .. Len(c.steps)
      BY <2>1, <3>2
    <3>4. c.steps[Len(c.steps) - 1].first \in Nat
      BY <3>3, Firsts
    <3>5. inherited' = c.steps[Len(c.steps) - 1].first
      BY <1>1, <2>1 DEF Schedule!Takeover
    <3> QED BY <1>3, <2>1, <3>4, <3>5
  <2>2. CASE ~ (saved # Unset /\ saved.steps = <<>> /\ Len(c.steps) > 1)
    <3>1. inherited' = inherited
      BY <1>1, <2>2 DEF Schedule!Takeover
    <3> QED BY <1>3, <3>1
  <2> QED BY <2>1, <2>2
<1>5. ASSUME NEW w \in inherited' .. next - 1
      PROVE  Schedule!PolicyFor(c, w) = Schedule!PolicyFor(saved, w)
  <2>1. saved # Unset /\ w \in Nat /\ w < next /\ w \in inherited .. next - 1
    BY <1>3, <1>4
  <2>2. CASE saved = c
    BY <2>2
  <2>3. CASE Schedule!Replaces(c) /\ Schedule!Unopened(Schedule!Newest(c).first)
    <3>1. saved \in Schedule!Release /\ saved.steps # <<>> /\ c.steps # <<>>
      BY <1>3, <2>3 DEF Schedule!Replaces, Schedule!Scheduled, LegacyRelease
    <3>2. Len(saved.steps) \in 1 .. Len(saved.steps) /\ Len(c.steps) \in 1 .. Len(c.steps)
      BY <3>1, EarlierSteps
    <3>3. Schedule!Newest(saved).first \in Nat /\ Schedule!Newest(c).first \in Nat
      BY <3>1, <3>2, Firsts DEF Schedule!Newest
    <3>4. w < Schedule!Newest(saved).first /\ w < Schedule!Newest(c).first
      BY <1>3, <2>1, <2>3, <3>3 DEF Schedule!Replaces, Schedule!Unopened, Schedule!Boundary
    <3> QED BY <2>1, <2>3, <3>1, <3>4, ReplacedAgrees DEF Schedule!Replaces
  <2>4. CASE Schedule!Extends(c) /\ Schedule!Upgrade(c)
    <3>1. c.steps # <<>> /\ Schedule!Earlier(c) = saved.steps /\ saved.policy = Schedule!Newest(c).previous
      BY <2>1, <2>4 DEF Schedule!Extends, Schedule!Scheduled, Schedule!Upgrade
    <3>2. Schedule!Newest(c).first \in Nat
      BY <3>1, EarlierSteps, Firsts DEF Schedule!Newest
    <3>3. w < Schedule!Newest(c).first
      BY <1>3, <2>1, <2>4, <3>2 DEF Schedule!Upgrade, Schedule!Unopened
    <3> QED BY <2>1, <3>1, <3>3, ExtendedAgrees
  <2>5. CASE ~ Schedule!Scheduled(saved) /\ Schedule!Scheduled(c) /\ Schedule!Upgrade(c)
    <3>1. c.steps # <<>> /\ saved.steps = <<>> /\ saved.policy = Schedule!Newest(c).previous
      BY <2>1, <2>5 DEF Schedule!Scheduled, Schedule!Upgrade
    <3>2. Schedule!Newest(c).first \in Nat
      BY <3>1, EarlierSteps, Firsts DEF Schedule!Newest
    <3>3. w < Schedule!Newest(c).first
      BY <1>3, <2>1, <2>5, <3>2 DEF Schedule!Upgrade, Schedule!Unopened
    <3>4. ZeroBurn \in Nat
      BY DEF Schedule!ScheduleAssumption
    <3>5. CASE w < ZeroBurn
      BY <3>5 DEF Schedule!PolicyFor
    <3>6. CASE ~ (w < ZeroBurn)
      <4>1. Len(c.steps) > 1 => w >= c.steps[Len(c.steps) - 1].first
        <5>1. SUFFICES ASSUME Len(c.steps) > 1 PROVE w >= c.steps[Len(c.steps) - 1].first
          OBVIOUS
        <5>2. inherited' = c.steps[Len(c.steps) - 1].first
          BY <1>1, <2>1, <3>1, <5>1 DEF Schedule!Takeover
        <5>3. w >= inherited'
          BY <1>3, <1>4
        <5> QED BY <5>2, <5>3
      <4>2. Schedule!PolicyFor(c, w) = Schedule!Newest(c).previous
        BY <2>1, <3>1, <3>3, <3>4, <3>6, <4>1, BetweenLast
      <4>3. Schedule!Ahead(saved, w) = {}
        BY <3>1, EmptySeq DEF Schedule!Ahead
      <4>4. Schedule!PolicyFor(saved, w) = saved.policy
        BY <3>6, <4>3 DEF Schedule!PolicyFor
      <4> QED BY <3>1, <4>2, <4>4
    <3> QED BY <3>5, <3>6
  <2> QED BY <1>1, <2>1, <2>2, <2>3, <2>4, <2>5
<1>6. Schedule!ReplayAgrees'
  <2>1. \A w \in inherited' .. next - 1 : w \in inherited .. next - 1
    BY <1>3, <1>4
  <2>2. \A w \in inherited' .. next - 1 : opened[w] = Schedule!PolicyFor(c, w)
    BY <1>5, <2>1 DEF ScheduleInv, Schedule!ReplayAgrees
  <2>3. inherited' .. next' - 1 = inherited' .. next - 1
    BY <1>1
  <2>4. ASSUME NEW w \in inherited' .. next - 1
        PROVE  (opened[w] = Schedule!PolicyFor(saved, w))'
    <3>1. opened'[w] = Schedule!PolicyFor(c, w) /\ saved' = c
      BY <1>1, <2>2
    <3> QED BY <3>1 DEF Schedule!PolicyFor, Schedule!Ahead
  <2> QED BY <2>3, <2>4 DEF Schedule!ReplayAgrees
<1>7. c.steps = <<>> => inherited' = 0
  <2> SUFFICES ASSUME c.steps = <<>> PROVE inherited' = 0
    OBVIOUS
  <2>1. Len(c.steps) = 0
    BY EmptySeq
  <2>2. saved = Unset \/ saved.steps = <<>>
    BY <1>1 DEF Schedule!Replaces, Schedule!Extends, Schedule!Scheduled
  <2>3. inherited' = inherited
    BY <1>1, <2>1 DEF Schedule!Takeover
  <2> QED BY <1>3, <2>2, <2>3
<1> QED BY <1>1, <1>2, <1>3, <1>4, <1>6, <1>7 DEF ScheduleInv

(* Only windows from ZERO_BURN_WINDOW on change hands in the migration. *)
LEMMA MigrateStep ==
  ASSUME Schedule!ScheduleAssumption, ScheduleInv, Schedule!Migrate
  PROVE  ScheduleInv'
<1>1. PICK c \in Schedule!Release :
        /\ c.steps = saved.steps /\ saved' = c
        /\ opened' = [w \in DOMAIN opened |-> IF w < ZeroBurn THEN opened[w] ELSE Schedule!PolicyFor(c, w)]
  BY DEF Schedule!Migrate
<1>2. UNCHANGED <<next, inherited>> /\ next \in Nat /\ inherited \in Nat /\ c # Unset /\ saved # Unset
  BY DEF Schedule!Migrate, ScheduleInv, Schedule!ScheduleAssumption
<1>3. DOMAIN opened = 0 .. next - 1
  BY DEF ScheduleInv
<1>4. ASSUME NEW w \in inherited .. next - 1
      PROVE  opened'[w] = Schedule!PolicyFor(c, w)
  <2>0. w \in DOMAIN opened
    BY <1>2, <1>3
  <2>1. opened[w] = Schedule!PolicyFor(saved, w)
    BY DEF ScheduleInv, Schedule!ReplayAgrees
  <2>2. CASE w < ZeroBurn
    BY <1>1, <2>0, <2>1, <2>2 DEF Schedule!PolicyFor
  <2>3. CASE ~ (w < ZeroBurn)
    BY <1>1, <2>0, <2>3
  <2> QED BY <2>2, <2>3
<1>5. opened' = [w \in 0 .. next - 1 |-> opened'[w]]
  BY <1>1, <1>3
<1>6. Schedule!ReplayAgrees'
  <2>1. inherited' .. next' - 1 = inherited .. next - 1
    BY <1>2
  <2>2. ASSUME NEW w \in inherited .. next - 1
        PROVE  (opened[w] = Schedule!PolicyFor(saved, w))'
    <3>1. opened'[w] = Schedule!PolicyFor(c, w) /\ saved' = c
      BY <1>1, <1>4
    <3> QED BY <3>1 DEF Schedule!PolicyFor, Schedule!Ahead
  <2> QED BY <2>1, <2>2 DEF Schedule!ReplayAgrees
<1>7. c.steps = <<>> => inherited = 0
  BY <1>1, <1>2 DEF ScheduleInv
<1> QED BY <1>1, <1>2, <1>5, <1>6, <1>7 DEF ScheduleInv

(* A window is opened under the policy of the stored schedule. *)
LEMMA OpenStep ==
  ASSUME Schedule!ScheduleAssumption, ScheduleInv, Schedule!Open
  PROVE  ScheduleInv'
<1>1. /\ saved # Unset /\ UNCHANGED <<saved, inherited>> /\ next' = next + 1 /\ next \in Nat /\ inherited \in Nat
      /\ opened' = [w \in 0 .. next |-> IF w = next THEN Schedule!PolicyFor(saved, w) ELSE opened[w]]
  BY DEF Schedule!Open, ScheduleInv
<1>2. opened' = [w \in 0 .. next' - 1 |-> opened'[w]]
  BY <1>1
<1>3. ASSUME NEW w \in inherited .. next
      PROVE  opened'[w] = Schedule!PolicyFor(saved, w)
  <2>1. w \in 0 .. next /\ (w # next => w \in inherited .. next - 1)
    BY <1>1
  <2> QED BY <1>1, <2>1 DEF ScheduleInv, Schedule!ReplayAgrees
<1>4. Schedule!ReplayAgrees'
  <2>1. inherited' .. next' - 1 = inherited .. next
    BY <1>1
  <2>2. ASSUME NEW w \in inherited .. next
        PROVE  (opened[w] = Schedule!PolicyFor(saved, w))'
    <3>1. opened'[w] = Schedule!PolicyFor(saved, w) /\ saved' = saved
      BY <1>1, <1>3
    <3> QED BY <3>1 DEF Schedule!PolicyFor, Schedule!Ahead
  <2> QED BY <2>1, <2>2 DEF Schedule!ReplayAgrees
<1> QED BY <1>1, <1>2, <1>4 DEF ScheduleInv

LEMMA ScheduleSteps ==
  ASSUME Schedule!ScheduleAssumption, ScheduleInv, [Schedule!Next]_Schedule!vars
  PROVE  ScheduleInv'
<1>1. CASE Schedule!Report
  BY <1>1 DEF Schedule!Report, ScheduleInv, Schedule!ReplayAgrees, Schedule!PolicyFor, Schedule!Ahead
<1>2. CASE UNCHANGED Schedule!vars
  BY <1>2 DEF Schedule!vars, ScheduleInv, Schedule!ReplayAgrees, Schedule!PolicyFor, Schedule!Ahead
<1> QED BY <1>1, <1>2, StartStep, MigrateStep, OpenStep DEF Schedule!Next

(* For all policies, schedules of any length and histories of any length:  *)
(* the stored schedule explains every window that was opened, but for those *)
(* that lie before a boundary a ledger without a schedule has taken over.  *)
THEOREM ScheduleExplains ==
  ASSUME Schedule!ScheduleAssumption
  PROVE  Schedule!Spec => []ReplayAgrees
<1>1. Schedule!Init => ScheduleInv
  BY DEF Schedule!Init, ScheduleInv, LegacyRelease, Schedule!ReplayAgrees
<1>2. ScheduleInv /\ [Schedule!Next]_Schedule!vars => ScheduleInv'
  BY ScheduleSteps
<1>3. ScheduleInv => ReplayAgrees
  BY DEF ScheduleInv, ReplayAgrees, PolicyFor, Ahead, First,
         Schedule!ReplayAgrees, Schedule!PolicyFor, Schedule!Ahead, Schedule!First
<1> QED BY <1>1, <1>2, <1>3, PTL DEF Schedule!Spec

-----------------------------------------------------------------------------
(* Storage: write_private implements an atomic and durable record, for any *)
(* number of threads and any values.                                       *)

(* What each thread holds is a file of its own, synced before it is named. *)
Slot == [ at : {"idle", "open", "written", "synced", "replaced"},
          value : Value \cup {NoValue}, synced : BOOLEAN ]

ThreadsOK ==
  /\ writers \in [Thread -> Slot]
  /\ \A w \in Thread :
       /\ writers[w].at # "idle" => writers[w].value \in Value
       /\ writers[w].at \in {"synced", "replaced"} => writers[w].synced = TRUE

(* Only synced files ever get the name, so none of them can be torn. *)
FilesOK ==
  /\ visible \in stable
  /\ stable \subseteq [value : Value \cup {NoValue}, synced : {TRUE}]

RecordInv == ThreadsOK /\ FilesOK

(* The state of the promise. *)
record == visible.value
safe == { file.value : file \in stable }
owed == { w \in Thread : writers[w].at = "replaced" }
rooted == folder = "stable"

LEMMA Initially == Private!Init => RecordInv /\ Promise!Init
<1> SUFFICES ASSUME Private!Init
             PROVE  RecordInv /\ Promise!Init
  OBVIOUS
<1>1. ThreadsOK
  BY DEF Private!Init, ThreadsOK, Slot, Private!Idle
<1>2. FilesOK
  BY DEF Private!Init, FilesOK, Private!NoFile
<1>3. record = NoValue /\ safe = {NoValue} /\ owed = {} /\ rooted \in BOOLEAN
  BY DEF Private!Init, Private!NoFile, Private!Idle, record, safe, owed, rooted
<1> QED BY <1>1, <1>2, <1>3 DEF RecordInv, Promise!Init, record, safe, owed, rooted

-----------------------------------------------------------------------------
(* Steps of one thread that leave the name alone. *)
LEMMA OneMoves ==
  ASSUME ThreadsOK, NEW w \in Thread, NEW x \in Slot, writers' = [writers EXCEPT ![w] = x],
         x.at # "idle" => x.value \in Value,
         x.at \in {"synced", "replaced"} => x.synced = TRUE
  PROVE  ThreadsOK'
BY DEF ThreadsOK

LEMMA PreparingSteps ==
  ASSUME RecordInv, NEW w \in Thread, Private!Open(w) \/ Private!Write(w) \/ Private!Fsync(w)
  PROVE  RecordInv' /\ UNCHANGED <<record, safe, owed, rooted>>
<1>1. UNCHANGED <<visible, stable>>
  BY DEF Private!Open, Private!Write, Private!Fsync
<1>2. FilesOK'
  BY <1>1 DEF RecordInv, FilesOK
<1>3. ThreadsOK'
  <2>1. writers[w] \in Slot /\ ThreadsOK /\ (writers[w].at # "idle" => writers[w].value \in Value)
    BY DEF RecordInv, ThreadsOK
  <2>2. CASE Private!Open(w)
    <3>1. PICK v \in Value : writers' = [writers EXCEPT ![w] = [at |-> "open", value |-> v, synced |-> FALSE]]
      BY <2>2 DEF Private!Open
    <3> DEFINE x == [at |-> "open", value |-> v, synced |-> FALSE]
    <3>2. x \in Slot /\ x.at = "open" /\ x.value \in Value
      BY DEF Slot
    <3>3. writers' = [writers EXCEPT ![w] = x]
      BY <3>1
    <3> HIDE DEF x
    <3> QED BY <2>1, <3>2, <3>3, OneMoves
  <2>3. CASE Private!Write(w)
    <3> DEFINE x == [at |-> "written", value |-> writers[w].value, synced |-> FALSE]
    <3>1. x \in Slot /\ x.at = "written" /\ x.value \in Value
      BY <2>1, <2>3 DEF Slot, Private!Write
    <3>2. writers' = [writers EXCEPT ![w] = x]
      BY <2>1, <2>3 DEF Slot, Private!Write, Private!Goes
    <3> HIDE DEF x
    <3> QED BY <2>1, <3>1, <3>2, OneMoves
  <2>4. CASE Private!Fsync(w)
    <3> DEFINE x == [at |-> "synced", value |-> writers[w].value, synced |-> TRUE]
    <3>1. x \in Slot /\ x.at = "synced" /\ x.value \in Value /\ x.synced = TRUE
      BY <2>1, <2>4 DEF Slot, Private!Fsync
    <3>2. writers' = [writers EXCEPT ![w] = x]
      BY <2>1, <2>4 DEF Slot, Private!Fsync, Private!Synced, Private!Goes
    <3> HIDE DEF x
    <3> QED BY <2>1, <3>1, <3>2, OneMoves
  <2> QED BY <2>2, <2>3, <2>4
<1>4. writers[w].at # "replaced" /\ writers'[w].at # "replaced"
  BY DEF RecordInv, ThreadsOK, Slot, Private!Open, Private!Write, Private!Fsync, Private!Goes, Private!Synced
<1>5. \A v \in Thread \ {w} : writers'[v] = writers[v]
  BY DEF RecordInv, ThreadsOK, Slot, Private!Open, Private!Write, Private!Fsync, Private!Goes, Private!Synced
<1>6. UNCHANGED owed
  BY <1>4, <1>5 DEF owed
<1>7. UNCHANGED rooted
  BY DEF Private!Open, Private!Write, Private!Fsync, rooted
<1> QED BY <1>1, <1>2, <1>3, <1>6, <1>7 DEF RecordInv, record, safe

LEMMA ReplaceStep ==
  ASSUME RecordInv, NEW w \in Thread, Private!Replace(w)
  PROVE  /\ RecordInv'
         /\ \E v \in Value : /\ record' = v /\ safe' = safe \cup {v} /\ owed' = owed \cup {w}
                            /\ UNCHANGED rooted
<1>1. writers[w].at = "synced" /\ writers[w].value \in Value /\ writers[w].synced = TRUE
  BY DEF RecordInv, ThreadsOK, Private!Replace
<1>2. Private!File(w) = [value |-> writers[w].value, synced |-> TRUE]
  BY <1>1 DEF Private!File
<1>3. FilesOK'
  <2>1. Private!File(w) \in [value : Value \cup {NoValue}, synced : {TRUE}]
    BY <1>1, <1>2
  <2>2. visible' = Private!File(w) /\ stable' = stable \cup {Private!File(w)}
    BY DEF Private!Replace
  <2> QED BY <2>1, <2>2 DEF RecordInv, FilesOK
<1>4. ThreadsOK'
  <2> DEFINE x == [at |-> "replaced", value |-> writers[w].value, synced |-> TRUE]
  <2>1. x \in Slot /\ x.at = "replaced" /\ x.value \in Value /\ x.synced = TRUE
    BY <1>1 DEF Slot
  <2>2. writers' = [writers EXCEPT ![w] = x]
    BY <1>1 DEF RecordInv, ThreadsOK, Slot, Private!Replace, Private!Goes
  <2> HIDE DEF x
  <2> QED BY <2>1, <2>2, OneMoves DEF RecordInv
<1>5. record' = writers[w].value /\ safe' = safe \cup {writers[w].value}
  BY <1>2 DEF Private!Replace, record, safe
<1>6. writers'[w].at = "replaced" /\ \A v \in Thread \ {w} : writers'[v] = writers[v]
  BY DEF RecordInv, ThreadsOK, Slot, Private!Replace, Private!Goes
<1>7. owed' = owed \cup {w}
  BY <1>6 DEF owed
<1>8. UNCHANGED rooted
  BY DEF Private!Replace, rooted
<1> QED BY <1>1, <1>3, <1>4, <1>5, <1>7, <1>8 DEF RecordInv

(* A thread that is done, or raises, gives up its file. *)
LEMMA LeavingSteps ==
  ASSUME RecordInv, NEW w \in Thread, writers' = [writers EXCEPT ![w] = Private!Idle]
  PROVE  ThreadsOK' /\ owed' = owed \ {w}
<1>1. ThreadsOK'
  <2>1. Private!Idle \in Slot /\ Private!Idle.at = "idle"
    BY DEF Private!Idle, Slot
  <2> QED BY <2>1, OneMoves DEF RecordInv
<1>2. writers'[w].at = "idle" /\ \A v \in Thread \ {w} : writers'[v] = writers[v]
  BY DEF RecordInv, ThreadsOK, Private!Idle
<1> QED BY <1>1, <1>2 DEF owed

LEMMA AllLeave ==
  ASSUME writers' = [w \in Thread |-> Private!Idle]
  PROVE  ThreadsOK' /\ owed' = {}
BY DEF ThreadsOK, Slot, Private!Idle, owed

(* Nothing is torn by a power loss: every file that may be there is whole. *)
LEMMA PowerLossStep ==
  ASSUME RecordInv, Private!PowerLoss
  PROVE  RecordInv' /\ Promise!PowerLoss
<1> DEFINE File == [value : Value \cup {NoValue}, synced : {TRUE}]
<1>1. ThreadsOK' /\ owed' = {}
  BY AllLeave DEF Private!PowerLoss
<1>2. CASE folder # "none" /\ folder' = "stable"
           /\ \E file \in stable : visible' = Private!Survives(file) /\ stable' = {Private!Survives(file)}
  <2>1. PICK file \in stable : visible' = Private!Survives(file) /\ stable' = {Private!Survives(file)}
    BY <1>2
  <2>2. Private!Survives(file) = file /\ file \in File
    BY DEF RecordInv, FilesOK, Private!Survives
  <2>3. FilesOK'
    BY <2>1, <2>2 DEF FilesOK
  <2>4. record' \in safe /\ safe' = {record'} /\ rooted'
    BY <1>2, <2>1, <2>2 DEF record, safe, rooted
  <2> QED BY <1>1, <2>3, <2>4 DEF RecordInv, Promise!PowerLoss, record, safe, owed, rooted
<1>3. CASE folder # "stable" /\ folder' = "none" /\ visible' = Private!NoFile /\ stable' = {Private!NoFile}
  <2>1. Private!NoFile \in File /\ Private!NoFile.value = NoValue
    BY DEF Private!NoFile
  <2>2. FilesOK'
    BY <1>3, <2>1 DEF FilesOK
  <2>3. ~ rooted /\ ~ rooted' /\ record' = NoValue /\ safe' = {record'}
    BY <1>3, <2>1 DEF record, safe, rooted
  <2> QED BY <1>1, <2>2, <2>3 DEF RecordInv, Promise!PowerLoss, record, safe, owed, rooted
<1> QED BY <1>2, <1>3 DEF Private!PowerLoss

LEMMA RecordSteps ==
  ASSUME RecordInv, [Private!Next]_Private!vars
  PROVE  RecordInv' /\ [Promise!Next]_<<record, safe, owed, rooted>>
<1> USE DEF Promise!Next, Promise!Put, Promise!Settle, Promise!Raise, Promise!Crash, Promise!Root
<1>1. ASSUME NEW w \in Thread, Private!Open(w) \/ Private!Write(w) \/ Private!Fsync(w)
      PROVE  RecordInv' /\ [Promise!Next]_<<record, safe, owed, rooted>>
  BY <1>1, PreparingSteps
<1>2. ASSUME NEW w \in Thread, Private!Replace(w)
      PROVE  RecordInv' /\ [Promise!Next]_<<record, safe, owed, rooted>>
  BY <1>2, ReplaceStep DEF record, safe, owed, rooted
<1>3. ASSUME NEW w \in Thread, Private!FsyncDirectory(w)
      PROVE  RecordInv' /\ [Promise!Next]_<<record, safe, owed, rooted>>
  <2>1. w \in owed /\ ThreadsOK' /\ owed' = owed \ {w}
    BY <1>3, LeavingSteps DEF Private!FsyncDirectory, owed
  <2>2. safe' = {record} /\ UNCHANGED <<record, rooted>> /\ FilesOK'
    BY <1>3 DEF Private!FsyncDirectory, RecordInv, FilesOK, safe, record, rooted
  <2> QED BY <2>1, <2>2 DEF RecordInv, record, safe, owed, rooted
<1>4. ASSUME NEW w \in Thread, Private!Fail(w)
      PROVE  RecordInv' /\ [Promise!Next]_<<record, safe, owed, rooted>>
  <2>1. ThreadsOK' /\ owed' = owed \ {w}
    BY <1>4, LeavingSteps DEF Private!Fail
  <2>2. UNCHANGED <<record, safe, rooted>> /\ FilesOK'
    BY <1>4 DEF Private!Fail, RecordInv, FilesOK, safe, record, rooted
  <2> QED BY <2>1, <2>2 DEF RecordInv, record, safe, owed, rooted
<1>5. CASE Private!Crash
  <2>1. ThreadsOK' /\ owed' = {}
    BY <1>5, AllLeave DEF Private!Crash
  <2>2. UNCHANGED <<record, safe, rooted>> /\ FilesOK'
    BY <1>5 DEF Private!Crash, RecordInv, FilesOK, safe, record, rooted
  <2> QED BY <2>1, <2>2 DEF RecordInv, record, safe, owed, rooted
<1>6. CASE Private!PowerLoss
  BY <1>6, PowerLossStep DEF record, safe, owed, rooted
<1>7. CASE Private!Writeback
  <2>1. RecordInv' /\ UNCHANGED <<record, safe, owed>>
    BY <1>7 DEF Private!Writeback, RecordInv, ThreadsOK, FilesOK, record, safe, owed
  <2>2. folder' = "stable"
    BY <1>7 DEF Private!Writeback
  <2>3. Promise!Root
    BY <2>1, <2>2 DEF record, safe, owed
  <2> QED BY <2>1, <2>3
<1>8. CASE UNCHANGED Private!vars
  <2>1. UNCHANGED <<visible, stable, folder, writers>>
    BY <1>8 DEF Private!vars
  <2>2. RecordInv'
    BY <2>1 DEF RecordInv, ThreadsOK, FilesOK
  <2>3. UNCHANGED <<record, safe, owed, rooted>>
    BY <2>1 DEF record, safe, owed, rooted
  <2> QED BY <2>2, <2>3
<1> QED BY <1>1, <1>2, <1>3, <1>4, <1>5, <1>6, <1>7, <1>8 DEF Private!Next

(* write_private keeps whole values only, and none older after a write     *)
(* that returned, through errors, crashes and power losses, but for the    *)
(* loss of a new directory that no sync has reached.                       *)
THEOREM WritesAreAtomic == Private!Spec => RecordKept
<1>1. RecordInv /\ [Private!Next]_Private!vars => RecordInv'
  BY RecordSteps
<1>2. RecordInv /\ [Private!Next]_Private!vars => [Promise!Next]_<<record, safe, owed, rooted>>
  BY RecordSteps
<1> QED BY <1>1, <1>2, Initially, PTL DEF Private!Spec, RecordKept, Promise!Spec, record, safe, owed, rooted

-----------------------------------------------------------------------------
(* StreamGate: the look is taken at the gate, and no clip is asked twice,  *)
(* for any number of clips, any gate and any number of failed attempts.    *)

(* In what follows an attempt is live while its job may still deliver: no  *)
(* error has been seen, and the command runs or its rows are being read.   *)
Live == worker.at \in {"run", "rest"} /\ worker.error = "none"

Errors == {"none", "refused", "cancelled", "not_written", "gpu"}

Workers ==
  [ at : {"idle", "cached", "run", "rest", "drain", "fail"}, first : Nat, gated : BOOLEAN,
    look : {"none", "go", "stop"}, error : Errors ]

Jobs ==
  [ at : {"off", "run", "exited"}, tasks : Seq(Stream!Clip), pause : Nat, rows : Nat, ran : Nat,
    code : {0, 2, 3, 75}, cancel : BOOLEAN, continue : {"none", "go", "stop"} ]

Watchers == [ at : {"off", "poll", "look", "answer"}, seen : Nat ]

GateTypes ==
  /\ kept \subseteq Stream!Clip /\ progress \in 0 .. Clips /\ score \in {"none", "early", "full"}
  /\ worker \in Workers /\ graded \in Nat /\ judge \in [Stream!Clip -> {"none", "judging", "graded", "failed"}]
  /\ job \in Jobs /\ watcher \in Watchers /\ clock \in {"open", "closed", "late"}

(* Who may be where. *)
Phases ==
  /\ worker.at \in {"idle", "cached"} => job = Stream!NoJob /\ watcher = Stream!NoWatch /\ worker.error = "none" /\ worker.look = "none"
  /\ worker.at = "idle" => worker = Stream!Resting /\ judge = Stream!Unjudged /\ graded = 0
  /\ worker.at \in {"run", "rest"} => job.at # "off"
  /\ worker.at = "rest" => worker.error = "none" /\ job.at = "exited"
  /\ job.at = "run" => worker.at = "run"
  /\ job.at = "off" => job = Stream!NoJob
  /\ watcher.at \in {"look", "answer"} => Live /\ job.pause > 0 /\ watcher.seen = job.pause
  /\ watcher.at = "poll" => Live \/ (job.at = "exited" /\ watcher.seen = job.rows)

(* Grades in memory are those of a prefix of the draw, and of kept answers. *)
GradesKept ==
  worker.at # "idle" =>
    /\ worker.first <= progress /\ progress <= graded /\ graded <= Clips
    /\ \A c \in worker.first + 1 .. graded : judge[c] = "graded"
    /\ \A c \in Stream!Clip : judge[c] # "none" => c \in kept

(* A look was taken, and a score written, only with the grades of the gate. *)
LookedAtGate ==
  /\ worker.look # "none" \/ score # "none" => progress >= Gate
  /\ worker.at # "idle" /\ ~ worker.gated => progress >= Gate
  /\ worker.gated => worker.first < Gate

(* Answers past the gate are kept only when those before it are settled. *)
PastIsLast ==
  (\E c \in kept : c > Gate) => \A c \in 1 .. Gate : c \in kept \/ c <= progress

(* The rows of a job: in the order of the draw, and asked once. *)
RowsInOrder ==
  /\ \A i, k \in 1 .. Len(job.tasks) : i < k => job.tasks[i] < job.tasks[k]
  /\ job.rows <= Len(job.tasks) /\ job.ran <= job.rows /\ watcher.seen <= job.rows
  /\ job.at = "run" => job.ran = job.rows
  /\ \A i \in 1 .. Len(job.tasks) : job.tasks[i] \in kept => i <= job.rows
  /\ \A i \in 1 .. watcher.seen : job.tasks[i] \in kept
  /\ Live => \A i \in 1 .. Len(job.tasks) : job.tasks[i] \in kept => i <= watcher.seen
  /\ Live => \A c \in Stream!Wanted : c \in kept => judge[c] # "none"
  /\ job.at # "off" => \A c \in Stream!Wanted : c \in kept \/ \E i \in 1 .. Len(job.tasks) : job.tasks[i] = c

(* The pause of a job comes before its first row past the gate. *)
PauseIsGate ==
  /\ job.pause > 0 =>
       /\ worker.gated /\ job.pause <= Len(job.tasks)
       /\ \A i \in 1 .. Len(job.tasks) : job.tasks[i] <= Gate <=> i <= job.pause
       /\ \A c \in Gate + 1 .. Clips : \E i \in 1 .. Len(job.tasks) : job.tasks[i] = c
       /\ job.continue # "go" => job.ran <= job.pause
  /\ job.at # "off" /\ job.pause = 0 => ~ worker.gated \/ worker.first + 1 .. Gate \subseteq kept
  /\ job.pause = 0 => ~ worker.gated \/ \A i \in 1 .. Len(job.tasks) : job.tasks[i] > Gate
  /\ job.continue # "none" => watcher.seen >= job.pause /\ watcher.at \notin {"look", "answer"}

GateInv == GateTypes /\ Phases /\ GradesKept /\ LookedAtGate /\ PastIsLast /\ RowsInOrder /\ PauseIsGate

-----------------------------------------------------------------------------
(* The instance counts as everything else does. *)
LEMMA Counts == \A S : Stream!Cardinality(S) = Cardinality(S)
BY DEF Stream!Cardinality, Cardinality

LEMMA Greatest ==
  ASSUME NEW a \in Int, NEW b \in Int, NEW T \in SUBSET (a .. b), T # {}
  PROVE  Stream!Max(T) \in T /\ \A y \in T : y <= Stream!Max(T)
<1> DEFINE D == { b - y : y \in T }
<1>1. D \subseteq Nat /\ D # {}
  <2>1. \A y \in T : y \in Int /\ y <= b
    OBVIOUS
  <2>2. \A y \in T : b - y \in Nat
    BY <2>1
  <2> QED BY <2>2
<1>2. PICK d \in D : \A e \in D : d <= e
  BY <1>1, Least
<1>3. PICK x \in T : d = b - x
  BY <1>2
<1>4. \A y \in T : x >= y
  <2> TAKE y \in T
  <2>1. b - x <= b - y
    BY <1>2, <1>3
  <2> QED BY <2>1
<1> HIDE DEF D
<1>5. \E z \in T : \A y \in T : z >= y
  BY <1>3, <1>4
<1>6. Stream!Max(T) \in T /\ \A y \in T : Stream!Max(T) >= y
  BY <1>5 DEF Stream!Max
<1> QED BY <1>6

(* What drain takes: a prefix of grades, and no less. *)
LEMMA DrainedAt ==
  ASSUME graded \in 0 .. Clips, Clips \in Nat, NEW pool
  PROVE  /\ Stream!Drained(pool) \in graded .. Clips
         /\ \A c \in graded + 1 .. Stream!Drained(pool) : pool[c] = "graded"
         /\ Stream!Drained(pool) < Clips => pool[Stream!Drained(pool) + 1] # "graded"
<1> DEFINE T == { k \in graded .. Clips : \A c \in graded + 1 .. k : pool[c] = "graded" }
<1>1. T \in SUBSET (graded .. Clips) /\ graded \in T
  OBVIOUS
<1>2. Stream!Max(T) \in T /\ \A y \in T : y <= Stream!Max(T)
  <2>1. graded \in Int /\ Clips \in Int /\ T # {}
    BY <1>1
  <2> HIDE DEF T
  <2> QED BY <1>1, <2>1, Greatest
<1>3. ASSUME Stream!Max(T) < Clips, pool[Stream!Max(T) + 1] = "graded"
      PROVE  FALSE
  <2> DEFINE k == Stream!Max(T)
  <2>1. k \in graded .. Clips /\ \A c \in graded + 1 .. k : pool[c] = "graded"
    BY <1>2
  <2>9. k < Clips
    BY <1>3
  <2> HIDE DEF k
  <2>2. k + 1 \in T
    <3>1. \A c \in graded + 1 .. k + 1 : c \in graded + 1 .. k \/ c = k + 1
      BY <2>1
    <3>2. k + 1 \in graded .. Clips
      BY <2>1, <2>9
    <3>3. \A c \in graded + 1 .. k + 1 : pool[c] = "graded"
      BY <1>3, <2>1, <3>1 DEF k
    <3> QED BY <3>2, <3>3
  <2>3. k + 1 <= k
    BY <1>2, <2>2 DEF k
  <2> QED BY <2>1, <2>3
<1>4. Stream!Drained(pool) = Stream!Max(T)
  BY DEF Stream!Drained
<1> HIDE DEF T
<1>5. Stream!Drained(pool) \in T
  BY <1>2, <1>4
<1>6. Stream!Drained(pool) \in graded .. Clips /\ \A c \in graded + 1 .. Stream!Drained(pool) : pool[c] = "graded"
  BY <1>5 DEF T
<1> QED BY <1>3, <1>4, <1>6

(* Grades are saved at complete videos, and never fewer than before. *)
LEMMA SavedAt ==
  ASSUME NEW p \in Nat, NEW k \in Nat, NEW v \in Nat \ {0}, p <= k
  PROVE  LET upto == Stream!Max({p, k - (k % v)})
         IN  /\ upto \in p .. k
             /\ k % v = 0 => upto = k
<1> DEFINE q == k - (k % v)
<1>1. q \in Int /\ q <= k /\ (k % v = 0 => q = k)
  OBVIOUS
<1> HIDE DEF q
<1>2. \E x \in {p, q} : \A y \in {p, q} : x >= y
  BY <1>1
<1>3. Stream!Max({p, q}) \in {p, q} /\ Stream!Max({p, q}) >= p /\ Stream!Max({p, q}) >= q
  BY <1>2 DEF Stream!Max
<1> DEFINE m == Stream!Max({p, q})
<1>4. m \in {p, q} /\ m >= p /\ m >= q
  BY <1>3
<1> HIDE DEF m
<1>5. m \in p .. k /\ (k % v = 0 => m = k)
  BY <1>1, <1>4
<1> QED BY <1>5 DEF m, q

LEMMA Places ==
  ASSUME NEW n \in Nat, NEW chosen \in SUBSET (1 .. n)
  PROVE  LET place == [ i \in chosen |-> Cardinality({ j \in chosen : j <= i }) ]
         IN  /\ Cardinality(chosen) \in Nat
             /\ \A i \in chosen : place[i] \in 1 .. Cardinality(chosen)
             /\ \A i \in chosen : \A k \in chosen : i < k => place[i] < place[k]
             /\ \A m \in 1 .. Cardinality(chosen) : \E i \in chosen : place[i] = m
  <1> DEFINE Upto(i) == { j \in chosen : j <= i }
             place   == [ i \in chosen |-> Cardinality(Upto(i)) ]
             size    == Cardinality(chosen)
  <1>1. IsFiniteSet(chosen) /\ size \in Nat
    <2>1. IsFiniteSet(1 .. n)
      BY FS_Interval
    <2>2. IsFiniteSet(chosen)
      BY <2>1, FS_Subset
    <2> QED
      BY <2>2, FS_CardinalityType
  <1>2. \A i \in chosen : Upto(i) \subseteq chosen /\ IsFiniteSet(Upto(i)) /\ Cardinality(Upto(i)) \in Nat
    BY <1>1, FS_Subset, FS_CardinalityType
  <1>3. \A i \in chosen : place[i] \in 1 .. size
    <2> SUFFICES ASSUME NEW i \in chosen
                 PROVE  Cardinality(Upto(i)) \in 1 .. size
      OBVIOUS
    <2>1. Upto(i) # {}
      OBVIOUS
    <2>2. Cardinality(Upto(i)) # 0
      BY <1>2, <2>1, FS_EmptySet
    <2>3. Cardinality(Upto(i)) <= size
      BY <1>1, <1>2, FS_Subset
    <2> QED
      BY <1>1, <1>2, <2>2, <2>3
  <1>4. \A i \in chosen : \A k \in chosen : i < k => place[i] < place[k]
    <2> SUFFICES ASSUME NEW i \in chosen, NEW k \in chosen, i < k
                 PROVE  Cardinality(Upto(i)) < Cardinality(Upto(k))
      OBVIOUS
    <2>1. Upto(i) \in SUBSET Upto(k) /\ k \in Upto(k) /\ k \notin Upto(i)
      <3>1. chosen \subseteq Int
        OBVIOUS
      <3>2. \A j \in chosen : j <= i => j <= k
        BY <3>1
      <3>3. k <= k /\ ~ (k <= i)
        BY <3>1
      <3> QED
        BY <3>2, <3>3
    <2>2. Cardinality(Upto(i)) <= Cardinality(Upto(k)) /\ Cardinality(Upto(i)) # Cardinality(Upto(k))
      BY <1>2, <2>1, FS_Subset
    <2> QED
      BY <1>2, <2>2
  <1>5. \A m \in 1 .. size : \E i \in chosen : place[i] = m
    <2>1. place \in Injection(chosen, 1 .. size)
      <3>1. place \in [chosen -> 1 .. size]
        BY <1>3
      <3>2. \A i \in chosen : \A k \in chosen : place[i] = place[k] => i = k
        <4> HIDE DEF place
        <4> QED
          BY <1>3, <1>4
      <3> QED
        BY <3>1, <3>2 DEF Injection, IsInjective
    <2>2. IsFiniteSet(1 .. size) /\ Cardinality(1 .. size) = size
      BY <1>1, FS_Interval
    <2> HIDE DEF place
    <2>3. place \in Surjection(chosen, 1 .. size)
      BY <2>1, <2>2, FS_Injection
    <2> QED
      BY <2>3 DEF Surjection
  <1> QED
    BY <1>1, <1>3, <1>4, <1>5

(* The clips of a set, in order: each of them once, at the place of its rank. *)
LEMMA OrderOf ==
  ASSUME Clips \in Nat, NEW S \in SUBSET Stream!Clip
  PROVE  LET s == Stream!InOrder(S)
         IN  /\ Cardinality(S) \in Nat /\ s \in Seq(Stream!Clip) /\ Len(s) = Cardinality(S)
             /\ \A i \in 1 .. Len(s) : s[i] \in S /\ Cardinality({ d \in S : d <= s[i] }) = i
             /\ \A i, k \in 1 .. Len(s) : i < k => s[i] < s[k]
             /\ \A c \in S : \E i \in 1 .. Len(s) : s[i] = c
<1> DEFINE place == [ c \in S |-> Cardinality({ d \in S : d <= c }) ]
           clip(i) == CHOOSE c \in S : place[c] = i
           size == Cardinality(S)
           s == Stream!InOrder(S)
<1>1. /\ size \in Nat
      /\ \A c \in S : place[c] \in 1 .. size
      /\ \A c \in S : \A d \in S : c < d => place[c] < place[d]
      /\ \A m \in 1 .. size : \E c \in S : place[c] = m
  BY Places DEF Stream!Clip
<1>2. s = [ i \in 1 .. size |-> clip(i) ]
  <2> DEFINE there == [ c \in S |-> Stream!Cardinality({ d \in S : d <= c }) ]
  <2>1. \A c \in S : Stream!Cardinality({ d \in S : d <= c }) = Cardinality({ d \in S : d <= c })
    BY Counts
  <2>2. there = place
    BY <2>1
  <2>3. Stream!Cardinality(S) = size
    BY Counts
  <2>4. s = [ i \in 1 .. Stream!Cardinality(S) |-> CHOOSE c \in S : there[c] = i ]
    BY DEF Stream!InOrder
  <2> HIDE DEF there, place, size
  <2> QED BY <2>2, <2>3, <2>4
<1>3. S \subseteq Nat /\ S \subseteq Stream!Clip
  BY DEF Stream!Clip
<1>4. \A c \in S : place[c] = Cardinality({ d \in S : d <= c })
  OBVIOUS
<1> HIDE DEF place, size, s
<1>5. \A i \in 1 .. size : clip(i) \in S /\ place[clip(i)] = i
  BY <1>1
<1> HIDE DEF clip
<1>6. s \in Seq(Stream!Clip) /\ Len(s) = size
  <2>1. s \in [1 .. size -> Stream!Clip]
    BY <1>2, <1>3, <1>5
  <2>2. s \in Seq(Stream!Clip)
    BY <1>1, <2>1
  <2> QED BY <1>1, <2>1, <2>2
<1>7. \A i \in 1 .. size : s[i] \in S /\ place[s[i]] = i
  BY <1>2, <1>5
<1>8. ASSUME NEW i \in 1 .. size, NEW k \in 1 .. size, i < k
      PROVE  s[i] < s[k]
  <2>1. s[i] \in S /\ s[k] \in S /\ place[s[i]] = i /\ place[s[k]] = k
    BY <1>7
  <2>2. s[i] # s[k] /\ ~ (s[k] < s[i])
    BY <1>1, <1>8, <2>1
  <2>3. s[i] \in Nat /\ s[k] \in Nat
    BY <1>3, <2>1
  <2> DEFINE x == s[i]  y == s[k]
  <2>4. x \in Nat /\ y \in Nat /\ x # y /\ ~ (y < x)
    BY <2>2, <2>3
  <2> HIDE DEF x, y
  <2>5. x < y
    BY <2>4
  <2> QED BY <2>5 DEF x, y
<1>9. ASSUME NEW c \in S
      PROVE  \E i \in 1 .. size : s[i] = c
  <2>1. place[c] \in 1 .. size /\ s[place[c]] \in S /\ place[s[place[c]]] = place[c]
    BY <1>1, <1>7
  <2> DEFINE x == s[place[c]]
  <2>3. x \in S /\ place[x] = place[c] /\ x \in Nat /\ c \in Nat
    BY <1>3, <2>1
  <2> HIDE DEF x
  <2>4. ~ (x < c) /\ ~ (c < x)
    BY <1>1, <2>1, <2>3
  <2>5. x = c
    BY <2>3, <2>4
  <2>2. s[place[c]] = c
    BY <2>5 DEF x
  <2> QED BY <2>1, <2>2
<1>10. \A i \in 1 .. size : s[i] \in S /\ Cardinality({ d \in S : d <= s[i] }) = i
  BY <1>4, <1>7
<1>11. size = Cardinality(S) /\ s = Stream!InOrder(S)
  BY DEF size, s
<1>12. \A i \in 1 .. Len(s) : s[i] \in S /\ Cardinality({ d \in S : d <= s[i] }) = i
  BY <1>6, <1>10
<1>13. \A i, k \in 1 .. Len(s) : i < k => s[i] < s[k]
  BY <1>6, <1>8
<1>14. \A c \in S : \E i \in 1 .. Len(s) : s[i] = c
  BY <1>6, <1>9
<1> QED BY <1>1, <1>6, <1>11, <1>12, <1>13, <1>14


-----------------------------------------------------------------------------
(* Taking grades from a pool that keeps those already taken. *)
LEMMA GradedStep ==
  ASSUME Stream!GateAssumption, GateTypes, GradesKept, worker.at # "idle",
         NEW pool \in [Stream!Clip -> {"none", "judging", "graded", "failed"}],
         \A d \in Stream!Clip : judge[d] = "graded" => pool[d] = "graded",
         NEW k \in graded .. Stream!Drained(pool), Stream!Graded(pool, k)
  PROVE  /\ judge' = pool /\ graded' = k /\ graded' \in graded .. Clips
         /\ progress' \in progress .. Clips /\ progress' <= graded'
         /\ graded' % PerVideo = 0 => progress' = graded'
         /\ \A d \in worker.first + 1 .. graded' : pool[d] = "graded"
<1>1. /\ Clips \in Nat /\ PerVideo \in Nat \ {0} /\ progress \in 0 .. Clips /\ worker.first \in Nat
      /\ worker.first <= progress /\ progress <= graded /\ graded \in 0 .. Clips
      /\ \A d \in worker.first + 1 .. graded : judge[d] = "graded"
  BY DEF Stream!GateAssumption, GateTypes, GradesKept, Workers
<1> DEFINE m == Stream!Drained(pool)
<1>2. m \in graded .. Clips /\ \A d \in graded + 1 .. m : pool[d] = "graded"
  BY <1>1, DrainedAt
<1>3. judge' = pool /\ graded' = k /\ progress' = Stream!Max({progress, k - (k % PerVideo)}) /\ k \in graded .. m
  BY DEF Stream!Graded, Stream!Saved
<1> HIDE DEF m
<1>4. progress \in Nat /\ k \in Nat /\ progress <= k /\ k <= Clips
  BY <1>1, <1>2, <1>3
<1>5. progress' \in progress .. k /\ (k % PerVideo = 0 => progress' = k)
  <2>1. PerVideo \in Nat \ {0} /\ progress' = Stream!Max({progress, k - (k % PerVideo)})
    BY <1>1, <1>3
  <2> QED BY <1>4, <2>1, SavedAt
<1>6. \A d \in worker.first + 1 .. k : pool[d] = "graded"
  <2> TAKE d \in worker.first + 1 .. k
  <2>1. d \in Stream!Clip /\ (d \in worker.first + 1 .. graded \/ d \in graded + 1 .. m)
    BY <1>1, <1>2, <1>3, <1>4 DEF Stream!Clip
  <2> QED BY <1>1, <1>2, <2>1
<1>7. progress' \in progress .. Clips /\ progress' <= k
  BY <1>1, <1>2, <1>4, <1>5
<1> QED BY <1>1, <1>3, <1>4, <1>5, <1>6, <1>7

(* Draining it to the end. *)
LEMMA DrainStep ==
  ASSUME Stream!GateAssumption, GateTypes, GradesKept, worker.at # "idle",
         NEW pool \in [Stream!Clip -> {"none", "judging", "graded", "failed"}],
         \A d \in Stream!Clip : judge[d] = "graded" => pool[d] = "graded",
         Stream!Drain(pool)
  PROVE  /\ judge' = pool /\ graded' = Stream!Drained(pool) /\ graded' \in graded .. Clips
         /\ progress' \in progress .. Clips /\ progress' <= graded'
         /\ graded' % PerVideo = 0 => progress' = graded'
         /\ \A d \in worker.first + 1 .. graded' : pool[d] = "graded"
         /\ graded' < Clips => pool[graded' + 1] # "graded"
<1> DEFINE k == Stream!Drained(pool)
<1>1. graded \in Nat /\ graded <= Clips /\ Clips \in Nat
  BY DEF Stream!GateAssumption, GateTypes, GradesKept
<1>2. k \in graded .. Clips /\ (k < Clips => pool[k + 1] # "graded")
  BY <1>1, DrainedAt
<1>3. Stream!Graded(pool, k)
  BY DEF Stream!Drain
<1> HIDE DEF k
<1>4. k \in graded .. k
  BY <1>1, <1>2
<1>5. k \in graded .. Stream!Drained(pool)
  BY <1>4 DEF k
<1>6. /\ judge' = pool /\ graded' = k /\ graded' \in graded .. Clips
      /\ progress' \in progress .. Clips /\ progress' <= graded'
      /\ graded' % PerVideo = 0 => progress' = graded'
      /\ \A d \in worker.first + 1 .. graded' : pool[d] = "graded"
  BY <1>3, <1>5, GradedStep
<1>7. graded' = Stream!Drained(pool)
  BY <1>6 DEF k
<1> QED BY <1>2, <1>6, <1>7

(* What completed does with an answer that is being kept. *)
LEMMA HandedStep ==
  ASSUME Stream!GateAssumption, GateTypes, GradesKept, worker.at # "idle",
         NEW c \in Stream!Clip, judge[c] = "none", Stream!Handed(c), NEW answers,
         kept \subseteq answers, c \in answers
  PROVE  /\ judge' \in [Stream!Clip -> {"none", "judging", "graded", "failed"}]
         /\ graded' \in graded .. Clips /\ progress' \in progress .. Clips /\ progress' <= graded'
         /\ \A d \in worker.first + 1 .. graded' : judge'[d] = "graded"
         /\ \A d \in Stream!Clip : judge'[d] # "none" => d \in answers
         /\ \A d \in Stream!Clip : judge[d] # "none" => judge'[d] # "none"
         /\ ~ Stream!Cancelled => judge'[c] # "none"
<1>0. /\ Clips \in Nat /\ progress \in 0 .. Clips /\ graded \in Nat /\ graded <= Clips /\ progress <= graded
      /\ \A d \in worker.first + 1 .. graded : judge[d] = "graded"
      /\ \A d \in Stream!Clip : judge[d] # "none" => d \in kept
      /\ judge \in [Stream!Clip -> {"none", "judging", "graded", "failed"}]
  BY DEF Stream!GateAssumption, GateTypes, GradesKept
<1>1. CASE Stream!Cancelled
  <2>1. judge' = judge /\ graded' = graded /\ progress' = progress
    BY <1>1 DEF Stream!Handed
  <2> QED BY <1>0, <1>1, <2>1
<1>2. CASE ~ Stream!Cancelled
  <2> DEFINE pool == [judge EXCEPT ![c] = "judging"]
  <2>1. pool \in [Stream!Clip -> {"none", "judging", "graded", "failed"}]
    BY <1>0
  <2>2. \A d \in Stream!Clip : pool[d] = IF d = c THEN "judging" ELSE judge[d]
    BY <1>0
  <2>3. Stream!Drain(pool)
    BY <1>2 DEF Stream!Handed
  <2> HIDE DEF pool
  <2>4. \A d \in Stream!Clip : judge[d] = "graded" => pool[d] = "graded"
    BY <2>2
  <2>5. /\ judge' = pool /\ graded' \in graded .. Clips
        /\ progress' \in progress .. Clips /\ progress' <= graded'
        /\ \A d \in worker.first + 1 .. graded' : pool[d] = "graded"
    BY <2>1, <2>3, <2>4, DrainStep
  <2>6. \A d \in Stream!Clip : pool[d] # "none" => d \in answers
    BY <1>0, <2>2
  <2> QED BY <1>0, <2>1, <2>2, <2>5, <2>6
<1> QED BY <1>1, <1>2

(* Keeping the first rows of a job keeps the order of the gate. *)
LEMMA PastKept ==
  ASSUME Stream!GateAssumption, GateInv, NEW m \in Nat, m <= job.rows,
         kept' = kept \cup { job.tasks[i] : i \in 1 .. m },
         progress' \in Nat, progress' >= progress
  PROVE  PastIsLast'
<1>1. /\ Gate \in Nat \ {0} /\ Clips \in Nat /\ Gate < Clips /\ progress \in Nat /\ worker.first \in Nat
      /\ job.tasks \in Seq(Stream!Clip) /\ job.rows \in Nat /\ job.rows <= Len(job.tasks) /\ job.pause \in Nat
  BY DEF Stream!GateAssumption, GateInv, GateTypes, RowsInOrder, Jobs, Workers
<1> SUFFICES ASSUME NEW c \in kept', c > Gate, NEW d \in 1 .. Gate
             PROVE  d \in kept' \/ d <= progress'
  BY DEF PastIsLast
<1>2. CASE c \in kept
  <2>1. d \in kept \/ d <= progress
    BY <1>2 DEF GateInv, PastIsLast
  <2> QED BY <1>1, <2>1
<1>3. CASE c \notin kept
  <2>1. PICK i \in 1 .. m : c = job.tasks[i]
    BY <1>3
  <2>2. i \in 1 .. Len(job.tasks) /\ job.rows > 0
    BY <1>1
  <2>3. job.at # "off" /\ worker.at # "idle"
    BY <2>2 DEF GateInv, Phases, Stream!NoJob
  <2>4. worker.first <= progress
    BY <2>3 DEF GateInv, GradesKept
  <2>5. CASE d <= worker.first
    BY <1>1, <2>4, <2>5
  <2>6. CASE d > worker.first /\ job.pause = 0
    <3>1. CASE ~ worker.gated
      <4>1. progress >= Gate
        BY <2>3, <3>1 DEF GateInv, LookedAtGate
      <4> QED BY <1>1, <4>1
    <3>2. CASE worker.gated
      <4>1. worker.first + 1 .. Gate \subseteq kept
        BY <2>3, <2>6, <3>2 DEF GateInv, PauseIsGate
      <4>2. d \in worker.first + 1 .. Gate
        BY <1>1, <2>6
      <4> QED BY <4>1, <4>2
    <3> QED BY <3>1, <3>2
  <2>7. CASE d > worker.first /\ job.pause > 0
    <3>1. \A k \in 1 .. Len(job.tasks) : job.tasks[k] <= Gate <=> k <= job.pause
      BY <2>7 DEF GateInv, PauseIsGate
    <3>2. d \in Stream!Wanted
      BY <1>1, <2>7 DEF Stream!Wanted
    <3>3. d \in kept \/ \E k \in 1 .. Len(job.tasks) : job.tasks[k] = d
      BY <2>3, <3>2 DEF GateInv, RowsInOrder
    <3>4. ASSUME NEW k \in 1 .. Len(job.tasks), job.tasks[k] = d
          PROVE  d \in kept'
      <4>1. k <= job.pause
        BY <3>1, <3>4
      <4>2. ~ (i <= job.pause)
        <5>1. job.tasks[i] \in Nat /\ job.tasks[i] > Gate
          <6>1. job.tasks[i] \in Stream!Clip
            BY <1>1, <2>2
          <6>2. Stream!Clip \subseteq Nat
            BY DEF Stream!Clip
          <6> QED BY <2>1, <6>1, <6>2
        <5> QED BY <1>1, <2>2, <3>1, <5>1
      <4>3. k \in 1 .. m
        BY <1>1, <4>1, <4>2
      <4> QED BY <3>4, <4>3
    <3> QED BY <3>3, <3>4
  <2> QED BY <1>1, <2>5, <2>6, <2>7
<1> QED BY <1>2, <1>3


-----------------------------------------------------------------------------
LEMMA InitGate == Stream!GateAssumption /\ Stream!Init => GateInv
<1> SUFFICES ASSUME Stream!GateAssumption, Stream!Init PROVE GateInv
  OBVIOUS
<1> USE DEF Stream!Init, Stream!Resting, Stream!NoJob, Stream!NoWatch, Stream!Unjudged
<1>1. GateTypes
  <2>1. <<>> \in Seq(Stream!Clip)
    OBVIOUS
  <2> QED BY <2>1 DEF GateTypes, Stream!GateAssumption, Workers, Jobs, Watchers, Errors
<1>2. Phases /\ GradesKept /\ LookedAtGate /\ PastIsLast
  BY DEF Phases, Live, GradesKept, LookedAtGate, PastIsLast
<1>3. RowsInOrder /\ PauseIsGate
  BY DEF RowsInOrder, PauseIsGate, Live, Stream!GateAssumption
<1> QED BY <1>1, <1>2, <1>3 DEF GateInv

(* The attempt is over: answers and saved grades are what is left of it. *)
LEMMA OverStep ==
  ASSUME Stream!GateAssumption, GateInv, Stream!Over, kept' \subseteq Stream!Clip, progress' \in 0 .. Clips,
         score' \in {"none", "early", "full"}, score' # "none" => progress' >= Gate, PastIsLast'
  PROVE  GateInv'
<1> USE DEF Stream!Over, Stream!Resting, Stream!NoJob, Stream!NoWatch, Stream!Unjudged
<1>1. GateTypes'
  <2>1. <<>> \in Seq(Stream!Clip)
    OBVIOUS
  <2> QED BY <2>1 DEF GateTypes, GateInv, Stream!GateAssumption, Workers, Jobs, Watchers, Errors
<1>2. Phases' /\ GradesKept' /\ LookedAtGate'
  BY DEF Phases, Live, GradesKept, LookedAtGate
<1>3. RowsInOrder' /\ PauseIsGate'
  BY DEF RowsInOrder, PauseIsGate, Live, Stream!GateAssumption
<1> QED BY <1>1, <1>2, <1>3 DEF GateInv

LEMMA BeginGate == Stream!GateAssumption /\ GateInv /\ Stream!Begin => GateInv'
<1> SUFFICES ASSUME Stream!GateAssumption, GateInv, Stream!Begin PROVE GateInv'
  OBVIOUS
<1>1. /\ Clips \in Nat /\ Gate \in Nat \ {0} /\ progress \in 0 .. Clips /\ worker.at = "idle"
      /\ worker = Stream!Resting /\ job = Stream!NoJob /\ watcher = Stream!NoWatch /\ judge = Stream!Unjudged
      /\ score # "none" => progress >= Gate
  BY DEF GateInv, Stream!GateAssumption, GateTypes, Phases, LookedAtGate, Stream!Begin
<1>2. /\ worker' = [ at |-> "cached", first |-> progress, gated |-> score = "none" /\ progress < Gate,
                     look |-> "none", error |-> "none" ]
      /\ graded' = progress /\ UNCHANGED <<kept, progress, score, judge, watcher, job, clock>>
  BY DEF Stream!Begin, Stream!Resting
<1>3. GateTypes'
  BY <1>1, <1>2 DEF GateInv, GateTypes, Workers, Errors
<1>4. Phases'
  BY <1>1, <1>2 DEF Phases, Live, Stream!NoJob, Stream!NoWatch
<1>5. GradesKept'
  BY <1>1, <1>2 DEF GradesKept, Stream!Unjudged
<1>6. LookedAtGate' /\ PastIsLast'
  <2>1. PastIsLast'
    BY <1>2 DEF GateInv, PastIsLast
  <2>2. worker'.look = "none" /\ worker'.first = progress /\ score' = score /\ progress' = progress
    BY <1>2
  <2>3. CASE score = "none" /\ progress < Gate
    <3>1. worker'.gated = TRUE
      BY <1>2, <2>3
    <3> QED BY <1>1, <2>1, <2>2, <2>3, <3>1 DEF LookedAtGate
  <2>4. CASE ~ (score = "none" /\ progress < Gate)
    <3>1. worker'.gated = FALSE
      BY <1>2, <2>4
    <3>2. progress >= Gate
      BY <1>1, <2>4
    <3> QED BY <1>1, <2>1, <2>2, <3>1, <3>2 DEF LookedAtGate
  <2> QED BY <2>3, <2>4
<1>7. RowsInOrder' /\ PauseIsGate'
  BY <1>1, <1>2 DEF RowsInOrder, PauseIsGate, Live, Stream!NoJob, Stream!NoWatch
<1> QED BY <1>3, <1>4, <1>5, <1>6, <1>7 DEF GateInv

LEMMA DeliverCachedGate == Stream!GateAssumption /\ GateInv /\ Stream!DeliverCached => GateInv'
<1> SUFFICES ASSUME Stream!GateAssumption, GateInv, Stream!DeliverCached PROVE GateInv'
  OBVIOUS
<1>1. PICK c \in Stream!Wanted \cap kept :
        /\ judge[c] = "none" /\ Stream!Handed(c)
        /\ worker' = IF Stream!Refused(c) THEN [worker EXCEPT !.at = "fail", !.error = "refused"] ELSE worker
  BY DEF Stream!DeliverCached
<1>2. /\ worker.at = "cached" /\ UNCHANGED <<kept, score, attempts, watcher, job, clock>>
      /\ worker \in Workers /\ job = Stream!NoJob /\ watcher = Stream!NoWatch /\ worker.error = "none" /\ worker.look = "none"
      /\ Clips \in Nat /\ kept \subseteq Stream!Clip /\ progress \in 0 .. Clips /\ Gate \in Nat
  BY DEF Stream!DeliverCached, GateInv, GateTypes, Phases, Stream!GateAssumption
<1>3. /\ judge' \in [Stream!Clip -> {"none", "judging", "graded", "failed"}]
      /\ graded' \in graded .. Clips /\ progress' \in progress .. Clips /\ progress' <= graded'
      /\ \A d \in worker.first + 1 .. graded' : judge'[d] = "graded"
      /\ \A d \in Stream!Clip : judge'[d] # "none" => d \in kept
  <2>1. c \in Stream!Clip /\ c \in kept
    BY <1>1, <1>2
  <2> QED BY <1>1, <1>2, <2>1, HandedStep DEF GateInv
<1>4. /\ worker' \in Workers /\ worker'.at \in {"cached", "fail"} /\ worker'.first = worker.first
      /\ worker'.gated = worker.gated /\ worker'.look = "none"
      /\ worker'.at = "cached" => worker'.error = "none"
  BY <1>1, <1>2 DEF Workers, Errors
<1>5. graded \in Nat /\ worker.first <= progress
  BY <1>2 DEF GateInv, GateTypes, GradesKept
<1>6. GateTypes'
  BY <1>2, <1>3, <1>4, <1>5 DEF GateInv, GateTypes
<1>7. Phases'
  BY <1>2, <1>4 DEF Phases, Live, Stream!NoJob, Stream!NoWatch
<1>8. GradesKept'
  BY <1>2, <1>3, <1>4, <1>5 DEF GradesKept, Workers
<1>9. LookedAtGate' /\ PastIsLast'
  BY <1>2, <1>3, <1>4 DEF GateInv, LookedAtGate, PastIsLast
<1>10. RowsInOrder' /\ PauseIsGate'
  BY <1>2, <1>4 DEF RowsInOrder, PauseIsGate, Live, Stream!NoJob, Stream!NoWatch
<1> QED BY <1>6, <1>7, <1>8, <1>9, <1>10 DEF GateInv


(* The pause is the number of rows to ask up to the gate. *)
LEMMA PauseCounts ==
  ASSUME Stream!GateAssumption, GateInv, worker.at = "cached"
  PROVE  /\ Stream!Requested \subseteq Stream!Clip /\ Stream!Pause \in Nat /\ Stream!Pause <= Cardinality(Stream!Requested)
         /\ worker.gated => Stream!Pause = Cardinality({ c \in Stream!Requested : c <= Gate })
         /\ ~ worker.gated => Stream!Pause = 0
<1>1. /\ Clips \in Nat /\ Gate \in Nat \ {0} /\ Gate < Clips /\ worker.first \in Nat /\ kept \subseteq Stream!Clip
      /\ worker.gated \in BOOLEAN /\ (worker.gated => worker.first < Gate)
  BY DEF GateInv, Stream!GateAssumption, GateTypes, Workers, LookedAtGate
<1>2. Stream!Requested \subseteq Stream!Clip /\ IsFiniteSet(Stream!Requested) /\ Cardinality(Stream!Requested) \in Nat
  <2>1. Stream!Requested \subseteq 1 .. Clips
    BY <1>1 DEF Stream!Requested, Stream!Wanted
  <2>2. IsFiniteSet(1 .. Clips)
    BY <1>1, FS_Interval
  <2> QED BY <2>1, <2>2, FS_Subset, FS_CardinalityType DEF Stream!Clip
<1>3. CASE ~ worker.gated
  <2>1. Stream!Pause = 0
    BY <1>3 DEF Stream!Pause
  <2> QED BY <1>2, <1>3, <2>1
<1>4. CASE worker.gated
  <2> DEFINE A == worker.first + 1 .. Gate
             B == { c \in Stream!Requested : c <= Gate }
  <2>1. IsFiniteSet(A) /\ Cardinality(A) = Gate - worker.first
    <3>1. worker.first + 1 \in Int /\ Gate \in Int
      BY <1>1
    <3>2. /\ IsFiniteSet(A)
          /\ Cardinality(A) = IF worker.first + 1 > Gate THEN 0 ELSE Gate - (worker.first + 1) + 1
      BY <3>1, FS_Interval
    <3>3. ~ (worker.first + 1 > Gate) /\ Gate - (worker.first + 1) + 1 = Gate - worker.first
      BY <1>1, <1>4
    <3> QED BY <3>2, <3>3
  <2>2. A \cap kept = kept \cap A
    OBVIOUS
  <2>3. B = A \ kept
    <3>1. \A c : c \in B <=> c \in worker.first + 1 .. Clips /\ c \notin kept /\ c <= Gate
      BY DEF Stream!Requested, Stream!Wanted
    <3>2. \A c : c \in worker.first + 1 .. Clips /\ c <= Gate <=> c \in A
      BY <1>1
    <3> QED BY <3>1, <3>2
  <2> HIDE DEF A, B
  <2>4. IsFiniteSet(B) /\ Cardinality(B) = Cardinality(A) - Cardinality(A \cap kept)
    BY <2>1, <2>3, FS_Difference
  <2>5. Stream!Pause = Gate - worker.first - Cardinality(kept \cap A)
    BY <1>4, Counts DEF Stream!Pause, A
  <2>6. Stream!Pause = Cardinality(B)
    BY <2>1, <2>2, <2>4, <2>5
  <2>7. B \subseteq Stream!Requested
    BY DEF B
  <2>8. Stream!Pause \in Nat /\ Stream!Pause <= Cardinality(Stream!Requested)
    BY <1>2, <2>4, <2>6, <2>7, FS_Subset, FS_CardinalityType
  <2> QED BY <1>2, <1>4, <2>6, <2>8 DEF B
<1> QED BY <1>1, <1>3, <1>4

LEMMA StartJobGate == Stream!GateAssumption /\ GateInv /\ Stream!StartJob => GateInv'
<1> SUFFICES ASSUME Stream!GateAssumption, GateInv, Stream!StartJob PROVE GateInv'
  OBVIOUS
<1>1. /\ worker.at = "cached" /\ \A c \in Stream!Wanted \cap kept : judge[c] # "none"
      /\ UNCHANGED <<kept, progress, score, attempts, graded, judge, clock>>
      /\ worker \in Workers /\ job = Stream!NoJob /\ watcher = Stream!NoWatch /\ worker.error = "none" /\ worker.look = "none"
      /\ Clips \in Nat /\ kept \subseteq Stream!Clip /\ progress \in 0 .. Clips /\ Gate \in Nat \ {0} /\ Gate < Clips
      /\ worker.first <= progress /\ progress <= graded /\ graded <= Clips /\ graded \in Nat
      /\ \A c \in worker.first + 1 .. graded : judge[c] = "graded"
      /\ \A c \in Stream!Clip : judge[c] # "none" => c \in kept
  BY DEF Stream!StartJob, Stream!files, GateInv, GateTypes, Phases, Stream!GateAssumption, GradesKept
<1>2. CASE UNCHANGED <<job, watcher>> /\ worker' \in {[worker EXCEPT !.at = "fail", !.error = "cancelled"], [worker EXCEPT !.at = "drain"]}
  <2>1. /\ worker' \in Workers /\ worker'.at \in {"drain", "fail"} /\ worker'.first = worker.first
        /\ worker'.gated = worker.gated /\ worker'.look = "none"
    BY <1>1, <1>2 DEF Workers, Errors
  <2>2. GateTypes'
    BY <1>1, <1>2, <2>1 DEF GateInv, GateTypes
  <2>3. Phases' /\ GradesKept'
    BY <1>1, <1>2, <2>1 DEF GateInv, Phases, Live, Stream!NoJob, Stream!NoWatch, GradesKept
  <2>4. LookedAtGate' /\ PastIsLast'
    BY <1>1, <1>2, <2>1 DEF GateInv, LookedAtGate, PastIsLast
  <2>5. RowsInOrder' /\ PauseIsGate'
    BY <1>1, <1>2, <2>1 DEF RowsInOrder, PauseIsGate, Live, Stream!NoJob, Stream!NoWatch
  <2> QED BY <2>2, <2>3, <2>4, <2>5 DEF GateInv
<1>3. CASE /\ worker' = [worker EXCEPT !.at = "run"]
           /\ job' = [Stream!NoJob EXCEPT !.at = "run", !.tasks = Stream!InOrder(Stream!Requested), !.pause = Stream!Pause]
           /\ watcher' = [at |-> "poll", seen |-> 0]
  <2> DEFINE tasks == Stream!InOrder(Stream!Requested)
             size == Cardinality(Stream!Requested)
  <2>1. /\ Stream!Requested \subseteq Stream!Clip /\ Stream!Pause \in Nat /\ Stream!Pause <= size
        /\ worker.gated => Stream!Pause = Cardinality({ c \in Stream!Requested : c <= Gate })
        /\ ~ worker.gated => Stream!Pause = 0
    BY <1>1, PauseCounts
  <2>2. /\ size \in Nat /\ tasks \in Seq(Stream!Clip) /\ Len(tasks) = size
        /\ \A i \in 1 .. Len(tasks) : tasks[i] \in Stream!Requested /\ Cardinality({ d \in Stream!Requested : d <= tasks[i] }) = i
        /\ \A i, k \in 1 .. Len(tasks) : i < k => tasks[i] < tasks[k]
        /\ \A c \in Stream!Requested : \E i \in 1 .. Len(tasks) : tasks[i] = c
    BY <1>1, <2>1, OrderOf
  <2> HIDE DEF tasks, size
  <2>3. /\ job'.at = "run" /\ job'.tasks = tasks /\ job'.pause = Stream!Pause /\ job'.rows = 0 /\ job'.ran = 0
        /\ job'.continue = "none" /\ job' \in Jobs
    BY <1>3, <2>1, <2>2 DEF Stream!NoJob, Jobs, tasks
  <2>4. /\ worker' \in Workers /\ worker'.at = "run" /\ worker'.first = worker.first /\ worker'.error = "none"
        /\ worker'.gated = worker.gated /\ worker'.look = "none" /\ Stream!Wanted' = Stream!Wanted
    BY <1>1, <1>3 DEF Workers, Stream!Wanted
  <2>5. GateTypes'
    BY <1>1, <1>3, <2>3, <2>4 DEF GateInv, GateTypes, Watchers
  <2>6. Phases' /\ GradesKept'
    BY <1>1, <1>3, <2>3, <2>4 DEF Phases, Live, GradesKept
  <2>7. LookedAtGate' /\ PastIsLast'
    BY <1>1, <2>4 DEF GateInv, LookedAtGate, PastIsLast
  <2>8. RowsInOrder'
    <3>1. \A i \in 1 .. Len(tasks) : tasks[i] \notin kept
      BY <2>2 DEF Stream!Requested
    <3>2. \A c \in Stream!Wanted : c \in kept \/ \E i \in 1 .. Len(tasks) : tasks[i] = c
      BY <2>2 DEF Stream!Requested
    <3> QED BY <1>1, <1>3, <2>2, <2>3, <2>4, <3>1, <3>2 DEF RowsInOrder
  <2>9. PauseIsGate'
    <3>1. ASSUME worker.gated, NEW i \in 1 .. Len(tasks)
          PROVE  tasks[i] <= Gate <=> i <= Stream!Pause
      <4> DEFINE t == tasks[i]
                 D == { d \in Stream!Requested : d <= t }
                 B == { c \in Stream!Requested : c <= Gate }
      <4>1. t \in Stream!Requested /\ Cardinality(D) = i
        BY <2>2
      <4>2. Stream!Pause = Cardinality(B)
        BY <2>1, <3>1
      <4>3. Stream!Requested \subseteq 1 .. Clips
        BY <2>1 DEF Stream!Clip
      <4>8. i \in Nat
        BY <2>2
      <4> HIDE DEF t
      <4>4. t \in Nat /\ i \in Nat /\ Gate \in Nat
        BY <1>1, <4>1, <4>3, <4>8
      <4>5. IsFiniteSet(D) /\ IsFiniteSet(B) /\ Cardinality(D) \in Nat /\ Cardinality(B) \in Nat
        <5>1. IsFiniteSet(1 .. Clips)
          BY <1>1, FS_Interval
        <5>2. D \subseteq 1 .. Clips /\ B \subseteq 1 .. Clips
          BY <4>3
        <5> HIDE DEF D, B
        <5> QED BY <5>1, <5>2, FS_Subset, FS_CardinalityType
      <4>6. CASE t <= Gate
        <5>1. D \subseteq B
          <6> SUFFICES ASSUME NEW d \in Stream!Requested, d <= t PROVE d <= Gate
            OBVIOUS
          <6>1. d \in Nat
            BY <4>3
          <6> QED BY <4>4, <4>6, <6>1
        <5> HIDE DEF D, B
        <5>2. Cardinality(D) <= Cardinality(B)
          BY <4>5, <5>1, FS_Subset
        <5> QED BY <4>1, <4>2, <4>6, <5>2 DEF t
      <4>7. CASE ~ (t <= Gate)
        <5>1. B \subseteq D
          <6> SUFFICES ASSUME NEW d \in Stream!Requested, d <= Gate PROVE d <= t
            OBVIOUS
          <6>1. d \in Nat
            BY <4>3
          <6> QED BY <4>4, <4>7, <6>1
        <5>2. t \in D /\ t \notin B
          BY <4>1, <4>4, <4>7
        <5> HIDE DEF D, B
        <5>3. Cardinality(B) <= Cardinality(D) /\ Cardinality(B) # Cardinality(D)
          BY <4>5, <5>1, <5>2, FS_Subset
        <5>4. ~ (i <= Stream!Pause)
          BY <4>1, <4>2, <4>4, <4>5, <5>3
        <5> QED BY <4>7, <5>4 DEF t
      <4> QED BY <4>6, <4>7
    <3>2. ASSUME Stream!Pause > 0
          PROVE  /\ \A i \in 1 .. Len(tasks) : tasks[i] <= Gate <=> i <= Stream!Pause
                 /\ \A c \in Gate + 1 .. Clips : \E i \in 1 .. Len(tasks) : tasks[i] = c
      <4>1. worker.gated
        BY <2>1, <3>2
      <4>2. worker.first < Gate /\ worker.first \in Nat
        BY <1>1, <4>1 DEF GateInv, LookedAtGate, Workers
      <4>3. 1 \in 1 .. Len(tasks) /\ 1 <= Stream!Pause
        BY <2>1, <2>2, <3>2
      <4>4. tasks[1] \in Stream!Requested /\ tasks[1] <= Gate
        BY <2>2, <3>1, <4>1, <4>3
      <4>5. tasks[1] \in worker.first + 1 .. Clips /\ tasks[1] \notin kept /\ tasks[1] \in Stream!Clip
        BY <2>1, <4>4 DEF Stream!Requested, Stream!Wanted
      <4>6. ~ (tasks[1] <= progress)
        <5>1. SUFFICES ASSUME tasks[1] <= progress PROVE FALSE
          OBVIOUS
        <5>2. tasks[1] \in worker.first + 1 .. graded
          BY <1>1, <4>2, <4>5, <5>1
        <5> QED BY <1>1, <4>5, <5>2
      <4>7. tasks[1] \in 1 .. Gate
        BY <1>1, <4>2, <4>4, <4>5
      <4>8. ASSUME NEW c \in Gate + 1 .. Clips
            PROVE  \E i \in 1 .. Len(tasks) : tasks[i] = c
        <5>1. c > Gate /\ c \in Stream!Wanted
          BY <1>1, <4>2 DEF Stream!Wanted
        <5>2. c \notin kept
          BY <4>5, <4>6, <4>7, <5>1 DEF GateInv, PastIsLast
        <5> QED BY <2>2, <5>1, <5>2 DEF Stream!Requested
      <4> QED BY <3>1, <4>1, <4>8
    <3>3. ASSUME Stream!Pause = 0, worker.gated
          PROVE  worker.first + 1 .. Gate \subseteq kept
      <4> SUFFICES ASSUME NEW c \in worker.first + 1 .. Gate, c \notin kept
                   PROVE  FALSE
        OBVIOUS
      <4>1. c \in Stream!Requested
        BY <1>1 DEF Stream!Requested, Stream!Wanted, GateInv, GateTypes, Workers
      <4>2. PICK i \in 1 .. Len(tasks) : tasks[i] = c
        BY <2>2, <4>1
      <4>3. c <= Gate
        BY <1>1 DEF GateInv, GateTypes, Workers
      <4> QED BY <2>2, <3>1, <3>3, <4>2, <4>3
    <3>4. CASE Stream!Pause > 0
      BY <1>1, <2>1, <2>2, <2>3, <2>4, <3>2, <3>4 DEF PauseIsGate
    <3>6. ASSUME Stream!Pause = 0, worker.gated, NEW i \in 1 .. Len(tasks)
          PROVE  tasks[i] > Gate
      <4> DEFINE t == tasks[i]
      <4>1. t \in Stream!Requested /\ (t <= Gate <=> i <= Stream!Pause)
        BY <2>2, <3>1, <3>6
      <4>2. Stream!Requested \subseteq 1 .. Clips
        BY <2>1 DEF Stream!Clip
      <4>3. Len(tasks) \in Nat
        BY <2>2
      <4> HIDE DEF t
      <4>4. t \in Nat /\ ~ (t <= Gate)
        BY <1>1, <3>6, <4>1, <4>2, <4>3
      <4>5. t > Gate
        BY <1>1, <4>4
      <4> QED BY <4>5 DEF t
    <3>5. CASE Stream!Pause = 0
      BY <1>1, <2>3, <2>4, <3>3, <3>5, <3>6 DEF PauseIsGate
    <3> QED BY <2>1, <3>4, <3>5
  <2> QED BY <2>5, <2>6, <2>7, <2>8, <2>9 DEF GateInv
<1> QED BY <1>2, <1>3 DEF Stream!StartJob


(* What stays of a job and of a worker when an error is raised. *)
SameRows ==
  /\ job' \in Jobs
  /\ job'.at = job.at /\ job'.tasks = job.tasks /\ job'.pause = job.pause /\ job'.rows = job.rows
  /\ job'.ran = job.ran /\ job'.continue = job.continue

SameAttempt ==
  /\ worker' \in Workers /\ worker'.first = worker.first /\ worker'.gated = worker.gated
  /\ Stream!Wanted' = Stream!Wanted

LEMMA RaisesStep ==
  ASSUME worker \in Workers, job \in Jobs, watcher \in Watchers, Live,
         NEW error \in Errors \ {"none"}, Stream!Raises(error)
  PROVE  /\ SameRows /\ SameAttempt /\ worker'.look = worker.look
         /\ worker'.at \in {"run", "fail"} /\ worker'.error = error
         /\ worker'.at = "fail" => worker.at = "rest"
         /\ watcher' = [at |-> "off", seen |-> watcher.seen]
<1>1. watcher' = [at |-> "off", seen |-> watcher.seen]
  BY DEF Stream!Raises, Watchers
<1>2. CASE worker.at = "rest"
  <2>1. worker' = [worker EXCEPT !.at = "fail", !.error = error] /\ job' = job
    BY <1>2 DEF Stream!Raises
  <2> QED BY <1>1, <1>2, <2>1 DEF Workers, SameRows, SameAttempt, Stream!Wanted
<1>3. CASE worker.at = "run"
  <2>1. worker' = [worker EXCEPT !.error = error]
    BY <1>3 DEF Stream!Raises
  <2>2. PICK touched \in BOOLEAN : job' = [job EXCEPT !.cancel = @ \/ touched]
    BY <1>3 DEF Stream!Raises
  <2>3. SameRows
    BY <2>2 DEF Jobs, SameRows
  <2> QED BY <1>1, <1>3, <2>1, <2>3 DEF Workers, SameAttempt, Stream!Wanted
<1> QED BY <1>2, <1>3 DEF Live

(* After an error is raised nothing but the files matters. *)
LEMMA RaisedGate ==
  ASSUME Stream!GateAssumption, GateInv, Live, NEW error \in Errors \ {"none"}, Stream!Raises(error),
         GradesKept', judge' \in [Stream!Clip -> {"none", "judging", "graded", "failed"}],
         graded' \in Nat, progress' \in progress .. Clips, PastIsLast',
         kept \subseteq kept', kept' \subseteq Stream!Clip, UNCHANGED <<score, clock>>,
         \A i \in 1 .. Len(job.tasks) : job.tasks[i] \in kept' => job.tasks[i] \in kept \/ i <= job.rows
  PROVE  GateInv'
<1>1. /\ worker \in Workers /\ job \in Jobs /\ watcher \in Watchers /\ progress \in 0 .. Clips
      /\ Clips \in Nat /\ Gate \in Nat \ {0} /\ job.at # "off" /\ worker.at \in {"run", "rest"}
      /\ worker.at = "rest" => job.at = "exited"
      /\ job.at = "run" => worker.at = "run"
      /\ job.rows \in Nat /\ job.at \in {"run", "exited"}
  <2>1. worker \in Workers /\ job \in Jobs /\ watcher \in Watchers /\ progress \in 0 .. Clips
    BY DEF GateInv, GateTypes
  <2>2. job.at # "off"
    BY DEF GateInv, Phases, Live
  <2> QED BY <2>1, <2>2 DEF GateInv, Phases, Live, Stream!GateAssumption, Jobs
<1>2. /\ SameRows /\ SameAttempt /\ worker'.look = worker.look
      /\ worker'.at \in {"run", "fail"} /\ worker'.error = error
      /\ worker'.at = "fail" => worker.at = "rest"
      /\ watcher' = [at |-> "off", seen |-> watcher.seen]
  BY <1>1, RaisesStep
<1>3. GateTypes'
  BY <1>1, <1>2 DEF GateInv, GateTypes, Watchers, SameRows, SameAttempt
<1>4. Phases'
  BY <1>1, <1>2 DEF Phases, SameRows
<1>5. LookedAtGate'
  BY <1>1, <1>2 DEF GateInv, LookedAtGate, SameAttempt, GateTypes, Live
<1>6. RowsInOrder'
  <2>1. ~ Live'
    BY <1>2 DEF Live
  <2> QED BY <1>1, <1>2, <2>1 DEF GateInv, RowsInOrder, SameRows, SameAttempt
<1>7. PauseIsGate'
  BY <1>1, <1>2 DEF GateInv, PauseIsGate, SameRows, SameAttempt
<1> QED BY <1>3, <1>4, <1>5, <1>6, <1>7 DEF GateInv


(* The next row of a live job is a clip without an answer. *)
LEMMA NextRow ==
  ASSUME GateInv, watcher.at = "poll", watcher.seen < job.rows
  PROVE  LET c == job.tasks[watcher.seen + 1]
         IN  /\ Live /\ watcher.seen + 1 \in 1 .. Len(job.tasks) /\ c \in Stream!Clip /\ c \notin kept
             /\ judge[c] = "none"
<1>1. /\ job.tasks \in Seq(Stream!Clip) /\ job.rows \in Nat /\ job.rows <= Len(job.tasks) /\ watcher.seen \in Nat
      /\ judge \in [Stream!Clip -> {"none", "judging", "graded", "failed"}]
  BY DEF GateInv, GateTypes, Jobs, Watchers, RowsInOrder
<1>2. Live
  BY <1>1 DEF GateInv, Phases
<1>3. watcher.seen + 1 \in 1 .. Len(job.tasks) /\ job.tasks[watcher.seen + 1] \in Stream!Clip
  BY <1>1
<1>4. job.tasks[watcher.seen + 1] \notin kept
  <2>1. ~ (watcher.seen + 1 <= watcher.seen)
    BY <1>1
  <2> QED BY <1>2, <1>3, <2>1 DEF GateInv, RowsInOrder
<1>5. worker.at # "idle"
  BY <1>2 DEF Live
<1>6. \A d \in Stream!Clip : judge[d] # "none" => d \in kept
  BY <1>5 DEF GateInv, GradesKept
<1> QED BY <1>2, <1>3, <1>4, <1>6

LEMMA DeliverGate == Stream!GateAssumption /\ GateInv /\ Stream!Deliver => GateInv'
<1> SUFFICES ASSUME Stream!GateAssumption, GateInv, Stream!Deliver PROVE GateInv'
  OBVIOUS
<1> DEFINE c == job.tasks[watcher.seen + 1]
<1>1. /\ watcher.at = "poll" /\ watcher.seen < job.rows /\ kept' = kept \cup {c} /\ Stream!Handed(c)
      /\ UNCHANGED <<score, attempts, clock>>
      /\ IF Stream!Refused(c) THEN Stream!Raises("refused")
         ELSE /\ watcher' = [ at |-> IF watcher.seen + 1 = job.pause THEN "look" ELSE "poll",
                              seen |-> watcher.seen + 1 ]
              /\ UNCHANGED <<worker, job>>
  BY DEF Stream!Deliver
<1>2. /\ Live /\ watcher.seen + 1 \in 1 .. Len(job.tasks) /\ c \in Stream!Clip /\ c \notin kept
      /\ judge[c] = "none"
  BY <1>1, NextRow
<1>3. /\ worker.at \in {"run", "rest"} /\ worker.error = "none" /\ kept \subseteq Stream!Clip /\ Clips \in Nat
      /\ job \in Jobs /\ watcher.seen \in Nat /\ job.rows \in Nat /\ worker \in Workers
      /\ progress \in 0 .. Clips /\ graded \in Nat /\ worker.first <= progress
      /\ \A i \in 1 .. watcher.seen : job.tasks[i] \in kept
      /\ job.tasks \in Seq(Stream!Clip)
  BY <1>2 DEF Live, GateInv, GateTypes, Stream!GateAssumption, Jobs, Watchers, GradesKept, RowsInOrder
<1> HIDE DEF c
<1>4. /\ judge' \in [Stream!Clip -> {"none", "judging", "graded", "failed"}]
      /\ graded' \in graded .. Clips /\ progress' \in progress .. Clips /\ progress' <= graded'
      /\ \A d \in worker.first + 1 .. graded' : judge'[d] = "graded"
      /\ \A d \in Stream!Clip : judge'[d] # "none" => d \in kept'
      /\ \A d \in Stream!Clip : judge[d] # "none" => judge'[d] # "none"
      /\ ~ Stream!Cancelled => judge'[c] # "none"
  <2>1. kept \subseteq kept' /\ c \in kept' /\ worker.at # "idle"
    BY <1>1, <1>3
  <2> QED BY <1>1, <1>2, <2>1, HandedStep DEF GateInv
<1>5. progress' \in Nat /\ progress' >= progress /\ graded' \in Nat /\ kept' \subseteq Stream!Clip
  BY <1>1, <1>2, <1>3, <1>4
<1>6. PastIsLast'
  <2>1. kept' = kept \cup { job.tasks[i] : i \in 1 .. watcher.seen + 1 }
    <3>1. \A i \in 1 .. watcher.seen + 1 : i \in 1 .. watcher.seen \/ i = watcher.seen + 1
      BY <1>3
    <3>2. watcher.seen + 1 \in 1 .. watcher.seen + 1
      BY <1>3
    <3>3. { job.tasks[i] : i \in 1 .. watcher.seen + 1 } \subseteq kept \cup {c}
      BY <1>3, <3>1 DEF c
    <3>4. c \in { job.tasks[i] : i \in 1 .. watcher.seen + 1 }
      BY <3>2 DEF c
    <3> QED BY <1>1, <3>3, <3>4
  <2>2. watcher.seen + 1 \in Nat /\ watcher.seen + 1 <= job.rows
    BY <1>1, <1>3
  <2> QED BY <1>5, <2>1, <2>2, PastKept
<1>7. worker'.first = worker.first => GradesKept'
  <2>1. /\ worker.first <= progress' /\ graded' <= Clips /\ worker.first \in Nat
        /\ progress' <= graded'
    BY <1>3, <1>4 DEF Workers
  <2> QED BY <1>4, <2>1 DEF GradesKept
<1>8. \A i \in 1 .. Len(job.tasks) : job.tasks[i] = c => i = watcher.seen + 1
  <2> TAKE i \in 1 .. Len(job.tasks)
  <2>1. \A k, l \in 1 .. Len(job.tasks) : k < l => job.tasks[k] < job.tasks[l]
    BY DEF GateInv, RowsInOrder
  <2>2. SUFFICES ASSUME job.tasks[i] = c, i # watcher.seen + 1 PROVE FALSE
    OBVIOUS
  <2>3. i < watcher.seen + 1 \/ watcher.seen + 1 < i
    BY <1>2, <1>3, <2>2
  <2>4. c < c
    BY <1>2, <2>1, <2>2, <2>3 DEF c
  <2> QED BY <1>2, <2>4 DEF Stream!Clip
<1>9. CASE Stream!Refused(c)
  <2>1. Stream!Raises("refused") /\ "refused" \in Errors \ {"none"}
    BY <1>1, <1>9 DEF Errors
  <2>2. watcher \in Watchers /\ worker \in Workers
    BY DEF GateInv, GateTypes
  <2>3. worker'.first = worker.first
    BY <1>2, <1>3, <2>1, <2>2, RaisesStep DEF SameAttempt
  <2>4. \A i \in 1 .. Len(job.tasks) : job.tasks[i] \in kept' => job.tasks[i] \in kept \/ i <= job.rows
    <3> TAKE i \in 1 .. Len(job.tasks)
    <3>1. job.tasks[i] = c => i <= job.rows
      BY <1>1, <1>3, <1>8
    <3> QED BY <1>1, <3>1
  <2> QED BY <1>1, <1>2, <1>4, <1>5, <1>6, <1>7, <2>1, <2>3, <2>4, RaisedGate
<1>10. CASE ~ Stream!Refused(c)
  <2>1. /\ UNCHANGED <<worker, job>> /\ ~ Stream!Cancelled /\ watcher'.seen = watcher.seen + 1
        /\ watcher'.at \in {"poll", "look"} /\ (watcher'.at = "look" => watcher.seen + 1 = job.pause)
        /\ watcher' \in Watchers
    BY <1>1, <1>3, <1>10 DEF Stream!Refused, Watchers
  <2>2. GateTypes'
    BY <1>1, <1>4, <1>5, <2>1 DEF GateInv, GateTypes
  <2>3. Phases'
    <3>1. Live'
      BY <1>2, <2>1 DEF Live
    <3> QED BY <1>3, <2>1, <3>1 DEF GateInv, Phases
  <2>4. LookedAtGate'
    BY <1>1, <1>3, <1>5, <2>1 DEF GateInv, LookedAtGate, Stream!GateAssumption
  <2>5. RowsInOrder'
    <3>1. \A i \in 1 .. Len(job.tasks) : job.tasks[i] \in kept' => i <= watcher.seen + 1
      <4> TAKE i \in 1 .. Len(job.tasks)
      <4>1. job.tasks[i] \in kept => i <= watcher.seen
        BY <1>2 DEF GateInv, RowsInOrder
      <4> QED BY <1>1, <1>3, <1>8, <4>1
    <3>2. \A i \in 1 .. Len(job.tasks) : job.tasks[i] \in kept' => i <= job.rows
      BY <1>1, <1>3, <3>1
    <3>3. \A i \in 1 .. watcher.seen + 1 : job.tasks[i] \in kept'
      <4> TAKE i \in 1 .. watcher.seen + 1
      <4>1. i \in 1 .. watcher.seen \/ i = watcher.seen + 1
        BY <1>3
      <4> QED BY <1>1, <1>3, <4>1 DEF c
    <3>4. \A d \in Stream!Wanted : d \in kept' => judge'[d] # "none"
      <4> TAKE d \in Stream!Wanted
      <4>1. d \in Stream!Clip
        BY <1>3 DEF Stream!Wanted, Stream!Clip, Workers
      <4>2. d \in kept => judge[d] # "none"
        BY <1>2 DEF GateInv, RowsInOrder
      <4> QED BY <1>1, <1>4, <2>1, <4>1, <4>2
    <3>5. Stream!Wanted' = Stream!Wanted
      BY <2>1 DEF Stream!Wanted
    <3>6. watcher.seen + 1 <= job.rows
      BY <1>1, <1>3
    <3>7. job.at # "off" => \A d \in Stream!Wanted : d \in kept' \/ \E i \in 1 .. Len(job.tasks) : job.tasks[i] = d
      BY <1>1 DEF GateInv, RowsInOrder
    <3> QED BY <2>1, <3>1, <3>2, <3>3, <3>4, <3>5, <3>6, <3>7 DEF GateInv, RowsInOrder
  <2>6. PauseIsGate'
    <3>1. job.pause \in Nat /\ job.continue # "none" => watcher.seen + 1 # job.pause
      BY <1>3 DEF GateInv, PauseIsGate, Jobs
    <3>2. job.pause \in Nat /\ watcher'.seen >= watcher.seen /\ watcher'.seen \in Nat
      BY <1>3, <2>1 DEF Jobs
    <3> QED BY <1>1, <1>3, <2>1, <3>1, <3>2 DEF GateInv, PauseIsGate
  <2> QED BY <1>6, <1>7, <2>1, <2>2, <2>3, <2>4, <2>5, <2>6 DEF GateInv
<1> QED BY <1>9, <1>10

(* At the look exactly the clips before the gate are in the pool: the      *)
(* grades that are taken are those of the gate, and no other.              *)
LEMMA GateComplete ==
  ASSUME Stream!GateAssumption, GateInv, watcher.at = "look", Stream!NextGrade(judge) = "none"
  PROVE  Stream!Drained(judge) = Gate
<1>1. /\ Clips \in Nat /\ Gate \in Nat \ {0} /\ Gate < Clips /\ worker.first \in Nat /\ graded \in 0 .. Clips
      /\ Live /\ job.pause > 0 /\ watcher.seen = job.pause /\ worker.at # "idle" /\ job.at # "off"
      /\ job.pause \in Nat /\ job.pause <= Len(job.tasks) /\ worker.first <= graded
  BY DEF GateInv, GateTypes, Phases, Stream!GateAssumption, Live, Workers, Jobs, PauseIsGate, GradesKept
<1>2. worker.first < Gate
  BY <1>1 DEF GateInv, PauseIsGate, LookedAtGate
<1>3. ASSUME NEW d \in worker.first + 1 .. Gate
      PROVE  judge[d] # "none"
  <2>1. d \in Stream!Wanted /\ d <= Gate
    BY <1>1 DEF Stream!Wanted
  <2>2. d \in kept \/ \E i \in 1 .. Len(job.tasks) : job.tasks[i] = d
    BY <1>1, <2>1 DEF GateInv, RowsInOrder
  <2>3. ASSUME NEW i \in 1 .. Len(job.tasks), job.tasks[i] = d
        PROVE  d \in kept
    <3>1. i <= job.pause
      BY <1>1, <2>1, <2>3 DEF GateInv, PauseIsGate
    <3>2. i \in 1 .. watcher.seen
      BY <1>1, <3>1
    <3> QED BY <2>3, <3>2 DEF GateInv, RowsInOrder
  <2> QED BY <1>1, <2>1, <2>2, <2>3 DEF GateInv, RowsInOrder
<1> DEFINE k == Stream!Drained(judge)
<1>4. /\ k \in graded .. Clips /\ \A c \in graded + 1 .. k : judge[c] = "graded"
      /\ k < Clips => judge[k + 1] # "graded"
  BY <1>1, DrainedAt
<1>5. k = Clips \/ judge[k + 1] = "none"
  BY DEF Stream!NextGrade
<1> HIDE DEF k
<1>6. ASSUME k < Gate
      PROVE  FALSE
  <2>1. k + 1 \in worker.first + 1 .. Gate /\ k # Clips
    BY <1>1, <1>4, <1>6
  <2> QED BY <1>3, <1>5, <2>1
<1>7. ASSUME k > Gate
      PROVE  FALSE
  <2>1. Gate + 1 \in worker.first + 1 .. graded \/ Gate + 1 \in graded + 1 .. k
    BY <1>1, <1>2, <1>4, <1>7
  <2>2. judge[Gate + 1] = "graded" /\ Gate + 1 \in Stream!Clip
    BY <1>1, <1>4, <2>1 DEF GateInv, GradesKept, Stream!Clip
  <2>3. Gate + 1 \in kept
    BY <1>1, <2>2 DEF GateInv, GradesKept
  <2>4. PICK i \in 1 .. Len(job.tasks) : job.tasks[i] = Gate + 1
    <3>1. Gate + 1 \in Gate + 1 .. Clips
      BY <1>1
    <3> QED BY <1>1, <3>1 DEF GateInv, PauseIsGate
  <2>5. i <= watcher.seen
    BY <1>1, <2>3, <2>4 DEF GateInv, RowsInOrder
  <2>6. Gate + 1 <= Gate
    BY <1>1, <2>4, <2>5 DEF GateInv, PauseIsGate
  <2> QED BY <1>1, <2>6
<1>8. k = Gate
  BY <1>1, <1>4, <1>6, <1>7
<1> QED BY <1>8 DEF k


LEMMA LookGate == Stream!GateAssumption /\ GateInv /\ Stream!Look => GateInv'
<1> SUFFICES ASSUME Stream!GateAssumption, GateInv, Stream!Look PROVE GateInv'
  OBVIOUS
<1>1. watcher.at = "look" /\ UNCHANGED <<kept, score, attempts, clock>>
  BY DEF Stream!Look
<1>2. /\ Live /\ job.pause > 0 /\ watcher.seen = job.pause /\ worker.at # "idle"
      /\ judge \in [Stream!Clip -> {"none", "judging", "graded", "failed"}] /\ kept \subseteq Stream!Clip
      /\ Clips \in Nat /\ Gate \in Nat \ {0} /\ Gate % PerVideo = 0 /\ progress \in 0 .. Clips /\ graded \in Nat
      /\ worker \in Workers /\ worker.first <= progress /\ watcher \in Watchers
      /\ \A d \in Stream!Clip : judge[d] # "none" => d \in kept
  BY <1>1 DEF GateInv, GateTypes, Phases, Live, Stream!GateAssumption, GradesKept
<1>0. \E k \in graded .. Stream!Drained(judge) : Stream!Graded(judge, k)
  <2>1. CASE \E k \in Stream!Undrained : Stream!Graded(judge, k)
    BY <2>1 DEF Stream!Undrained
  <2>2. CASE Stream!Drain(judge)
    <3>1. graded \in 0 .. Clips
      BY <1>1, <1>2 DEF GateInv, GradesKept
    <3>2. Stream!Drained(judge) \in graded .. Clips
      BY <1>2, <3>1, DrainedAt
    <3>3. Stream!Drained(judge) \in graded .. Stream!Drained(judge)
      BY <1>2, <3>2
    <3> QED BY <2>2, <3>3 DEF Stream!Drain
  <2> QED BY <2>1, <2>2 DEF Stream!Look
<1>3. /\ judge' = judge /\ graded' \in graded .. Clips
      /\ progress' \in progress .. Clips /\ progress' <= graded'
      /\ graded' % PerVideo = 0 => progress' = graded'
      /\ \A d \in worker.first + 1 .. graded' : judge[d] = "graded"
  BY <1>0, <1>2, GradedStep DEF GateInv
<1>4. graded' \in Nat /\ progress' \in Nat /\ progress' >= progress
  BY <1>2, <1>3
<1>5. PastIsLast'
  BY <1>1, <1>2, <1>4 DEF GateInv, PastIsLast, Stream!GateAssumption
<1>6. worker'.first = worker.first => GradesKept'
  <2>1. worker.first <= progress' /\ graded' <= Clips /\ progress' <= graded'
    BY <1>2, <1>3 DEF Workers
  <2> QED BY <1>1, <1>2, <1>3, <2>1 DEF GradesKept
<1>7. ASSUME Stream!Raises("refused")
      PROVE  GateInv'
  <2>1. "refused" \in Errors \ {"none"} /\ job \in Jobs
    BY DEF Errors, GateInv, GateTypes
  <2>2. worker'.first = worker.first
    BY <1>2, <1>7, <2>1, RaisesStep DEF SameAttempt
  <2> QED BY <1>1, <1>2, <1>3, <1>4, <1>5, <1>6, <1>7, <2>1, <2>2, RaisedGate
<1>8. CASE Stream!Stopped \/ Stream!NextGrade(judge) = "failed"
  <2>1. Stream!Raises("refused")
    BY <1>8 DEF Stream!Look
  <2> QED BY <1>7, <2>1
<1>9. CASE ~ Stream!Stopped /\ Stream!NextGrade(judge) # "failed"
  <2>0. Stream!NextGrade(judge) # "judging" /\ graded' = Stream!Drained(judge)
        /\ (graded' < Clips => judge[graded' + 1] # "graded")
    <3>1. Stream!NextGrade(judge) # "judging" /\ Stream!Drain(judge)
      BY <1>9 DEF Stream!Look
    <3> QED BY <1>2, <3>1, DrainStep DEF GateInv
  <2>1. Stream!NextGrade(judge) = "none"
    <3>2. CASE Stream!Drained(judge) = Clips
      BY <3>2 DEF Stream!NextGrade
    <3>3. CASE Stream!Drained(judge) # Clips
      <4>0. graded' # Clips /\ Stream!NextGrade(judge) = judge[graded' + 1]
        BY <2>0, <3>3 DEF Stream!NextGrade
      <4>1. Stream!NextGrade(judge) = judge[graded' + 1] /\ graded' < Clips
        BY <1>2, <1>3, <4>0
      <4> DEFINE g == graded'
      <4>2. g \in Nat /\ g < Clips /\ Clips \in Nat
        BY <1>2, <1>4, <4>1
      <4> HIDE DEF g
      <4>3. g + 1 \in Stream!Clip
        BY <4>2 DEF Stream!Clip
      <4>4. graded' + 1 \in Stream!Clip
        BY <4>3 DEF g
      <4> QED BY <1>2, <1>9, <2>0, <4>1, <4>4
    <3> QED BY <3>2, <3>3
  <2>2. graded' = Gate
    BY <1>1, <2>0, <2>1, GateComplete
  <2>3. progress' >= Gate
    BY <1>2, <1>3, <2>2
  <2>4. PICK look \in {"go", "stop"} :
          worker' = [worker EXCEPT !.look = look] /\ watcher' = [watcher EXCEPT !.at = "answer"] /\ job' = job
    BY <1>9, <2>1, <2>2 DEF Stream!Look
  <2>5. /\ worker' \in Workers /\ worker'.at = worker.at /\ worker'.first = worker.first /\ worker'.error = worker.error
        /\ worker'.gated = worker.gated /\ Stream!Wanted' = Stream!Wanted
        /\ watcher' \in Watchers /\ watcher'.at = "answer" /\ watcher'.seen = watcher.seen
    BY <1>2, <2>4 DEF Workers, Watchers, Stream!Wanted
  <2>6. GateTypes'
    BY <1>1, <1>2, <1>3, <1>4, <2>4, <2>5 DEF GateInv, GateTypes
  <2>7. Phases'
    BY <1>2, <2>4, <2>5 DEF GateInv, Phases, Live
  <2>8. LookedAtGate'
    BY <2>3, <2>5 DEF GateInv, LookedAtGate
  <2>9. RowsInOrder'
    BY <1>1, <1>3, <2>4, <2>5 DEF GateInv, RowsInOrder, Live
  <2>10. PauseIsGate'
    BY <1>1, <2>4, <2>5 DEF GateInv, PauseIsGate
  <2> QED BY <1>5, <1>6, <2>5, <2>6, <2>7, <2>8, <2>9, <2>10 DEF GateInv
<1> QED BY <1>8, <1>9


LEMMA AnswerGate == Stream!GateAssumption /\ GateInv /\ Stream!Answer => GateInv'
<1> SUFFICES ASSUME Stream!GateAssumption, GateInv, Stream!Answer PROVE GateInv'
  OBVIOUS
<1>1. /\ watcher.at = "answer" /\ UNCHANGED <<kept, progress, score, attempts, graded, judge, clock>>
      /\ Live /\ worker \in Workers /\ job \in Jobs /\ watcher \in Watchers
      /\ kept \subseteq Stream!Clip /\ progress \in 0 .. Clips /\ Clips \in Nat /\ graded \in Nat
      /\ judge \in [Stream!Clip -> {"none", "judging", "graded", "failed"}]
  BY DEF Stream!Answer, Stream!files, GateInv, GateTypes, Phases, Stream!GateAssumption
<1>2. CASE Stream!Raises("not_written")
  <2>1. "not_written" \in Errors \ {"none"}
    BY DEF Errors
  <2>2. worker'.first = worker.first /\ worker.at # "idle"
    BY <1>1, <1>2, <2>1, RaisesStep DEF SameAttempt, Live
  <2>3. GradesKept' /\ PastIsLast'
    BY <1>1, <2>2 DEF GateInv, GradesKept, PastIsLast
  <2>4. progress' \in progress .. Clips
    BY <1>1
  <2> QED BY <1>1, <1>2, <2>1, <2>3, <2>4, RaisedGate
<1>3. CASE /\ job' = [job EXCEPT !.continue = worker.look]
           /\ watcher' = [watcher EXCEPT !.at = "poll"]
           /\ UNCHANGED worker
  <2>1. SameRows \/ job'.continue # job.continue
    BY <1>1, <1>3 DEF SameRows, Jobs, Workers
  <2>2. /\ job' \in Jobs /\ job'.at = job.at /\ job'.tasks = job.tasks /\ job'.pause = job.pause
        /\ job'.rows = job.rows /\ job'.ran = job.ran
        /\ watcher' \in Watchers /\ watcher'.at = "poll" /\ watcher'.seen = watcher.seen
    BY <1>1, <1>3 DEF Jobs, Workers, Watchers
  <2>3. GateTypes' /\ GradesKept' /\ LookedAtGate' /\ PastIsLast'
    BY <1>1, <1>3, <2>2 DEF GateInv, GateTypes, GradesKept, LookedAtGate, PastIsLast
  <2>4. Phases'
    BY <1>1, <1>3, <2>2 DEF GateInv, Phases, Live
  <2>5. RowsInOrder'
    BY <1>1, <1>3, <2>2 DEF GateInv, RowsInOrder, Live, Stream!Wanted
  <2>6. PauseIsGate'
    <3>1. job.continue = "none" /\ watcher.seen = job.pause
      BY <1>1 DEF GateInv, PauseIsGate, Phases
    <3> QED BY <1>1, <1>3, <2>2, <3>1 DEF GateInv, PauseIsGate, Watchers
  <2> QED BY <2>3, <2>4, <2>5, <2>6 DEF GateInv
<1> QED BY <1>2, <1>3 DEF Stream!Answer

(* The watcher leaves at a cancellation, and the worker reads the rest. *)
LEMMA NoticeGate == Stream!GateAssumption /\ GateInv /\ Stream!Notice => GateInv'
<1> SUFFICES ASSUME Stream!GateAssumption, GateInv, Stream!Notice PROVE GateInv'
  OBVIOUS
<1>1. /\ worker.at = "run" /\ watcher.at = "poll" /\ UNCHANGED <<Stream!files, worker, graded, judge, clock>>
      /\ watcher' = [watcher EXCEPT !.at = "off"] /\ watcher \in Watchers /\ job \in Jobs
  BY DEF Stream!Notice, GateInv, GateTypes
<1>2. PICK touched \in BOOLEAN : job' = [job EXCEPT !.cancel = @ \/ touched]
  BY DEF Stream!Notice
<1>3. SameRows
  BY <1>1, <1>2 DEF SameRows, Jobs
<1>4. watcher' \in Watchers /\ watcher'.at = "off" /\ watcher'.seen = watcher.seen
  BY <1>1 DEF Watchers
<1>5. GateTypes' /\ GradesKept' /\ LookedAtGate' /\ PastIsLast'
  BY <1>1, <1>3, <1>4 DEF Stream!files, SameRows, GateInv, GateTypes, GradesKept, LookedAtGate, PastIsLast
<1>6. Phases'
  BY <1>1, <1>3, <1>4 DEF SameRows, GateInv, Phases
<1>7. RowsInOrder'
  BY <1>1, <1>3, <1>4 DEF Stream!files, SameRows, GateInv, RowsInOrder, Live, Stream!Wanted
<1>8. PauseIsGate'
  BY <1>1, <1>3, <1>4 DEF Stream!files, SameRows, GateInv, PauseIsGate
<1> QED BY <1>5, <1>6, <1>7, <1>8 DEF GateInv

(* Steps that change where the worker is, and nothing of the attempt. *)
LEMMA MovedGate ==
  ASSUME Stream!GateAssumption, GateInv, worker.at # "idle", SameAttempt, worker'.look = worker.look,
         UNCHANGED <<Stream!files, graded, judge, job, clock>>,
         watcher' \in Watchers, watcher'.seen = watcher.seen,
         watcher'.at \in {"off", "poll"}, worker'.at \notin {"idle", "cached"}, Live' => Live,
         Phases'
  PROVE  GateInv'
<1>1. GateTypes'
  BY DEF Stream!files, GateInv, GateTypes, SameAttempt
<1>2. GradesKept' /\ LookedAtGate' /\ PastIsLast'
  BY DEF Stream!files, SameAttempt, GateInv, GradesKept, LookedAtGate, PastIsLast
<1>3. RowsInOrder'
  BY DEF Stream!files, SameAttempt, GateInv, RowsInOrder
<1>4. PauseIsGate'
  BY DEF Stream!files, SameAttempt, GateInv, PauseIsGate
<1> QED BY <1>1, <1>2, <1>3, <1>4 DEF GateInv

LEMMA JoinGate == Stream!GateAssumption /\ GateInv /\ Stream!Join => GateInv'
<1> SUFFICES ASSUME Stream!GateAssumption, GateInv, Stream!Join PROVE GateInv'
  OBVIOUS
<1>1. /\ worker.at = "run" /\ job.at = "exited" /\ watcher.at \in {"off", "poll"}
      /\ UNCHANGED <<Stream!files, graded, judge, job, clock>> /\ worker \in Workers /\ watcher \in Watchers
      /\ job # Stream!NoJob
  BY DEF Stream!Join, GateInv, GateTypes, Stream!NoJob
<1>2. CASE worker.error = "none"
  <2>1. worker' = [worker EXCEPT !.at = "rest"] /\ watcher' = [watcher EXCEPT !.at = "poll"]
    BY <1>2 DEF Stream!Join
  <2>2. /\ SameAttempt /\ worker'.look = worker.look /\ worker'.at = "rest" /\ worker'.error = "none"
        /\ watcher' \in Watchers /\ watcher'.seen = watcher.seen /\ watcher'.at = "poll" /\ Live /\ Live'
    BY <1>1, <1>2, <2>1 DEF SameAttempt, Workers, Watchers, Stream!Wanted, Live
  <2>3. Phases'
    BY <1>1, <2>2 DEF GateInv, Phases
  <2> QED BY <1>1, <2>2, <2>3, MovedGate
<1>3. CASE worker.error # "none"
  <2>1. worker' = [worker EXCEPT !.at = "fail"] /\ watcher' = watcher
    BY <1>3 DEF Stream!Join
  <2>2. /\ SameAttempt /\ worker'.look = worker.look /\ worker'.at = "fail" /\ ~ Live /\ ~ Live'
    BY <1>1, <1>3, <2>1 DEF SameAttempt, Workers, Watchers, Stream!Wanted, Live
  <2>3. Phases'
    BY <1>1, <2>1, <2>2 DEF GateInv, Phases
  <2> QED BY <1>1, <2>1, <2>2, <2>3, MovedGate
<1> QED BY <1>2, <1>3

LEMMA StatusGate == Stream!GateAssumption /\ GateInv /\ Stream!Status => GateInv'
<1> SUFFICES ASSUME Stream!GateAssumption, GateInv, Stream!Status PROVE GateInv'
  OBVIOUS
<1>1. /\ worker.at = "rest" /\ watcher.at = "poll" /\ watcher.seen = job.rows
      /\ UNCHANGED <<Stream!files, graded, judge, watcher, job, clock>> /\ worker \in Workers /\ watcher \in Watchers
      /\ worker' \in {[worker EXCEPT !.at = "fail", !.error = "gpu"], [worker EXCEPT !.at = "drain"]}
  BY DEF Stream!Status, GateInv, GateTypes
<1>2. /\ SameAttempt /\ worker'.look = worker.look /\ worker'.at \in {"fail", "drain"} /\ ~ Live'
  BY <1>1 DEF SameAttempt, Workers, Stream!Wanted, Live, Errors
<1>3. Phases'
  BY <1>1, <1>2 DEF GateInv, Phases
<1> QED BY <1>1, <1>2, <1>3, MovedGate

LEMMA FailGate == Stream!GateAssumption /\ GateInv /\ Stream!Fail => GateInv'
<1> SUFFICES ASSUME Stream!GateAssumption, GateInv, Stream!Fail PROVE GateInv'
  OBVIOUS
<1>1. /\ Stream!Over /\ UNCHANGED <<progress, score, attempts>> /\ progress \in 0 .. Clips
      /\ kept \subseteq Stream!Clip /\ job.tasks \in Seq(Stream!Clip) /\ job.rows \in Nat /\ job.rows <= Len(job.tasks)
      /\ score \in {"none", "early", "full"} /\ (score # "none" => progress >= Gate)
  BY DEF Stream!Fail, GateInv, GateTypes, Jobs, RowsInOrder, LookedAtGate
<1>2. PICK readable \in BOOLEAN :
        kept' = IF readable THEN kept \cup { job.tasks[i] : i \in 1 .. job.rows } ELSE kept
  BY DEF Stream!Fail
<1>3. CASE readable
  <2>1. kept' = kept \cup { job.tasks[i] : i \in 1 .. job.rows }
    BY <1>2, <1>3
  <2>5. progress' \in Nat /\ progress' >= progress /\ job.rows <= job.rows
    BY <1>1
  <2>2. PastIsLast'
    BY <1>1, <2>1, <2>5, PastKept
  <2>3. \A i \in 1 .. job.rows : job.tasks[i] \in Stream!Clip
    BY <1>1
  <2>4. kept' \subseteq Stream!Clip
    BY <1>1, <2>1, <2>3
  <2> QED BY <1>1, <2>2, <2>4, OverStep
<1>4. CASE ~ readable
  <2>1. kept' = kept
    BY <1>2, <1>4
  <2>2. PastIsLast'
    BY <1>1, <2>1 DEF GateInv, PastIsLast
  <2> QED BY <1>1, <2>1, <2>2, OverStep
<1> QED BY <1>3, <1>4

LEMMA CrashGate == Stream!GateAssumption /\ GateInv /\ Stream!Crash => GateInv'
<1> SUFFICES ASSUME Stream!GateAssumption, GateInv, Stream!Crash PROVE GateInv'
  OBVIOUS
<1>1. Stream!Over /\ UNCHANGED <<kept, progress, score, attempts>>
  BY DEF Stream!Crash, Stream!files
<1>2. PastIsLast'
  BY <1>1 DEF GateInv, PastIsLast
<1> QED BY <1>1, <1>2, OverStep DEF GateInv, GateTypes, LookedAtGate


LEMMA SettleGate == Stream!GateAssumption /\ GateInv /\ Stream!Settle => GateInv'
<1> SUFFICES ASSUME Stream!GateAssumption, GateInv, Stream!Settle PROVE GateInv'
  OBVIOUS
<1>1. /\ worker.at = "drain" /\ Stream!Over /\ UNCHANGED <<kept, attempts>>
      /\ Clips \in Nat /\ Gate \in Nat /\ Gate < Clips /\ PerVideo \in Nat \ {0} /\ Clips % PerVideo = 0
      /\ graded \in 0 .. Clips /\ progress \in 0 .. Clips /\ progress <= graded
      /\ kept \subseteq Stream!Clip /\ score \in {"none", "early", "full"}
      /\ worker.look # "none" \/ score # "none" => progress >= Gate
  BY DEF Stream!Settle, Stream!GateAssumption, GateInv, GateTypes, GradesKept, LookedAtGate
<1>2. Stream!Drained(judge) \in graded .. Clips
  BY <1>1, DrainedAt
<1>3. PICK k \in graded .. Clips :
        /\ progress' = Stream!Max({progress, k - (k % PerVideo)})
        /\ score' \in {score, "early", "full"} /\ (score' = "early" => worker.look = "stop" \/ score' = score)
        /\ (score' = "full" => k = Clips \/ score' = score)
  <2>1. CASE Stream!Stopped
    <3>1. PICK k \in Stream!Undrained : progress' = Stream!Saved(k)
      BY <2>1 DEF Stream!Settle
    <3>2. k \in graded .. Clips
      BY <1>1, <1>2, <3>1 DEF Stream!Undrained
    <3>3. score' = score
      BY <2>1 DEF Stream!Settle
    <3> QED BY <3>1, <3>2, <3>3 DEF Stream!Saved
  <2>2. CASE ~ Stream!Stopped
    <3>1. /\ progress' = Stream!Saved(Stream!Drained(judge))
          /\ score' \in {score, "early", "full"} /\ (score' = "early" => worker.look = "stop" \/ score' = score)
          /\ (score' = "full" => Stream!Drained(judge) = Clips \/ score' = score)
      BY <2>2 DEF Stream!Settle
    <3> QED BY <1>2, <3>1 DEF Stream!Saved
  <2> QED BY <2>1, <2>2
<1>4. k \in Nat /\ progress \in Nat /\ progress <= k
  BY <1>1, <1>3
<1>5. progress' \in progress .. k /\ (k % PerVideo = 0 => progress' = k)
  <2>1. PerVideo \in Nat \ {0} /\ progress' = Stream!Max({progress, k - (k % PerVideo)})
    BY <1>1, <1>3
  <2> QED BY <1>4, <2>1, SavedAt
<1>6. progress' \in 0 .. Clips /\ progress' >= progress /\ (k = Clips => progress' = Clips)
  BY <1>1, <1>3, <1>4, <1>5
<1>7. score' # "none" => progress' >= Gate
  BY <1>1, <1>3, <1>6
<1>8. PastIsLast'
  BY <1>1, <1>6 DEF GateInv, PastIsLast
<1>9. score' \in {"none", "early", "full"}
  BY <1>1, <1>3
<1> QED BY <1>1, <1>6, <1>7, <1>8, <1>9, OverStep

LEMMA JudgeGate ==
  ASSUME Stream!GateAssumption, GateInv, NEW c \in Stream!Clip, Stream!Judge(c)
  PROVE  GateInv'
<1>1. PICK grade \in {"graded", "failed"} : judge' = [judge EXCEPT ![c] = grade]
  BY DEF Stream!Judge
<1>2. /\ judge[c] = "judging" /\ UNCHANGED <<Stream!files, worker, graded, watcher, job, clock>>
      /\ judge \in [Stream!Clip -> {"none", "judging", "graded", "failed"}]
  BY DEF Stream!Judge, GateInv, GateTypes
<1>3. /\ judge' \in [Stream!Clip -> {"none", "judging", "graded", "failed"}]
      /\ \A d \in Stream!Clip : judge'[d] = IF d = c THEN grade ELSE judge[d]
  BY <1>1, <1>2
<1>4. worker.at # "idle"
  BY <1>2 DEF GateInv, Phases, Stream!Unjudged
<1>5. GateTypes' /\ LookedAtGate' /\ PastIsLast' /\ PauseIsGate'
  BY <1>2, <1>3 DEF Stream!files, GateInv, GateTypes, LookedAtGate, PastIsLast, PauseIsGate
<1>6. Phases'
  BY <1>2, <1>4 DEF GateInv, Phases, Live
<1>7. GradesKept'
  <2>1. /\ worker.first \in Nat /\ graded \in 0 .. Clips /\ Clips \in Nat
        /\ \A d \in worker.first + 1 .. graded : judge[d] = "graded"
        /\ \A d \in Stream!Clip : judge[d] # "none" => d \in kept
    BY <1>4 DEF GateInv, GateTypes, GradesKept, Workers, Stream!GateAssumption
  <2>2. \A d \in worker.first + 1 .. graded : d \in Stream!Clip /\ d # c
    BY <1>2, <2>1 DEF Stream!Clip
  <2>3. \A d \in worker.first + 1 .. graded : judge'[d] = "graded"
    BY <1>3, <2>1, <2>2
  <2>4. \A d \in Stream!Clip : judge'[d] # "none" => d \in kept
    BY <1>2, <1>3, <2>1
  <2> QED BY <1>2, <1>4, <2>3, <2>4 DEF Stream!files, GateInv, GradesKept
<1>8. RowsInOrder'
  <2>1. Live => \A d \in Stream!Wanted : d \in kept => judge'[d] # "none"
    <3>1. \A d \in Stream!Wanted : d \in Stream!Clip
      BY DEF Stream!Wanted, Stream!Clip, GateInv, GateTypes, Workers
    <3> QED BY <1>1, <1>3, <3>1 DEF GateInv, RowsInOrder
  <2> QED BY <1>2, <2>1 DEF Stream!files, GateInv, RowsInOrder, Live, Stream!Wanted
<1> QED BY <1>5, <1>6, <1>7, <1>8 DEF GateInv

(* The supervisor asks the rows in order, and waits at the gate.           *)
LEMMA SuperviseGate == Stream!GateAssumption /\ GateInv /\ Stream!Supervise => GateInv'
<1> SUFFICES ASSUME Stream!GateAssumption, GateInv, Stream!Supervise PROVE GateInv'
  OBVIOUS
<1>1. /\ job.at = "run" /\ UNCHANGED <<Stream!files, Stream!memory, clock>> /\ job \in Jobs /\ worker.at = "run"
      /\ job.rows \in Nat /\ job.ran = job.rows /\ job.rows <= Len(job.tasks) /\ job.pause \in Nat
      /\ Len(job.tasks) \in Nat /\ watcher.seen \in Nat /\ watcher.seen <= job.rows
      /\ job.pause > 0 /\ job.continue # "go" => job.rows <= job.pause
  <2>1. job \in Jobs /\ job.at = "run" /\ watcher \in Watchers
    BY DEF Stream!Supervise, GateInv, GateTypes
  <2> QED BY <2>1 DEF Stream!Supervise, GateInv, Phases, RowsInOrder, PauseIsGate, Jobs, Watchers
<1>2. /\ job' \in Jobs /\ job'.tasks = job.tasks /\ job'.pause = job.pause /\ job'.continue = job.continue
      /\ job'.rows \in Nat /\ job'.ran \in Nat
      /\ job.rows <= job'.rows /\ job'.rows <= Len(job.tasks) /\ job'.ran <= job'.rows
      /\ \/ job'.at = "run" /\ job'.rows = job.rows + 1 /\ job'.ran = job.rows + 1 /\ Stream!PastGate
         \/ job'.at = "exited" /\ job'.ran = job.ran
  <2>1. CASE Stream!PastGate /\ job' = [job EXCEPT !.rows = @ + 1, !.ran = @ + 1]
    <3>1. /\ job' \in Jobs /\ job'.tasks = job.tasks /\ job'.pause = job.pause /\ job'.continue = job.continue
          /\ job'.at = "run" /\ job'.rows = job.rows + 1 /\ job'.ran = job.rows + 1
      <4>1. job \in Jobs /\ job' = [job EXCEPT !.rows = job.rows + 1, !.ran = job.ran + 1]
        BY <1>1, <2>1
      <4>2. job.rows + 1 \in Nat /\ job.ran + 1 = job.rows + 1
        BY <1>1
      <4> QED BY <1>1, <4>1, <4>2 DEF Jobs
    <3>2. job.rows < Len(job.tasks)
      BY <2>1 DEF Stream!PastGate, Stream!Left
    <3> QED BY <1>1, <2>1, <3>1, <3>2
  <2>2. ASSUME NEW code \in {0, 2, 3, 75}, NEW asked \in {job.rows, Len(job.tasks)}, Stream!Exit(code, asked)
        PROVE  /\ job' \in Jobs /\ job'.tasks = job.tasks /\ job'.pause = job.pause /\ job'.continue = job.continue
               /\ job'.rows = asked /\ job'.at = "exited" /\ job'.ran = job.ran
    <3>1. job' = [job EXCEPT !.at = "exited", !.code = code, !.rows = asked] /\ asked \in Nat
      BY <1>1, <2>2 DEF Stream!Exit
    <3> QED BY <1>1, <3>1 DEF Jobs
  <2>3. CASE \E code \in {0, 2, 3, 75}, asked \in {job.rows, Len(job.tasks)} : Stream!Exit(code, asked)
    <3>1. PICK code \in {0, 2, 3, 75}, asked \in {job.rows, Len(job.tasks)} : Stream!Exit(code, asked)
      BY <2>3
    <3> QED BY <1>1, <2>2, <3>1
  <2>4. \/ Stream!PastGate /\ job' = [job EXCEPT !.rows = @ + 1, !.ran = @ + 1]
        \/ \E code \in {0, 2, 3, 75}, asked \in {job.rows, Len(job.tasks)} : Stream!Exit(code, asked)
    BY DEF Stream!Supervise
  <2> QED BY <2>1, <2>3, <2>4
<1>3. GateTypes' /\ GradesKept' /\ LookedAtGate' /\ PastIsLast'
  BY <1>1, <1>2 DEF Stream!files, Stream!memory, GateInv, GateTypes, GradesKept, LookedAtGate, PastIsLast
<1>4. Phases'
  BY <1>1, <1>2 DEF Stream!memory, GateInv, Phases, Live
<1>5. RowsInOrder'
  <2>1. /\ job'.rows <= Len(job'.tasks) /\ job'.ran <= job'.rows /\ watcher.seen <= job'.rows
        /\ job'.at = "run" => job'.ran = job'.rows
    BY <1>1, <1>2
  <2>2. \A i \in 1 .. Len(job'.tasks) : job'.tasks[i] \in kept => i <= job'.rows
    BY <1>1, <1>2 DEF GateInv, RowsInOrder
  <2>3. kept' = kept /\ worker' = worker /\ judge' = judge /\ watcher' = watcher
    BY <1>1 DEF Stream!files, Stream!memory
  <2> QED BY <1>1, <1>2, <2>1, <2>2, <2>3 DEF GateInv, RowsInOrder, Live, Stream!Wanted
<1>6. PauseIsGate'
  <2>1. job'.pause > 0 /\ job'.continue # "go" => job'.ran <= job'.pause
    BY <1>1, <1>2 DEF Stream!PastGate, Stream!AtGate
  <2>2. kept' = kept /\ worker' = worker /\ watcher' = watcher
    BY <1>1 DEF Stream!files, Stream!memory
  <2> QED BY <1>1, <1>2, <2>1, <2>2 DEF GateInv, PauseIsGate
<1> QED BY <1>3, <1>4, <1>5, <1>6 DEF GateInv

LEMMA ClockGate ==
  ASSUME Stream!GateAssumption, GateInv, UNCHANGED <<Stream!files, Stream!memory, job>>, clock' \in {"open", "closed", "late"}
  PROVE  GateInv'
BY DEF Stream!files, Stream!memory, GateInv, GateTypes, Phases, Live, GradesKept, LookedAtGate, PastIsLast, RowsInOrder, PauseIsGate, Stream!Wanted

LEMMA GateSteps == Stream!GateAssumption /\ GateInv /\ [Stream!Next]_Stream!vars => GateInv'
<1> SUFFICES ASSUME Stream!GateAssumption, GateInv, [Stream!Next]_Stream!vars PROVE GateInv'
  OBVIOUS
<1>1. CASE Stream!Evaluate
  BY <1>1, DeliverCachedGate, StartJobGate, JoinGate, StatusGate, FailGate, SettleGate DEF Stream!Evaluate
<1>2. CASE Stream!Watch
  BY <1>2, DeliverGate, LookGate, AnswerGate, NoticeGate DEF Stream!Watch
<1>3. CASE Stream!CloseWindow \/ Stream!Deadline
  BY <1>3, ClockGate DEF Stream!CloseWindow, Stream!Deadline
<1>4. CASE UNCHANGED Stream!vars
  <2>1. clock \in {"open", "closed", "late"}
    BY DEF GateInv, GateTypes
  <2> QED BY <1>4, <2>1, ClockGate DEF Stream!vars
<1> QED BY <1>1, <1>2, <1>3, <1>4, BeginGate, JudgeGate, SuperviseGate, CrashGate DEF Stream!Next

(* For every number of clips, every gate and whatever failed before: the   *)
(* early-stop look never finds anything but the grades of the gate, and a  *)
(* job that still has a clip of the gate to ask asks none past it before   *)
(* the look has said go.  A job that has none left never looks.            *)
THEOREM LookAtGate ==
  ASSUME Stream!GateAssumption
  PROVE  Stream!Spec => []GateAtPrefix
<1>1. GateInv => GateAtPrefix
  <2> SUFFICES ASSUME GateInv PROVE GateAtPrefix
    OBVIOUS
  <2>1. worker.error # "early_stop_prefix_incomplete"
    BY DEF GateInv, GateTypes, Workers, Errors
  <2>2. ASSUME NEW i \in 1 .. job.ran, job.tasks[i] > Gate, job.continue # "go", worker.gated
        PROVE  job.tasks[1] > Gate
    <3>1. /\ job.ran \in Nat /\ job.rows \in Nat /\ Len(job.tasks) \in Nat /\ job.pause \in Nat
          /\ Gate \in Nat /\ job.tasks \in Seq(Stream!Clip)
      BY DEF GateInv, GateTypes, Jobs, Stream!GateAssumption
    <3>2. i \in 1 .. Len(job.tasks) /\ 1 \in 1 .. Len(job.tasks)
      BY <2>2, <3>1 DEF GateInv, RowsInOrder
    <3>3. CASE job.pause > 0
      <4>1. i <= job.pause
        BY <2>2, <3>1, <3>2, <3>3 DEF GateInv, PauseIsGate
      <4>2. job.tasks[i] <= Gate
        BY <3>2, <3>3, <4>1 DEF GateInv, PauseIsGate
      <4>3. job.tasks[i] \in Stream!Clip
        BY <3>1, <3>2
      <4>4. Stream!Clip \subseteq Nat
        BY DEF Stream!Clip
      <4> DEFINE t == job.tasks[i]
      <4>5. t \in Nat /\ t > Gate /\ t <= Gate
        BY <2>2, <4>2, <4>3, <4>4
      <4> HIDE DEF t
      <4> QED BY <3>1, <4>5
    <3>4. CASE job.pause = 0
      BY <2>2, <3>2, <3>4 DEF GateInv, PauseIsGate
    <3> QED BY <3>1, <3>3, <3>4
  <2> QED BY <2>1, <2>2 DEF GateAtPrefix
<1> QED BY <1>1, InitGate, GateSteps, PTL DEF Stream!Spec

(* No clip whose answer is on disk is ever put to the model again.         *)
THEOREM NoSecondChance ==
  ASSUME Stream!GateAssumption
  PROVE  Stream!Spec => NoSecondAnswer
<1>1. GateInv /\ GateInv' /\ [Stream!Next]_Stream!vars => [job'.ran > job.ran => job.tasks[job'.ran] \notin kept]_<<kept, job>>
  <2> SUFFICES ASSUME GateInv, GateInv', [Stream!Next]_Stream!vars, job'.ran > job.ran
               PROVE  job.tasks[job'.ran] \notin kept
    OBVIOUS
  <2>1. job.ran \in Nat /\ job'.ran \in Nat /\ job.rows \in Nat /\ Len(job.tasks) \in Nat
    BY DEF GateInv, GateTypes, Jobs
  <2>2. job' # job /\ job' # Stream!NoJob
    BY <2>1 DEF Stream!NoJob
  <2>3. ~ Stream!Over
    BY <2>2 DEF Stream!Over
  <2>4. ASSUME NEW error, Stream!Raises(error)
        PROVE  FALSE
    <3>1. job' = job \/ \E touched \in BOOLEAN : job' = [job EXCEPT !.cancel = @ \/ touched]
      BY <2>4 DEF Stream!Raises
    <3> QED BY <2>1, <3>1 DEF GateInv, GateTypes, Jobs
  <2>5. ~ Stream!StartJob
    <3>1. ASSUME Stream!StartJob
          PROVE  job'.ran = 0
      <4>1. job' = [Stream!NoJob EXCEPT !.at = "run", !.tasks = Stream!InOrder(Stream!Requested), !.pause = Stream!Pause]
        BY <2>2, <3>1 DEF Stream!StartJob
      <4> QED BY <4>1 DEF Stream!NoJob
    <3> QED BY <2>1, <3>1
  <2>6. ~ Stream!Evaluate
    BY <2>2, <2>3, <2>5 DEF Stream!Evaluate, Stream!DeliverCached, Stream!Join, Stream!Status, Stream!Fail, Stream!Settle
  <2>7. ~ Stream!Deliver /\ ~ Stream!Look
    BY <2>2, <2>4 DEF Stream!Deliver, Stream!Look
  <2>8. ~ Stream!Answer /\ ~ Stream!Notice
    <3>1. ASSUME Stream!Answer PROVE FALSE
      <4>1. job' = [job EXCEPT !.continue = worker.look]
        BY <2>4, <3>1 DEF Stream!Answer
      <4> QED BY <2>1, <4>1 DEF GateInv, GateTypes, Jobs
    <3>2. ASSUME Stream!Notice PROVE FALSE
      <4>1. PICK touched \in BOOLEAN : job' = [job EXCEPT !.cancel = @ \/ touched]
        BY <3>2 DEF Stream!Notice
      <4> QED BY <2>1, <4>1 DEF GateInv, GateTypes, Jobs
    <3> QED BY <3>1, <3>2
  <2>9. Stream!Supervise
    <3>1. ~ Stream!Begin /\ ~ (\E c \in Stream!Clip : Stream!Judge(c)) /\ ~ Stream!CloseWindow /\ ~ Stream!Deadline /\ ~ Stream!Crash /\ ~ UNCHANGED Stream!vars
      BY <2>2, <2>3 DEF Stream!Begin, Stream!Judge, Stream!CloseWindow, Stream!Deadline, Stream!Crash, Stream!vars
    <3> QED BY <2>6, <2>7, <2>8, <3>1 DEF Stream!Next, Stream!Watch
  <2>10. job'.ran = job.rows + 1 /\ job'.ran <= Len(job.tasks) /\ job.at = "run"
    <3>1. job.at = "run" /\ job.ran = job.rows /\ job.rows <= Len(job.tasks) /\ job \in Jobs
      BY <2>9 DEF Stream!Supervise, GateInv, GateTypes, RowsInOrder
    <3>2. \A code, asked : Stream!Exit(code, asked) => job'.ran = job.ran
      BY <3>1 DEF Stream!Exit, Jobs
    <3>3. Stream!PastGate /\ job' = [job EXCEPT !.rows = @ + 1, !.ran = @ + 1]
      BY <2>1, <2>9, <3>2 DEF Stream!Supervise
    <3> QED BY <2>1, <3>1, <3>3 DEF Stream!PastGate, Stream!Left, Jobs
  <2>11. job'.ran \in 1 .. Len(job.tasks) /\ ~ (job'.ran <= job.rows)
    BY <2>1, <2>10
  <2> QED BY <2>11 DEF GateInv, RowsInOrder
<1> QED BY <1>1, InitGate, GateSteps, PTL DEF Stream!Spec, NoSecondAnswer

-----------------------------------------------------------------------------
(* Futility: the early-stop look, for every batch, every king and scale.   *)

(* Rounding. *)
LEMMA Division ==
  ASSUME NEW a \in Nat, NEW b \in Nat \ {0}
  PROVE  a \div b \in Nat /\ b * (a \div b) <= a /\ a < b * (a \div b) + b
OBVIOUS

LEMMA Monotone ==
  ASSUME NEW a \in Int, NEW b \in Int, NEW c \in Nat, a <= b
  PROVE  a * c <= b * c
OBVIOUS

LEMMA RoundedUp ==
  ASSUME FutilityAssumption, NEW t \in Nat, NEW u \in Nat, t <= u
  PROVE  Quantized(t) \in Nat /\ UpperUnits(u) \in Nat /\ Quantized(t) <= UpperUnits(u)
<1> DEFINE q == Quantized(t)
           w == UpperUnits(u)
<1>1. Most \in Nat \ {0} /\ 2 * Most \in Nat \ {0}
  BY DEF FutilityAssumption, Most
<1>2. t * Scale \in Nat /\ u * Scale \in Nat /\ t * Scale <= u * Scale /\ 2 * t * Scale = 2 * (t * Scale)
  BY Monotone DEF FutilityAssumption
<1> DEFINE x == t * Scale
           y == u * Scale
<1>3. q \in Nat /\ (2 * Most) * q <= 2 * x + Most
  <2>1. 2 * t * Scale + Most \in Nat /\ 2 * t * Scale + Most = 2 * x + Most
    BY <1>1, <1>2
  <2> QED BY <1>1, <2>1, Division DEF Quantized
<1>4. w \in Nat /\ y + Most - 1 < Most * w + Most
  <2>1. y + Most - 1 \in Nat
    BY <1>1, <1>2
  <2> QED BY <1>1, <2>1, Division DEF UpperUnits
<1> DEFINE a == Most * w
           b == Most * q
<1>5. a \in Nat /\ b \in Nat /\ (2 * Most) * q = 2 * b
  BY <1>1, <1>3, <1>4
<1> HIDE DEF x, y, q, w
<1>6. y <= a
  BY <1>1, <1>2, <1>4, <1>5 DEF x, y
<1>7. 2 * b <= 2 * a + Most
  BY <1>1, <1>2, <1>3, <1>5, <1>6 DEF x, y
<1>8. CASE ~ (q <= w)
  <2>1. (w + 1) * Most <= q * Most
    BY <1>1, <1>3, <1>4, <1>8, Monotone
  <2>2. a + Most <= b
    BY <1>1, <1>3, <1>4, <2>1
  <2> HIDE DEF a, b
  <2> QED BY <1>1, <1>5, <1>7, <2>2
<1> QED BY <1>3, <1>4, <1>8 DEF q, w

(* Choose3 counts. *)
LEMMA ThreesOf ==
  ASSUME NEW X, IsFiniteSet(X)
  PROVE  Choose3(Cardinality(X)) = Cardinality(kSubset(3, X))
<1> DEFINE n == Cardinality(X)
           c == Cardinality(kSubset(3, X))
<1>1. n \in Nat /\ c \in Nat /\ 6 * c = n * (n - 1) * (n - 2)
  BY Threes, SubsetsFinite, FS_CardinalityType
<1> SUFFICES Choose3(n) = c
  OBVIOUS
<1> HIDE DEF n, c
<1>2. CASE n < 3
  <2>1. n = 0 \/ n = 1 \/ n = 2
    BY <1>1, <1>2
  <2>2. n * (n - 1) * (n - 2) = 0
    BY <2>1
  <2> QED BY <1>1, <1>2, <2>2 DEF Choose3
<1>3. CASE ~ (n < 3)
  <2>1. (6 * c) \div 6 = c
    BY <1>1
  <2> QED BY <1>1, <1>3, <2>1 DEF Choose3
<1> QED BY <1>2, <1>3

(* The videos are numbered from the best on. *)
Rated ==
  /\ reward \in [Rank -> 0 .. Levels]
  /\ \A v, w \in Rank : v < w => reward[v] >= reward[w]

LEMMA RankFinite ==
  ASSUME FutilityAssumption
  PROVE  IsFiniteSet(Rank) /\ Cardinality(Rank) = Planned
         /\ \A S \in SUBSET Rank : IsFiniteSet(S) /\ Cardinality(S) \in Nat
<1>1. 1 \in Int /\ Planned \in Int /\ Planned >= 3
  BY DEF FutilityAssumption
<1>2. IsFiniteSet(Rank) /\ Cardinality(Rank) = Planned
  <2>1. IsFiniteSet(1 .. Planned) /\ Cardinality(1 .. Planned) = IF 1 > Planned THEN 0 ELSE Planned - 1 + 1
    BY <1>1, FS_Interval
  <2> QED BY <1>1, <2>1 DEF Rank
<1> QED BY <1>2, FS_Subset, FS_CardinalityType

LEMMA MissedFound ==
  ASSUME FutilityAssumption
  PROVE  Missed \in Rank /\ Choose3(Planned - Missed) * 10 <= Choose3(Planned)
<1> DEFINE K == { k \in Rank : Choose3(Planned - k) * 10 <= Choose3(Planned) }
<1>1. Choose3(Planned) \in Nat
  BY RankFinite, ThreesOf, SubsetsFinite
<1>2. Choose3(Planned - Planned) = 0
  BY DEF FutilityAssumption, Choose3
<1>3. Planned \in Rank
  BY DEF FutilityAssumption, Rank
<1>4. Planned \in K
  BY <1>1, <1>2, <1>3
<1>5. K \in SUBSET Nat
  BY DEF Rank
<1>6. \E n \in K : \A m \in K : n <= m
  BY <1>4, <1>5, LeastOf
<1>7. Missed = CHOOSE n \in K : \A m \in K : n <= m
  BY DEF Missed, Min
<1> HIDE DEF K
<1>8. Missed \in K
  BY <1>6, <1>7
<1> QED BY <1>8 DEF K

LEMMA BestSeen ==
  ASSUME FutilityAssumption, Rated, NEW S \in SUBSET Rank, NEW v \in S
  PROVE  LET best == Max({ reward[w] : w \in S }) IN best \in Nat /\ reward[v] <= best
<1> DEFINE R == { reward[w] : w \in S }
           L == { Levels - r : r \in R }
<1>1. R \in SUBSET (0 .. Levels) /\ reward[v] \in R
  BY DEF Rated
<1>2. L \in SUBSET Nat /\ L # {}
  BY <1>1 DEF FutilityAssumption
<1>3. PICK n \in L : \A m \in L : n <= m
  BY <1>2, LeastOf
<1>4. PICK r \in R : n = Levels - r
  BY <1>3
<1>5. \A q \in R : r >= q
  <2> TAKE q \in R
  <2>1. Levels - q \in L
    OBVIOUS
  <2>2. Levels - r <= Levels - q
    BY <1>3, <1>4, <2>1
  <2>3. q \in Nat /\ r \in Nat /\ Levels \in Nat
    BY <1>1 DEF FutilityAssumption
  <2> HIDE DEF L, R
  <2> QED BY <2>2, <2>3
<1> HIDE DEF R
<1>6. Max(R) \in R /\ \A q \in R : Max(R) >= q
  BY <1>5 DEF Max
<1>7. Max(R) \in 0 .. Levels /\ Max(R) >= reward[v] /\ reward[v] \in 0 .. Levels
  BY <1>1, <1>6
<1>8. Max(R) \in Nat /\ reward[v] <= Max(R)
  <2> HIDE DEF L
  <2> QED BY <1>7 DEF FutilityAssumption
<1> QED BY <1>8 DEF R

(* The deterministic bound: the videos not seen yet may all be perfect. *)
LEMMA CertainBound ==
  ASSUME FutilityAssumption, Rated, NEW S \in SUBSET Rank
  PROVE  Total(Rank) \in Nat /\ BestPossible(S) \in Nat /\ Total(Rank) <= BestPossible(S)
<1> DEFINE T == Rank \ S
<1>1. IsFiniteSet(S) /\ IsFiniteSet(T) /\ S \cap T = {} /\ S \cup T = Rank
  BY RankFinite
<1>2. \A x \in Rank : reward[x] \in 0 .. Levels /\ reward[x] \in Nat
  BY DEF Rated
<1>3. Total(Rank) = Total(S) + Total(T)
  <2>1. SumFunctionOnSet(reward, S \cup T) = SumFunctionOnSet(reward, S) + SumFunctionOnSet(reward, T)
    BY <1>1, <1>2, SumOfParts
  <2> QED BY <1>1, <2>1 DEF Total
<1>4. Total(Rank) \in Nat /\ Total(S) \in Nat /\ Total(T) \in Nat
  BY <1>1, <1>2, RankFinite, SumInNat DEF Total
<1>5. Total(T) <= Cardinality(T) * Levels
  BY <1>1, <1>2, SumBounded DEF Total, FutilityAssumption
<1>6. Cardinality(S) + Cardinality(T) = Planned /\ Cardinality(S) \in Nat /\ Cardinality(T) \in Nat
  <2>1. Cardinality(S \cup T) = Cardinality(S) + Cardinality(T) - Cardinality(S \cap T)
    BY <1>1, FS_Union
  <2>2. Cardinality(S) \in Nat /\ Cardinality(T) \in Nat /\ Cardinality(S \cap T) = 0
    BY <1>1, FS_EmptySet, FS_CardinalityType
  <2>3. Cardinality(S \cup T) = Planned
    BY <1>1, RankFinite
  <2> HIDE DEF T
  <2> QED BY <2>1, <2>2, <2>3
<1>7. Planned - Cardinality(S) = Cardinality(T)
  BY <1>6 DEF FutilityAssumption
<1>8. Cardinality(T) * Levels \in Nat
  BY <1>6 DEF FutilityAssumption
<1> HIDE DEF T
<1> QED BY <1>3, <1>4, <1>5, <1>7, <1>8 DEF BestPossible

(* The statistical bound, if one of the best videos was seen: the rest are  *)
(* not better than that one.                                               *)
LEMMA BoundOfBest ==
  ASSUME FutilityAssumption, Rated, NEW S \in SUBSET Rank, NEW v \in S, v <= Missed
  PROVE  Statistical(S) \in Nat /\ Total(Rank) <= Statistical(S)
<1> DEFINE A == 1 .. (Missed - 1)
           B == Missed .. Planned
           best == Max({ reward[w] : w \in S })
<1>1. Missed \in Nat /\ 1 <= Missed /\ Missed <= Planned /\ Planned \in Nat /\ Levels \in Nat
  BY MissedFound DEF FutilityAssumption, Rank
<1>2. IsFiniteSet(A) /\ Cardinality(A) = Missed - 1 /\ IsFiniteSet(B) /\ Cardinality(B) = Planned - Missed + 1
  <2>1. IsFiniteSet(A) /\ Cardinality(A) = IF 1 > Missed - 1 THEN 0 ELSE (Missed - 1) - 1 + 1
    BY <1>1, FS_Interval
  <2>2. IsFiniteSet(B) /\ Cardinality(B) = IF Missed > Planned THEN 0 ELSE Planned - Missed + 1
    BY <1>1, FS_Interval
  <2> QED BY <1>1, <2>1, <2>2
<1>3. A \cap B = {} /\ A \cup B = Rank
  BY <1>1 DEF Rank
<1>4. best \in Nat /\ reward[v] <= best
  BY BestSeen
<1>5. \A x \in A : reward[x] \in 0 .. Levels
  BY <1>3 DEF Rated
<1>6. ASSUME NEW x \in B PROVE reward[x] \in 0 .. best
  <2>1. x \in Rank /\ v \in Rank /\ reward[x] \in Nat /\ reward[v] \in Nat
    BY <1>3 DEF Rated
  <2>2. v = x \/ v < x
    BY <1>1, <1>6, <2>1 DEF Rank
  <2>3. reward[x] <= reward[v]
    BY <2>1, <2>2 DEF Rated
  <2> QED BY <1>4, <2>1, <2>3
<1>7. \A x \in A \cup B : reward[x] \in Nat
  BY <1>3 DEF Rated
<1> HIDE DEF best
<1>8. Total(Rank) = Total(A) + Total(B)
  <2> HIDE DEF A, B
  <2>1. SumFunctionOnSet(reward, A \cup B) = SumFunctionOnSet(reward, A) + SumFunctionOnSet(reward, B)
    BY <1>2, <1>3, <1>7, SumOfParts
  <2> QED BY <1>3, <2>1 DEF Total
<1>9. Total(A) \in Nat /\ Total(B) \in Nat
  BY <1>2, <1>7, SumInNat DEF Total
<1>10. Total(A) <= (Missed - 1) * Levels
  <2> HIDE DEF A
  <2>1. SumFunctionOnSet(reward, A) <= Cardinality(A) * Levels
    BY <1>1, <1>2, <1>5, SumBounded
  <2> QED BY <1>2, <2>1 DEF Total
<1>11. Total(B) <= (Planned - Missed + 1) * best
  <2> HIDE DEF B
  <2>1. SumFunctionOnSet(reward, B) <= Cardinality(B) * best
    BY <1>2, <1>4, <1>6, SumBounded
  <2> QED BY <1>2, <2>1 DEF Total
<1>12. (Missed - 1) * Levels \in Nat /\ (Planned - Missed + 1) * best \in Nat
  BY <1>1, <1>4
<1>13. Statistical(S) = (Missed - 1) * Levels + (Planned - Missed + 1) * best
  BY DEF Statistical, best
<1> HIDE DEF A, B
<1> QED BY <1>8, <1>9, <1>10, <1>11, <1>12, <1>13

(* A bound that holds does not stop a challenger that beats the king. *)
LEMMA BoundLetsGo ==
  ASSUME FutilityAssumption, king \in Int, NEW t \in Nat, NEW u \in Nat, t <= u, Clears(Quantized(t))
  PROVE  Clears(UpperUnits(u))
<1>1. Quantized(t) \in Nat /\ UpperUnits(u) \in Nat /\ Quantized(t) <= UpperUnits(u)
  BY RoundedUp
<1> QED BY <1>1 DEF Clears, FutilityAssumption

(* For every batch, every king, batch size, grain of the rewards and scale: *)
(* the certain bound never stops a challenger that beats the king, and the *)
(* statistical one in at most a tenth of the orders (stopping.futility).   *)
THEOREM LookIsHonest ==
  ASSUME FutilityAssumption, Rated, king \in Int
  PROVE  FutilityHonest
<1> SUFFICES ASSUME Clears(Quantized(Total(Rank)))
             PROVE  /\ Cardinality({ S \in Prefixes(3) : Verdict(S) # "go" }) * 10 <= Choose3(Planned)
                    /\ \A S \in SUBSET Rank \ {{}, Rank} : Verdict(S) # "best_possible"
  BY DEF FutilityHonest
<1>1. ASSUME NEW S \in SUBSET Rank, Method(S) = "best_possible" PROVE Verdict(S) = "go"
  <2>1. Upper(S) = BestPossible(S)
    BY <1>1 DEF Upper
  <2>2. Clears(UpperUnits(Upper(S)))
    BY <2>1, CertainBound, BoundLetsGo
  <2> QED BY <2>2 DEF Verdict
<1>2. ASSUME NEW S \in SUBSET Rank PROVE Verdict(S) # "best_possible"
  BY <1>1 DEF Verdict
<1> DEFINE Stops == { S \in Prefixes(3) : Verdict(S) # "go" }
           Rest == (Missed + 1) .. Planned
<1>3. Missed \in Nat /\ 1 <= Missed /\ Missed <= Planned /\ Planned \in Nat
      /\ Choose3(Planned - Missed) * 10 <= Choose3(Planned)
  BY MissedFound DEF FutilityAssumption, Rank
<1>4. ASSUME NEW S \in Stops PROVE S \in kSubset(3, Rest)
  <2>1. S \in SUBSET Rank /\ Cardinality(S) = 3 /\ Verdict(S) # "go"
    BY DEF Prefixes, kSubset
  <2>2. Upper(S) = Statistical(S)
    BY <1>1, <2>1 DEF Upper, Method
  <2>3. ASSUME NEW v \in S, v <= Missed PROVE FALSE
    <3>1. Statistical(S) \in Nat /\ Total(Rank) <= Statistical(S) /\ Total(Rank) \in Nat
      BY <2>1, <2>3, BoundOfBest, CertainBound
    <3>2. Clears(UpperUnits(Upper(S)))
      BY <2>2, <3>1, BoundLetsGo
    <3> QED BY <2>1, <3>2 DEF Verdict
  <2>4. ASSUME NEW v \in S PROVE v \in Rest
    <3>1. v \in Nat /\ v <= Planned
      BY <1>3, <2>1 DEF Rank
    <3> QED BY <1>3, <2>3, <3>1
  <2>5. S \in SUBSET Rest
    BY <2>4
  <2> QED BY <2>1, <2>5 DEF kSubset
<1>5. IsFiniteSet(Rest) /\ Cardinality(Rest) = Planned - Missed
  <2>1. IsFiniteSet(Rest) /\ Cardinality(Rest) = IF Missed + 1 > Planned THEN 0 ELSE Planned - (Missed + 1) + 1
    BY <1>3, FS_Interval
  <2> QED BY <1>3, <2>1
<1> HIDE DEF Stops, Rest
<1>6. IsFiniteSet(kSubset(3, Rest)) /\ Cardinality(kSubset(3, Rest)) \in Nat
      /\ Cardinality(kSubset(3, Rest)) = Choose3(Planned - Missed)
  BY <1>5, SubsetsFinite, ThreesOf
<1>7. Cardinality(Stops) \in Nat /\ Cardinality(Stops) <= Cardinality(kSubset(3, Rest))
  BY <1>4, <1>6, FS_Subset, FS_CardinalityType
<1>8. Choose3(Planned) \in Nat
  BY RankFinite, ThreesOf, SubsetsFinite
<1>9. Cardinality(Stops) * 10 <= Choose3(Planned)
  BY <1>3, <1>6, <1>7, <1>8
<1> QED BY <1>2, <1>9 DEF Stops

(* The same of every reachable look.                                        *)
THEOREM StopsAreHonest == FutilityAssumption => (Early!Spec => []FutilityHonest)
<1> SUFFICES ASSUME FutilityAssumption PROVE Early!Spec => []FutilityHonest
  OBVIOUS
<1>1. Early!Init => Rated /\ king \in Int
  BY DEF Early!Init, Early!Rank, Rank, Rated, FutilityAssumption
<1>2. Rated /\ king \in Int /\ [Early!Look]_<<reward, king, verdict>> => (Rated /\ king \in Int)'
  BY DEF Early!Look, Rated
<1>3. Rated /\ king \in Int => FutilityHonest
  BY LookIsHonest
<1> QED BY <1>1, <1>2, <1>3, PTL DEF Early!Spec
================================================================================
