---------------------------- MODULE EvaluatorQueue -----------------------------
(***************************************************************************)
(* One evaluator between the finalized chain and its own work: the trigger *)
(* table (triggers.py, managed_evaluator.py), the outbox and the worker    *)
(* (evaluator.py), and the chain thread and writer that drive them         *)
(* (validator.py).  Three threads and a crash share durable tables:        *)
(*   - the chain thread replays blocks, then updates the evaluator;        *)
(*   - the worker dispatches one challenger at a time and enqueues results;*)
(*   - the writer publishes the head of the outbox.                        *)
(* The ledger is seen through what it tells this evaluator: the active     *)
(* window, the first bindings, its own finalized results and its own uses. *)
(***************************************************************************)
EXTENDS Integers, Sequences, FiniteSets, SequencesExt, FiniteSetsExt

CONSTANTS
  Hotkey,        \* challengers, numbered in the order of their addresses
  ColdkeyOf,     \* their owners
  None,
  TimeoutLimit,  \* MAX_TIMEOUT_FAILURES
  Backoff,       \* blocks a retry waits at most, counted from the failure
  Delay,         \* blocks a retry waits at most, counted from the worker's snapshot
  Reasons,       \* failures an attempt may end in
  MaxBlock, MaxWindow, MaxCommits, MaxCrashes, MaxFailures    \* bounds

Reason == {"miner", "infrastructure", "round", "infrastructure_round", "elapsed", "other"}
Coldkey == { ColdkeyOf[h] : h \in Hotkey }

(* A result of this evaluator; an active window; what the chain thread      *)
(* publishes to the worker, or None before it first does.                   *)
Item == [hotkey : Hotkey \cup {None}, window : 0 .. MaxWindow, kind : {"baseline", "partial", "terminal"}]
Window == [id : Nat, start : Nat]
Context == [window : Window, block : Nat, results : SUBSET Item]

ASSUME QueueAssumption ==
  /\ Hotkey \subseteq Nat /\ None \notin Hotkey /\ None \notin Context
  /\ Reasons \subseteq Reason
  /\ {TimeoutLimit, Backoff, Delay, MaxBlock, MaxWindow, MaxCommits, MaxCrashes, MaxFailures} \subseteq Nat
  /\ TimeoutLimit > 0

VARIABLES
  block,     \* ledger cursor, the head of the chain once caught up
  window,    \* ledger.active: its number and its start_block
  bound,     \* block of each hotkey's first binding, 0 before it
  commits,   \* later finalized commitments of the same model
  results,   \* own results in the finalized history
  uses,      \* own uses in the ledger: the window that consumed the hotkey
  trig,      \* table triggers
  turn,      \* table coldkey_turns: the owners in order, 0 before the first binding
  cursor,    \* table queue_cursor
  outbox,    \* outbox.json
  context,   \* what the chain thread last published to the worker: opening and history
  chain,     \* where the chain thread is in step()
  worker,    \* where the worker is in run_once()
  writer,    \* the writer's future
  signed,    \* results signed but not finalized yet
  crashes, failures     \* bounds

ledger == <<block, window, bound, commits, results, uses>>
durable == <<trig, turn, cursor, outbox>>
vars == <<ledger, durable, context, chain, worker, writer, signed, crashes, failures>>

Absent == [ status |-> "none", retry |-> 0, parked |-> FALSE, timeouts |-> 0,
            readmitted |-> 0, removed |-> 0, window |-> 0 ]
Idle == [at |-> "idle"]
Free == [at |-> "free"]

Init ==
  /\ block = 0
  /\ window = [id |-> 0, start |-> 0]
  /\ bound = [h \in Hotkey |-> 0]
  /\ commits = {}
  /\ results = {}
  /\ uses = [h \in Hotkey |-> None]
  /\ trig = [h \in Hotkey |-> Absent]
  /\ turn = [c \in Coldkey |-> 0]
  /\ cursor = 0
  /\ outbox = <<>>
  /\ context = None
  /\ chain = "replay"
  /\ worker = Idle
  /\ writer = Free
  /\ signed = {}
  /\ crashes = 0
  /\ failures = 0

-----------------------------------------------------------------------------
(* The trigger table. *)

Live == {"queued", "running"}
Terminal(item) == item.kind = "terminal"
Since(t, h) == IF t.readmitted # 0 THEN t.readmitted ELSE bound[h]
Candidates(w) == { h \in Hotkey : bound[h] # 0 /\ bound[h] < w.start }

(* Mistaken variant: nothing published since the restart counts as a rotation. *)
RotatedByRestart(w) == context = None \/ context.window.id # w

(* ManagedEvaluator._interruption: has the window of this row rotated away? *)
Rotated(w) == context # None /\ context.window.id # w

(* Dispatch ends; the binding stays, and no commitment up to now readmits it. *)
Withdrawn(t, h) ==
  [t EXCEPT !.status = "withdrawn", !.parked = FALSE, !.retry = 0,
            !.removed = Max({block, Since(t, h), bound[h]})]

Queued(t, retry, parked) ==
  [t EXCEPT !.status = "queued", !.retry = retry, !.parked = parked]

Timeout(t) == [t EXCEPT !.timeouts = @ + 1]

(* An attempt that ran out of time counts against its row. *)
Counts(t, reason) == t.status = "running" /\ ~ Rotated(t.window) /\ reason \in {"round", "elapsed"}

(* ScheduledTriggers.defer: what any other failed attempt does to its row. *)
Deferred(t, h, reason, retry) ==
  IF t.status # "running" THEN t
  ELSE IF Rotated(t.window) THEN Queued(t, 0, FALSE)
  ELSE CASE reason = "miner"                -> Withdrawn(t, h)
         [] reason = "infrastructure_round" -> Queued(t, 0, TRUE)
         [] OTHER -> Queued(t, retry, FALSE)

(* What follows the count: the limit, or a place in the queue, parked for the round. *)
Parked(t, h, reason) ==
  IF t.status # "running" THEN t
  ELSE IF t.timeouts >= TimeoutLimit THEN Withdrawn(t, h)
  ELSE Queued(t, 0, reason = "round")

(* Mistaken variant: leaves a row at its limit to the attempt that counted it. *)
SweptParked(t, h) ==
  IF t.status \in Live /\ t.parked /\ Rotated(t.window) THEN [t EXCEPT !.retry = 0, !.parked = FALSE]
  ELSE t

(* pending() writes as it reads: hopeless rows leave, parked rows of an old window wake. *)
Swept(t, h) ==
  IF t.status \notin Live THEN t
  ELSE IF t.timeouts >= TimeoutLimit THEN Withdrawn(t, h)
  ELSE IF t.parked /\ Rotated(t.window) THEN [t EXCEPT !.retry = 0, !.parked = FALSE]
  ELSE t

Sweep(before) ==
  [ h \in Hotkey |-> IF bound[h] # 0 /\ Since(trig[h], h) < before THEN Swept(trig[h], h) ELSE trig[h] ]

(* The backoff of a failed attempt. *)
Retry(since) == Min({since + Delay, block + Backoff})

(* It is over when its block is reached; the bound on blocks is not a bound on time. *)
Waited(t, now) == t.retry <= now \/ block = MaxBlock

(* pending(): the rows of each owner in order, held back by their head; a   *)
(* row is told by its place in the queue of its owner and the owner's turn. *)
Group(table, c, before, now) ==
  LET mine == { h \in Candidates(window) :
                  /\ ColdkeyOf[h] = c /\ table[h].status \in Live /\ ~ table[h].parked
                  /\ Since(table[h], h) < before }
      Before(g, h) == \/ Since(table[g], g) < Since(table[h], h)
                      \/ Since(table[g], g) = Since(table[h], h) /\ g <= h
      heldBack == \E head \in mine : (\A h \in mine : Before(head, h)) /\ ~ Waited(table[head], now)
  IN  IF heldBack THEN {}
      ELSE { <<Cardinality({ g \in mine : Before(g, h) }), turn[c], h>> : h \in mine }

(* The first row of the round-robin over owners that passes the filter. *)
Dispatched(table, before, now, passing) ==
  LET all   == UNION { Group(table, c, before, now) : c \in Coldkey }
      mine  == { e \in all : e[3] \in passing }
      first == { e \in mine : \A f \in mine : e[1] < f[1] \/ (e[1] = f[1] /\ e[2] <= f[2]) }
  IN  { e[3] : e \in first }

-----------------------------------------------------------------------------
(* The worker holds the lock of the table from a count that reaches the     *)
(* limit to the withdrawal; each is committed on its own.                   *)
Locked == worker.at = "counted" /\ trig[worker.entry].timeouts >= TimeoutLimit

(* The chain thread: Validator.step and Evaluator.update. *)

(* One finalized block: the window may turn, charging the bounds that lost; *)
(* then miners may commit and one signed result may be finalized.  Past    *)
(* the last block that is counted, results are still finalized.             *)
FinalizedBlock(turns, lost, miner, landed) ==
  LET b    == Min({block + 1, MaxBlock})
      w    == IF turns THEN [id |-> window.id + 1, start |-> b] ELSE window
      kept == [ h \in Hotkey |-> IF turns /\ h \in lost /\ uses[h] = None THEN window.id ELSE uses[h] ]
      hit  == { h \in Candidates(w) : \E r \in landed : Terminal(r) /\ r.hotkey = h /\ r.window = w.id }
  IN  /\ IF block < MaxBlock THEN turns => window.id < MaxWindow
         ELSE ~ turns /\ miner = {} /\ landed # {}
      /\ ~ turns => lost = {}
      /\ \A h \in miner : bound[h] # 0 => Cardinality(commits) < MaxCommits
      /\ block' = b
      /\ window' = w
      /\ bound' = [ h \in Hotkey |-> IF h \in miner /\ bound[h] = 0 THEN b ELSE bound[h] ]
      /\ commits' = commits \cup { [hotkey |-> h, block |-> b] : h \in { g \in miner : bound[g] # 0 } }
      /\ results' = results \cup landed
      /\ signed' = signed \ landed
      /\ uses' = [ h \in Hotkey |-> IF kept[h] = None /\ h \in hit THEN w.id ELSE kept[h] ]

Replay ==
  /\ chain = "replay"
  /\ \E turns \in BOOLEAN,
        lost \in SUBSET { r.hotkey : r \in { s \in results : s.kind = "partial" /\ s.window = window.id } },
        miner \in SUBSET Hotkey,
        landed \in { s \in SUBSET signed : Cardinality(s) <= 1 } : FinalizedBlock(turns, lost, miner, landed)
  /\ UNCHANGED <<durable, context, chain, worker, writer, crashes, failures>>

(* Mistaken variant: any finalized commitment since the cursor readmits. *)
FreshAnyway(h) ==
  { c.block : c \in { d \in commits : d.hotkey = h /\ d.block > cursor } }

(* Finalized commitments that readmit a withdrawn hotkey. *)
Fresh(h) ==
  { c.block : c \in { d \in commits : d.hotkey = h /\ d.block > cursor /\ d.block > trig[h].removed } }

(* head() is reached.  ScheduledTriggers.observe: readmission, then new bindings. *)
Observe ==
  /\ chain = "replay" /\ ~ Locked
  /\ trig' = [ h \in Hotkey |->
       IF trig[h].status = "withdrawn" /\ Fresh(h) # {}
       THEN [Queued(trig[h], 0, FALSE) EXCEPT !.readmitted = Min(Fresh(h)), !.timeouts = 0]
       ELSE IF trig[h].status = "none" /\ bound[h] # 0 THEN Queued(Absent, 0, FALSE)
       ELSE trig[h] ]
  /\ turn' = [ c \in Coldkey |->
       IF turn[c] = 0 /\ \E h \in Hotkey : ColdkeyOf[h] = c /\ bound[h] # 0
       THEN Max(Range(turn))
              + Cardinality({ d \in Coldkey : d <= c /\ turn[d] = 0 /\ \E h \in Hotkey : ColdkeyOf[h] = d /\ bound[h] # 0 })
       ELSE turn[c] ]
  /\ chain' = "reconcile"
  /\ UNCHANGED <<ledger, cursor, outbox, context, worker, writer, signed, crashes, failures>>

(* Mistaken variant: a hotkey that was withdrawn is not told that it was used. *)
ReconciledWhileLive(t, h) ==
  IF uses[h] # None /\ t.status \in Live
  THEN [t EXCEPT !.status = "done", !.window = uses[h]] ELSE t

(* ScheduledTriggers.reconcile: only the finalized ledger consumes a hotkey. *)
Reconciled(t, h) ==
  IF uses[h] # None /\ t.status \in Live \cup {"withdrawn"}
  THEN [t EXCEPT !.status = "done", !.window = uses[h]] ELSE t

(* The queue cursor is written after the rows, then the ledger's uses win. *)
Reconcile ==
  /\ chain = "reconcile" /\ ~ Locked
  /\ cursor' = block
  /\ trig' = [ h \in Hotkey |-> Reconciled(trig[h], h) ]
  /\ chain' = "publish"
  /\ UNCHANGED <<ledger, turn, outbox, context, worker, writer, signed, crashes, failures>>

(* The items of a sequence at the given positions, in their order. *)
Selected(seq, kept) ==
  LET place == [ i \in kept |-> Cardinality({ j \in kept : j <= i }) ]
  IN  [ n \in 1 .. Cardinality(kept) |-> seq[CHOOSE i \in kept : place[i] = n] ]


(* Items that history acknowledged, or whose window is over, leave. *)
OutboxNow ==
  Selected(outbox, { i \in DOMAIN outbox : outbox[i] \notin results /\ outbox[i].window = window.id })

(* The worker sees the new opening; an unpublished result of an old window  *)
(* goes back to the queue.                                                 *)
Publish ==
  /\ chain = "publish" /\ ~ Locked
  /\ context' = [window |-> window, block |-> block, results |-> results]
  /\ outbox' = OutboxNow
  /\ LET expired == { outbox[i].hotkey : i \in { j \in DOMAIN outbox : /\ outbox[j].kind # "baseline"
                                                                       /\ outbox[j].window # window.id
                                                                       /\ outbox[j] \notin results } }
     IN  trig' = [ h \in Hotkey |->
           IF h \in expired /\ trig[h].status = "running" THEN Queued(trig[h], 0, FALSE) ELSE trig[h] ]
  /\ chain' = "write"
  /\ UNCHANGED <<ledger, turn, cursor, worker, writer, signed, crashes, failures>>

(* The single writer gets a task if it is free; publish_status sweeps. *)
Write ==
  /\ chain = "write" /\ ~ Locked
  /\ writer' = IF writer = Free /\ outbox # <<>> THEN [at |-> "submitted"] ELSE writer
  /\ trig' = Sweep(window.start)
  /\ chain' = "replay"
  /\ UNCHANGED <<ledger, turn, cursor, outbox, context, worker, signed, crashes, failures>>

(* A step that has not caught up publishes its status all the same. *)
Lagging ==
  /\ chain = "replay" /\ ~ Locked
  /\ trig' = Sweep(window.start)
  /\ UNCHANGED <<ledger, turn, cursor, outbox, context, chain, worker, writer, signed, crashes, failures>>

(* flush_one: the head of the outbox, if it is of the active window. *)
Sign ==
  /\ writer.at = "submitted"
  /\ IF outbox # <<>> /\ outbox[1].window = window.id
     THEN /\ writer' = [at |-> "signed", item |-> outbox[1]]
          /\ signed' = signed \cup ({outbox[1]} \ results)
     ELSE writer' = Free /\ UNCHANGED signed
  /\ UNCHANGED <<ledger, durable, context, chain, worker, crashes, failures>>

(* The receipt of a finalized commitment. *)
Receipt ==
  /\ writer.at = "signed"
  /\ writer.item \in results
  /\ writer' = Free
  /\ UNCHANGED <<ledger, durable, context, chain, worker, signed, crashes, failures>>

(* No receipt: the commitment is lost, or still on its way. *)
Unconfirmed ==
  /\ writer.at = "signed"
  /\ failures < MaxFailures
  /\ failures' = failures + 1
  /\ writer' = Free
  /\ signed' \in {signed, signed \ {writer.item}}
  /\ UNCHANGED <<ledger, durable, context, chain, worker, crashes>>

-----------------------------------------------------------------------------
(* The worker: Evaluator.run_once and _attempt. *)

Cancelled(w) == context = None \/ context.window.id # w.id

Begin ==
  /\ worker.at = "idle"
  /\ context # None
  /\ worker' = [at |-> "waiting", context |-> context]
  /\ UNCHANGED <<ledger, durable, context, chain, writer, signed, crashes, failures>>

(* Results that wait for publication are read before the finalized ones.   *)
ReadWaiting ==
  /\ worker.at = "waiting"
  /\ worker' = [ at |-> "history", context |-> worker.context,
                 waiting |-> { outbox[i].hotkey : i \in DOMAIN outbox } ]
  /\ UNCHANGED <<ledger, durable, context, chain, writer, signed, crashes, failures>>

Finalized(kind, w) == { r.hotkey : r \in { s \in results : s.kind = kind /\ s.window = w.id } }

ReadHistory ==
  /\ worker.at = "history"
  /\ worker' = [ at |-> "pick", context |-> worker.context, waiting |-> worker.waiting,
                 published |-> Finalized("terminal", worker.context.window),
                 partials  |-> Finalized("partial", worker.context.window) ]
  /\ UNCHANGED <<ledger, durable, context, chain, writer, signed, crashes, failures>>

(* Mistaken variant: the outbox is read after the history. *)
PassingLate(inconclusive) ==
  ((Candidates(worker.context.window) \ { outbox[i].hotkey : i \in DOMAIN outbox }) \ worker.published)
     \ (worker.partials \ inconclusive)

Passing(inconclusive) ==
  ((Candidates(worker.context.window) \ worker.waiting) \ worker.published)
     \ (worker.partials \ inconclusive)

(* decide() tells which published bounds are still worth finishing. *)
Pick ==
  /\ worker.at = "pick"
  /\ \E inconclusive \in SUBSET worker.partials :
       LET before == worker.context.window.start
           table  == Sweep(before)
           next   == Dispatched(table, before, worker.context.block, Passing(inconclusive))
       IN  /\ trig' = table
           /\ worker' = IF next = {} \/ Cancelled(worker.context.window) THEN Idle
                        ELSE [ at |-> "start", context |-> worker.context,
                               entry |-> CHOOSE h \in next : TRUE,
                               resume |-> (CHOOSE h \in next : TRUE) \in worker.partials ]
  /\ UNCHANGED <<ledger, turn, cursor, outbox, context, chain, writer, signed, crashes, failures>>

(* Mistaken variant: trusts the row as it was picked. *)
NeverRefused(t) == FALSE

(* start() reads the row again: one the ledger consumed meanwhile is refused. *)
Refused(t) == t.status = "done"

(* The owner who is served goes to the end of the round. *)
LastInTurn(served) ==
  [ c \in Coldkey |-> CASE c = served             -> Max(Range(turn))
                       [] turn[c] > turn[served] -> turn[c] - 1
                       [] OTHER                  -> turn[c] ]

Start ==
  /\ worker.at = "start"
  /\ LET h == worker.entry
     IN  IF Refused(trig[h]) THEN worker' = Idle /\ UNCHANGED <<trig, turn>>
         ELSE /\ worker' = [worker EXCEPT !.at = "prepare"]
              /\ trig' = [trig EXCEPT ![h].status = "running", ![h].window = worker.context.window.id]
              /\ turn' = LastInTurn(ColdkeyOf[h])
  /\ UNCHANGED <<ledger, cursor, outbox, context, chain, writer, signed, crashes, failures>>

Failing(reason) == [ at |-> "defer", context |-> worker.context, entry |-> worker.entry, reason |-> reason ]

(* Mistaken variant: the newest result is published first. *)
AddNewestFirst(item) == IF item \in Range(outbox) THEN outbox ELSE <<item>> \o outbox

(* _enqueue: the outbox is a queue without duplicates. *)
Add(item) == IF item \in Range(outbox) THEN outbox ELSE Append(outbox, item)

(* _attempt_checked: the opening is checked again before any miner traffic, *)
(* then the king is measured first.  Its baseline is enqueued unless the    *)
(* history up to the worker's own snapshot holds it.                        *)
Prepare ==
  /\ worker.at = "prepare"
  /\ LET w        == worker.context.window
         h        == worker.entry
         admitted == window = w /\ bound[h] < w.start /\ Since(trig[h], h) < w.start
         baseline == [hotkey |-> None, window |-> w.id, kind |-> "baseline"]
     IN  IF ~ admitted
         THEN worker' = Failing("other") /\ UNCHANGED outbox
         ELSE /\ worker' = [worker EXCEPT !.at = "score"]
              /\ outbox' = IF baseline \in worker.context.results THEN outbox ELSE Add(baseline)
  /\ UNCHANGED <<ledger, trig, turn, cursor, context, chain, writer, signed, crashes, failures>>

(* The challenger is measured: completely, or up to an early stop unless it resumes. *)
Score ==
  /\ worker.at = "score"
  /\ \E kind \in {"terminal"} \cup (IF worker.resume THEN {} ELSE {"partial"}) :
       worker' = IF Cancelled(worker.context.window) THEN Failing("other")
                 ELSE [ at |-> "enqueue", context |-> worker.context, entry |-> worker.entry, kind |-> kind ]
  /\ UNCHANGED <<ledger, durable, context, chain, writer, signed, crashes, failures>>

(* Any stage of an attempt may fail. *)
Fail ==
  /\ worker.at \in {"prepare", "score"}
  /\ failures < MaxFailures
  /\ \E reason \in Reasons : worker' = Failing(reason)
  /\ failures' = failures + 1
  /\ UNCHANGED <<ledger, durable, context, chain, writer, signed, crashes>>

Defer ==
  /\ worker.at = "defer"
  /\ LET h == worker.entry
     IN  IF Counts(trig[h], worker.reason)
         THEN /\ trig' = [trig EXCEPT ![h] = Timeout(trig[h])]
              /\ worker' = [worker EXCEPT !.at = "counted"]
         ELSE /\ trig' = [trig EXCEPT ![h] = Deferred(trig[h], h, worker.reason, Retry(worker.context.block))]
              /\ worker' = Idle
  /\ UNCHANGED <<ledger, turn, cursor, outbox, context, chain, writer, signed, crashes, failures>>

Park ==
  /\ worker.at = "counted"
  /\ trig' = [trig EXCEPT ![worker.entry] = Parked(trig[worker.entry], worker.entry, worker.reason)]
  /\ worker' = Idle
  /\ UNCHANGED <<ledger, turn, cursor, outbox, context, chain, writer, signed, crashes, failures>>

Enqueue ==
  /\ worker.at = "enqueue"
  /\ outbox' = Add([hotkey |-> worker.entry, window |-> worker.context.window.id, kind |-> worker.kind])
  /\ worker' = Idle
  /\ UNCHANGED <<ledger, trig, turn, cursor, context, chain, writer, signed, crashes, failures>>

-----------------------------------------------------------------------------
(* ScheduledTriggers.reconcile puts a withdrawn row back before it is done. *)
Reopened(t, h) ==
  IF uses[h] # None /\ t.status = "withdrawn" THEN [t EXCEPT !.status = "queued"] ELSE t

Unretried(t) == IF t.status = "queued" THEN [t EXCEPT !.retry = 0] ELSE t

(* The row as reconcile left it: done, on the way to it, or not reached yet. *)
Left(h, reopened, done) ==
  CASE h \in done     -> Reconciled(trig[h], h)
    [] h \in reopened -> Reopened(trig[h], h)
    [] OTHER          -> trig[h]

(* A crash loses the threads; the tables, the outbox and what was signed   *)
(* stay, whatever row the ledger's uses have reached.  recover_interrupted *)
(* clears the backoff of interrupted attempts.                             *)
Crash ==
  /\ crashes < MaxCrashes
  /\ crashes' = crashes + 1
  /\ \E written \in (IF chain = "reconcile" THEN BOOLEAN ELSE {FALSE}) :
       /\ cursor' = IF written THEN block ELSE cursor
       /\ \E reopened, done \in (IF written THEN SUBSET Hotkey ELSE {{}}), recovered \in SUBSET Hotkey :
            trig' = [ h \in Hotkey |-> IF h \in recovered THEN Unretried(Left(h, reopened, done))
                                       ELSE Left(h, reopened, done) ]
  /\ context' = None
  /\ chain' = "replay"
  /\ worker' = Idle
  /\ writer' = Free
  /\ UNCHANGED <<ledger, turn, outbox, signed, failures>>

ChainThread == Observe \/ Reconcile \/ Publish \/ Write
Worker == Begin \/ ReadWaiting \/ ReadHistory \/ Pick \/ Start \/ Prepare \/ Score \/ Defer \/ Park \/ Enqueue

Next == Replay \/ Lagging \/ ChainThread \/ Sign \/ Receipt \/ Unconfirmed \/ Worker \/ Fail \/ Crash

(* Each thread of the process keeps running; the chain keeps finalizing     *)
(* blocks, and among them those that hold what was signed.                  *)
Advances == Replay /\ block' # block
Lands == Replay /\ signed' # signed
Fairness ==
  /\ WF_vars(ChainThread) /\ WF_vars(Worker) /\ WF_vars(Sign \/ Receipt)
  /\ SF_vars(Advances) /\ SF_vars(Lands)

Spec == Init /\ [][Next]_vars
FairSpec == Spec /\ Fairness

-----------------------------------------------------------------------------
(* Properties. *)

(* Types, and a withdrawn row is not readmitted by its own past commitments. *)
TypeOK ==
  /\ block \in 0 .. MaxBlock
  /\ window.id \in 0 .. MaxWindow /\ window.start <= block
  /\ results \subseteq Item /\ signed \subseteq Item
  /\ \A i \in DOMAIN outbox : outbox[i] \in Item
  /\ \A h \in Hotkey :
       /\ trig[h].status \in Live \cup {"none", "withdrawn", "done"}
       /\ trig[h].timeouts <= TimeoutLimit
       /\ trig[h].status = "withdrawn" => trig[h].removed >= Since(trig[h], h)

(* A challenger that ran out of time as often as it may is never in the     *)
(* worker's hands again, until a new commitment readmits it: also when the  *)
(* process dies between the last count and the withdrawal, which leaves a   *)
(* row at its limit that says it is running.                                *)
LimitHonoured ==
  worker.at \in {"start", "prepare", "score", "enqueue", "defer"} =>
    trig[worker.entry].timeouts < TimeoutLimit

(* A challenger's result is measured and enqueued once: what the finalized  *)
(* history already holds is never enqueued again.  The worker must read the *)
(* outbox before the history, because the chain thread empties one after    *)
(* filling the other.                                                       *)
NoRepublication ==
  [][ \A i \in DOMAIN outbox' :
        outbox'[i].kind # "baseline" /\ outbox'[i] \notin Range(outbox) => outbox'[i] \notin results ]_vars

(* No challenger is finalized without the king it was compared with: the    *)
(* ledger weighs a result only against the same evaluator's baseline.       *)
BaselineFirst ==
  \A r \in results : r.kind # "baseline" =>
     [hotkey |-> None, window |-> r.window, kind |-> "baseline"] \in results

(* Withdrawal ends with a new finalized commitment, younger than the        *)
(* withdrawal, and the same commitment never readmits twice, whatever a     *)
(* crash between the table and the queue cursor replays.  (A row that is    *)
(* about to be marked as used passes through the queue.)                    *)
ReadmittedOnce ==
  [][ \A h \in Hotkey : trig[h].status = "withdrawn" /\ trig'[h].status \in Live /\ uses[h] = None =>
        /\ trig'[h].readmitted > Max({trig[h].readmitted, trig[h].removed})
        /\ [hotkey |-> h, block |-> trig'[h].readmitted] \in commits ]_vars

(* "Restart cannot grant more time in the same window": a row parked by its *)
(* round budget stays parked until the window has turned.                   *)
ParkedUntilRotation ==
  [][ \A h \in Hotkey : trig[h].parked /\ trig'[h].status \in Live /\ ~ trig'[h].parked =>
        window.id > trig[h].window ]_vars

(* A hotkey the ledger consumed is never dispatched again, also when it is  *)
(* consumed between the worker's choice and the start of the attempt.       *)
ConsumedStaysDone ==
  [][ \A h \in Hotkey : trig[h].status = "done" => trig'[h].status = "done" ]_vars

(* The worker is never shown an opening before every use of the ledger has  *)
(* reached the trigger table, whatever state the row was in: also a row     *)
(* withdrawn while its early stop was charged at the close of the window.   *)
UsesReconciled ==
  chain \in {"publish", "write"} => \A h \in Hotkey : uses[h] # None => trig[h].status = "done"

Settled(h) ==
  \/ trig[h].status \in {"done", "withdrawn"}
  \/ trig[h].parked
  \/ Since(trig[h], h) >= window.start
  \/ [hotkey |-> h, window |-> window.id, kind |-> "partial"] \in results

=============================================================================
