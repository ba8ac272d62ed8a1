------------------------ MODULE EvaluatorQueue_proofs --------------------------
(***************************************************************************)
(* Proofs about the evaluator queue: its types, what the trigger table may *)
(* show and do, the order of the outbox, and that nothing is published     *)
(* twice.  Three inductive invariants, each proved over the ones before:   *)
(*   - TableInv: the rows against the chain, the worker and the windows;   *)
(*   - OrderInv: the king's baseline precedes every result compared to it; *)
(*   - OnceInv:  what the worker read covers what is on its way.           *)
(***************************************************************************)
EXTENDS EvaluatorQueue, FiniteSetTheorems, WellFoundedInduction, TLAPS

Row == [ status : Live \cup {"none", "withdrawn", "done"}, retry : Int, parked : BOOLEAN,
         timeouts : Nat, readmitted : Nat, removed : Nat, window : Nat ]

WorkerState ==
  {Idle}
    \cup [at : {"waiting"}, context : Context]
    \cup [at : {"history"}, context : Context, waiting : SUBSET (Hotkey \cup {None})]
    \cup [at : {"pick"}, context : Context, waiting : SUBSET (Hotkey \cup {None}),
          published : SUBSET (Hotkey \cup {None}), partials : SUBSET (Hotkey \cup {None})]
    \cup [at : {"start", "prepare", "score"}, context : Context, entry : Hotkey, resume : BOOLEAN]
    \cup [at : {"enqueue"}, context : Context, entry : Hotkey, kind : {"partial", "terminal"}]
    \cup [at : {"defer", "counted"}, context : Context, entry : Hotkey, reason : Reason]

WriterState == {Free} \cup [at : {"submitted"}] \cup [at : {"signed"}, item : Item]

(* The worker has a challenger; and it is in its hands, not yet given back. *)
Engaged == worker.at \in {"start", "prepare", "score", "enqueue", "defer", "counted"}
InHand == worker.at \in {"start", "prepare", "score", "enqueue", "defer"}

(* Results on their way or arrived, and the baseline of a window. *)
Known == results \cup signed \cup Range(outbox)
Baseline(w) == [hotkey |-> None, window |-> w, kind |-> "baseline"]

TypeInv ==
  /\ block \in 0 .. MaxBlock
  /\ window \in Window /\ window.id <= MaxWindow /\ window.start <= block
  /\ bound \in [Hotkey -> Nat] /\ commits \in SUBSET [hotkey : Hotkey, block : Nat]
  /\ results \in SUBSET Item /\ signed \in SUBSET Item /\ outbox \in Seq(Item)
  /\ uses \in [Hotkey -> Nat \cup {None}]
  /\ trig \in [Hotkey -> Row]
  /\ context \in {None} \cup Context
  /\ chain \in {"replay", "reconcile", "publish", "write"}
  /\ worker \in WorkerState /\ writer \in WriterState

(* Windows only move forward: chain, published opening, worker, items, rows. *)
WindowInv ==
  /\ context # None => context.window.id <= window.id
  /\ worker.at # "idle" => /\ context # None
                           /\ worker.context.window.id <= context.window.id
                           /\ worker.context.window.id <= window.id
  /\ \A x \in Known : x.window <= window.id
  /\ \A h \in Hotkey : trig[h].status # "done" =>
       /\ trig[h].window <= window.id
       /\ context # None => trig[h].window <= context.window.id

(* Whatever is said of a challenger is said of one the chain has bound. *)
BoundInv ==
  /\ \A h \in Hotkey : trig[h].status # "none" \/ uses[h] # None => bound[h] # 0
  /\ \A x \in Known : x.kind # "baseline" => x.hotkey \in Hotkey /\ bound[x.hotkey] # 0
  /\ Engaged => bound[worker.entry] # 0
  /\ worker.at = "pick" => worker.partials \subseteq { h \in Hotkey : bound[h] # 0 }

(* What a row may look like between two steps. *)
Fits(t, h) ==
  /\ t.timeouts <= TimeoutLimit
  /\ t.status = "withdrawn" => t.removed >= Since(t, h)
  /\ t.parked => t.status \in {"queued", "done"}

RowInv ==
  \A h \in Hotkey :
    /\ Fits(trig[h], h)
    /\ chain = "reconcile" /\ bound[h] # 0 => trig[h].status # "none"

(* The row the worker has chosen is taken from it only by the ledger: it is *)
(* not at its limit, so no sweep withdraws it.                              *)
StartInv ==
  /\ worker.at = "start" =>
       /\ trig[worker.entry].status \in Live \cup {"done"}
       /\ trig[worker.entry].parked => trig[worker.entry].status = "done"
  /\ LimitHonoured

TableInv == TypeInv /\ WindowInv /\ BoundInv /\ RowInv /\ StartInv

(* The baseline of a window comes first, from the worker to the history. *)
OrderInv ==
  /\ \A r \in results \cup signed : r.kind # "baseline" => Baseline(r.window) \in results
  /\ \A i \in DOMAIN outbox : outbox[i].kind # "baseline" /\ outbox[i].window = window.id =>
       \/ Baseline(window.id) \in results
       \/ \E j \in 1 .. (i - 1) : outbox[j] = Baseline(window.id)
  /\ context # None => context.results \subseteq results
  /\ worker.at # "idle" => worker.context.results \subseteq results
  /\ worker.at \in {"score", "enqueue"} /\ worker.context.window.id = window.id =>
       Baseline(window.id) \in results \cup Range(outbox)

(* A signed result that has left the outbox is in the history, or its      *)
(* window is over and the worker is told so.                               *)
SignedInv ==
  \A s \in signed :
    \/ s \in results \cup Range(outbox)
    \/ s.window < window.id /\ (context # None => s.window < context.window.id)

(* What of a window is on its way, and counts as a challenger's answer. *)
Answers(w) == { x \in Known : x.kind # "baseline" /\ x.window = w.id }

(* Until its window is over, the worker knows every answer of its window:  *)
(* by the outbox it read first, or by the history it read after.           *)
ReadInv ==
  ~ Cancelled(worker.context.window) =>
    /\ worker.at = "history" =>
         \A x \in Answers(worker.context.window) : x \in results \/ x.hotkey \in worker.waiting
    /\ worker.at = "pick" =>
         \A x \in Answers(worker.context.window) :
           \/ x.hotkey \in worker.waiting
           \/ x.kind = "terminal" /\ x.hotkey \in worker.published
           \/ x.kind = "partial" /\ x.hotkey \in worker.partials

(* The challenger under way has no answer yet, or the stop it resumes. *)
AttemptInv ==
  /\ worker.at \in {"start", "prepare", "score"} =>
       \A x \in Answers(worker.context.window) :
         x.hotkey = worker.entry => x.kind = "partial" /\ worker.resume
  /\ worker.at = "enqueue" =>
       \A x \in Answers(worker.context.window) :
         x.hotkey = worker.entry => x.kind # worker.kind

OnceInv == SignedInv /\ (worker.at \in {"history", "pick"} => ReadInv) /\ AttemptInv

-----------------------------------------------------------------------------

(* Operators the model is built from. *)

LEMMA MaxOfThree ==
  ASSUME NEW a \in Nat, NEW b \in Nat, NEW c \in Nat
  PROVE  /\ Max({a, b, c}) \in Nat
         /\ Max({a, b, c}) >= a /\ Max({a, b, c}) >= b /\ Max({a, b, c}) >= c
         /\ Max({a, b, c}) \in {a, b, c}
  <1>1. \E x \in {a, b, c} : \A y \in {a, b, c} : x >= y
    OBVIOUS
  <1> QED
    BY <1>1 DEF Max

LEMMA MaxOfTwo ==
  ASSUME NEW a \in Nat, NEW b \in Nat
  PROVE  Max({a, b}) \in {a, b} /\ Max({a, b}) >= a /\ Max({a, b}) >= b
  <1>1. \E x \in {a, b} : \A y \in {a, b} : x >= y
    OBVIOUS
  <1> QED
    BY <1>1 DEF Max

LEMMA MinOfTwo ==
  ASSUME NEW a \in Int, NEW b \in Int
  PROVE  Min({a, b}) \in {a, b} /\ Min({a, b}) <= a /\ Min({a, b}) <= b
  <1>1. \E x \in {a, b} : \A y \in {a, b} : x <= y
    OBVIOUS
  <1> QED
    BY <1>1 DEF Min

LEMMA MinExists ==
  ASSUME NEW T \in SUBSET Nat, T # {}
  PROVE  Min(T) \in T
  <1>1. \E x \in T : \A y \in T : ~ (<<y, x>> \in OpToRel(<, Nat))
    BY WFMin, NatLessThanWellFounded
  <1>2. \E x \in T : \A y \in T : ~ (y < x)
    BY <1>1 DEF OpToRel
  <1>3. \A x, y \in T : ~ (y < x) => x <= y
    OBVIOUS
  <1>4. \E x \in T : \A y \in T : x <= y
    BY <1>2, <1>3
  <1> QED
    BY <1>4 DEF Min

(* The positions kept of a sequence are numbered without gaps: each place  *)
(* is that of exactly one of them, and places keep the order.              *)
LEMMA Places ==
  ASSUME NEW n \in Nat, NEW kept \in SUBSET (1 .. n)
  PROVE  LET place == [ i \in kept |-> Cardinality({ j \in kept : j <= i }) ]
         IN  /\ Cardinality(kept) \in Nat
             /\ \A i \in kept : place[i] \in 1 .. Cardinality(kept)
             /\ \A i \in kept : \A k \in kept : i < k => place[i] < place[k]
             /\ \A m \in 1 .. Cardinality(kept) : \E i \in kept : place[i] = m
  <1> DEFINE Upto(i) == { j \in kept : j <= i }
             place   == [ i \in kept |-> Cardinality(Upto(i)) ]
             size    == Cardinality(kept)
  <1>1. IsFiniteSet(kept) /\ size \in Nat
    <2>1. IsFiniteSet(1 .. n)
      BY FS_Interval
    <2>2. IsFiniteSet(kept)
      BY <2>1, FS_Subset
    <2> QED
      BY <2>2, FS_CardinalityType
  <1>2. \A i \in kept : Upto(i) \subseteq kept /\ IsFiniteSet(Upto(i)) /\ Cardinality(Upto(i)) \in Nat
    BY <1>1, FS_Subset, FS_CardinalityType
  <1>3. \A i \in kept : place[i] \in 1 .. size
    <2> SUFFICES ASSUME NEW i \in kept
                 PROVE  Cardinality(Upto(i)) \in 1 .. size
      OBVIOUS
    <2>1. Upto(i) # {}
      OBVIOUS
    <2>2. Cardinality(Upto(i)) # 0
      BY <1>2, <2>1, FS_EmptySet
    <2>3. Cardinality(Upto(i)) <= size
      BY <1>1, <1>2, FS_Subset
    <2> QED
      BY <1>1, <1>2, <2>2, <2>3
  <1>4. \A i \in kept : \A k \in kept : i < k => place[i] < place[k]
    <2> SUFFICES ASSUME NEW i \in kept, NEW k \in kept, i < k
                 PROVE  Cardinality(Upto(i)) < Cardinality(Upto(k))
      OBVIOUS
    <2>1. Upto(i) \in SUBSET Upto(k) /\ k \in Upto(k) /\ k \notin Upto(i)
      <3>1. kept \subseteq Int
        OBVIOUS
      <3>2. \A j \in kept : j <= i => j <= k
        BY <3>1
      <3>3. k <= k /\ ~ (k <= i)
        BY <3>1
      <3> QED
        BY <3>2, <3>3
    <2>2. Cardinality(Upto(i)) <= Cardinality(Upto(k)) /\ Cardinality(Upto(i)) # Cardinality(Upto(k))
      BY <1>2, <2>1, FS_Subset
    <2> QED
      BY <1>2, <2>2
  <1>5. \A m \in 1 .. size : \E i \in kept : place[i] = m
    <2>1. place \in Injection(kept, 1 .. size)
      <3>1. place \in [kept -> 1 .. size]
        BY <1>3
      <3>2. \A i \in kept : \A k \in kept : place[i] = place[k] => i = k
        <4> HIDE DEF place
        <4> QED
          BY <1>3, <1>4
      <3> QED
        BY <3>1, <3>2 DEF Injection, IsInjective
    <2>2. IsFiniteSet(1 .. size) /\ Cardinality(1 .. size) = size
      BY <1>1, FS_Interval
    <2> HIDE DEF place
    <2>3. place \in Surjection(kept, 1 .. size)
      BY <2>1, <2>2, FS_Injection
    <2> QED
      BY <2>3 DEF Surjection
  <1> QED
    BY <1>1, <1>3, <1>4, <1>5

(* What is kept of a sequence are the items at the given positions, each   *)
(* behind those that were before it.                                       *)
LEMMA SelectedItems ==
  ASSUME NEW S, NEW seq \in Seq(S), NEW kept \in SUBSET (DOMAIN seq)
  PROVE  /\ Selected(seq, kept) \in Seq(S)
         /\ Range(Selected(seq, kept)) = { seq[i] : i \in kept }
         /\ \A n \in DOMAIN Selected(seq, kept) : \E i \in kept :
              /\ Selected(seq, kept)[n] = seq[i]
              /\ \A j \in kept : j < i => \E m \in 1 .. (n - 1) : Selected(seq, kept)[m] = seq[j]
  <1> DEFINE place == [ i \in kept |-> Cardinality({ j \in kept : j <= i }) ]
             size  == Cardinality(kept)
             at(n) == CHOOSE i \in kept : place[i] = n
             r     == Selected(seq, kept)
  <1>1. /\ size \in Nat
        /\ \A i \in kept : place[i] \in 1 .. size
        /\ \A i \in kept : \A k \in kept : i < k => place[i] < place[k]
        /\ \A m \in 1 .. size : \E i \in kept : place[i] = m
    <2>1. DOMAIN seq = 1 .. Len(seq) /\ Len(seq) \in Nat
      OBVIOUS
    <2> QED
      BY <2>1, Places
  <1>2. r = [ n \in 1 .. size |-> seq[at(n)] ]
    BY DEF Selected
  <1>3. kept \subseteq Nat
    OBVIOUS
  <1> HIDE DEF place, size, r
  <1>4. \A n \in 1 .. size : at(n) \in kept /\ place[at(n)] = n
    BY <1>1
  <1>5. \A i \in kept : at(place[i]) = i
    <2> TAKE i \in kept
    <2>1. at(place[i]) \in kept /\ place[at(place[i])] = place[i]
      BY <1>1, <1>4
    <2> DEFINE k == at(place[i])
    <2>2. k \in kept /\ place[k] = place[i]
      BY <2>1
    <2> HIDE DEF k
    <2>3. ~ (k < i) /\ ~ (i < k)
      BY <1>1, <2>2
    <2>4. k = i
      BY <1>3, <2>2, <2>3
    <2> QED
      BY <2>4 DEF k
  <1> HIDE DEF at
  <1>6. r \in Seq(S)
    <2>1. \A n \in 1 .. size : seq[at(n)] \in S
      BY <1>4
    <2> QED
      BY <1>1, <1>2, <2>1
  <1>7. DOMAIN r = 1 .. size
    BY <1>2
  <1>8. Range(r) = { seq[i] : i \in kept }
    <2>1. ASSUME NEW x \in Range(r)
          PROVE  x \in { seq[i] : i \in kept }
      BY <1>2, <1>4, <1>7 DEF Range
    <2>2. ASSUME NEW i \in kept
          PROVE  seq[i] \in Range(r)
      <3>1. place[i] \in DOMAIN r /\ r[place[i]] = seq[i]
        BY <1>1, <1>2, <1>5
      <3> QED
        BY <3>1 DEF Range
    <2> QED
      BY <2>1, <2>2
  <1>9. ASSUME NEW n \in DOMAIN r
        PROVE  \E i \in kept :
                 /\ r[n] = seq[i]
                 /\ \A j \in kept : j < i => \E m \in 1 .. (n - 1) : r[m] = seq[j]
    <2>1. at(n) \in kept /\ place[at(n)] = n /\ r[n] = seq[at(n)]
      BY <1>2, <1>4, <1>7
    <2>2. ASSUME NEW j \in kept, j < at(n)
          PROVE  \E m \in 1 .. (n - 1) : r[m] = seq[j]
      <3>1. place[j] < n /\ place[j] \in 1 .. size /\ n \in 1 .. size
        BY <1>1, <1>7, <2>1, <2>2
      <3>2. place[j] \in 1 .. (n - 1)
        BY <1>1, <3>1
      <3>3. r[place[j]] = seq[j]
        BY <1>2, <1>5, <3>1
      <3> QED
        BY <3>2, <3>3
    <2> QED
      BY <2>1, <2>2
  <1> QED
    BY <1>6, <1>8, <1>9 DEF r

(* _enqueue adds at the end, and only what is not there.                   *)
LEMMA Added ==
  ASSUME outbox \in Seq(Item), NEW item \in Item
  PROVE  /\ Add(item) \in Seq(Item)
         /\ Range(Add(item)) = Range(outbox) \cup {item}
         /\ \A i \in DOMAIN outbox : i \in DOMAIN Add(item) /\ Add(item)[i] = outbox[i]
         /\ \A i \in DOMAIN Add(item) : i \notin DOMAIN outbox => Add(item)[i] = item
  <1>1. CASE item \in Range(outbox)
    BY <1>1 DEF Add
  <1>2. CASE item \notin Range(outbox)
    <2> DEFINE after == Append(outbox, item)
    <2>1. /\ after \in Seq(Item) /\ DOMAIN outbox = 1 .. Len(outbox) /\ Len(outbox) \in Nat
          /\ DOMAIN after = 1 .. (Len(outbox) + 1)
          /\ \A i \in DOMAIN outbox : after[i] = outbox[i]
          /\ after[Len(outbox) + 1] = item
      OBVIOUS
    <2> HIDE DEF after
    <2>2. Add(item) = after
      BY <1>2 DEF Add, after
    <2>3. \A i \in DOMAIN after : i \notin DOMAIN outbox => i = Len(outbox) + 1
      BY <2>1
    <2>4. \A i \in DOMAIN outbox : i \in DOMAIN after
      BY <2>1
    <2>5. Range(after) = Range(outbox) \cup {item}
      <3>1. \A x \in Range(after) : x \in Range(outbox) \cup {item}
        BY <2>1, <2>3 DEF Range
      <3>2. Len(outbox) + 1 \in DOMAIN after
        BY <2>1
      <3>3. \A x \in Range(outbox) \cup {item} : x \in Range(after)
        BY <2>1, <2>4, <3>2 DEF Range
      <3> QED
        BY <3>1, <3>3
    <2> QED
      BY <2>1, <2>2, <2>3, <2>4, <2>5
  <1> QED
    BY <1>1, <1>2

-----------------------------------------------------------------------------
(* The operations on one row. *)

LEMMA Bounds ==
  /\ TimeoutLimit \in Nat /\ Backoff \in Nat /\ Delay \in Nat /\ MaxBlock \in Nat /\ MaxWindow \in Nat
  /\ TimeoutLimit > 0 /\ Hotkey \subseteq Nat /\ None \notin Hotkey /\ None \notin Context
  BY QueueAssumption

LEMMA SinceType ==
  ASSUME NEW h \in Hotkey, bound \in [Hotkey -> Nat], NEW t \in Row
  PROVE  Since(t, h) \in Nat
  BY DEF Since, Row

LEMMA Literals == 0 \in Int /\ FALSE \in BOOLEAN /\ TRUE \in BOOLEAN
  OBVIOUS

LEMMA EditedRow ==
  ASSUME NEW t \in Row, NEW status \in Live \cup {"none", "withdrawn", "done"},
         NEW retry \in Int, NEW parked \in BOOLEAN, NEW removed \in Nat, NEW w \in Nat
  PROVE  /\ [t EXCEPT !.status = status, !.parked = parked, !.retry = retry, !.removed = removed] \in Row
         /\ [t EXCEPT !.retry = retry, !.parked = parked] \in Row
         /\ [t EXCEPT !.retry = retry] \in Row
         /\ [t EXCEPT !.status = status, !.window = w] \in Row
  BY DEF Row

LEMMA WithdrawnRow ==
  ASSUME NEW h \in Hotkey, bound \in [Hotkey -> Nat], block \in Nat, NEW t \in Row, Fits(t, h)
  PROVE  /\ Withdrawn(t, h) \in Row /\ Fits(Withdrawn(t, h), h)
         /\ Withdrawn(t, h).status = "withdrawn" /\ ~ Withdrawn(t, h).parked
         /\ Withdrawn(t, h).window = t.window /\ Withdrawn(t, h).timeouts = t.timeouts
  <1> DEFINE m == Max({block, Since(t, h), bound[h]})
             r == [t EXCEPT !.status = "withdrawn", !.parked = FALSE, !.retry = 0, !.removed = m]
  <1>1. Since(t, h) \in Nat /\ bound[h] \in Nat
    BY SinceType
  <1>2. m \in Nat /\ m >= Since(t, h)
    BY <1>1, MaxOfThree
  <1>3. Withdrawn(t, h) = r
    BY DEF Withdrawn
  <1> HIDE DEF m
  <1>4. /\ r \in Row /\ r.status = "withdrawn" /\ ~ r.parked /\ r.window = t.window
        /\ r.removed = m /\ r.readmitted = t.readmitted /\ r.timeouts = t.timeouts
    <2>1. "withdrawn" \in Live \cup {"none", "withdrawn", "done"}
      OBVIOUS
    <2>2. r \in Row
      BY <1>2, <2>1, EditedRow, Literals, Zenon
    <2> QED
      BY <2>2 DEF Row
  <1> HIDE DEF r
  <1>5. Since(r, h) = Since(t, h)
    BY <1>4 DEF Since
  <1>6. Fits(r, h)
    BY <1>2, <1>4, <1>5 DEF Fits, Live
  <1> QED
    BY <1>3, <1>4, <1>6

(* Back in the queue, and otherwise as before.                             *)
Requeued(r, t) ==
  /\ r \in Row /\ r.status = "queued" /\ r.timeouts = t.timeouts /\ r.window = t.window
  /\ r.readmitted = t.readmitted /\ r.removed = t.removed

LEMMA QueuedRow ==
  ASSUME NEW t \in Row, NEW retry \in Int, NEW parked \in BOOLEAN
  PROVE  Requeued(Queued(t, retry, parked), t) /\ Queued(t, retry, parked).parked = parked
  BY DEF Queued, Requeued, Row, Live

LEMMA TimeoutRow ==
  ASSUME NEW t \in Row
  PROVE  /\ Timeout(t) \in Row /\ Timeout(t).timeouts = t.timeouts + 1
         /\ Timeout(t).window = t.window /\ Timeout(t).status = t.status /\ Timeout(t).parked = t.parked
         /\ Timeout(t).removed = t.removed /\ Timeout(t).readmitted = t.readmitted
  BY DEF Timeout, Row

(* Giving a row back: it fits, is of the same window, and is queued or      *)
(* withdrawn if it was still running.                                       *)
GivenBack(r, t, h) ==
  /\ r \in Row /\ Fits(r, h) /\ r.window = t.window /\ r.timeouts = t.timeouts
  /\ r = t \/ (t.status = "running" /\ r.status \in {"queued", "withdrawn"})

LEMMA RequeuedRow ==
  ASSUME NEW h \in Hotkey, NEW t \in Row, Fits(t, h), t.status = "running", NEW retry \in Int, NEW parked \in BOOLEAN
  PROVE  GivenBack(Queued(t, retry, parked), t, h)
  <1>1. Requeued(Queued(t, retry, parked), t)
    BY QueuedRow
  <1> QED
    BY <1>1 DEF Requeued, GivenBack, Fits

LEMMA RemovedRow ==
  ASSUME NEW h \in Hotkey, bound \in [Hotkey -> Nat], block \in Nat, NEW t \in Row, Fits(t, h), t.status = "running"
  PROVE  GivenBack(Withdrawn(t, h), t, h)
  BY WithdrawnRow DEF GivenBack

LEMMA DeferredRow ==
  ASSUME NEW h \in Hotkey, bound \in [Hotkey -> Nat], block \in Nat,
         NEW t \in Row, Fits(t, h), NEW reason, NEW retry \in Int
  PROVE  GivenBack(Deferred(t, h, reason, retry), t, h)
  <1> DEFINE d == Deferred(t, h, reason, retry)
  <1>1. CASE t.status # "running"
    BY <1>1 DEF Deferred, GivenBack
  <1>2. CASE t.status = "running"
    <2>1. d \in {Withdrawn(t, h), Queued(t, 0, FALSE), Queued(t, 0, TRUE), Queued(t, retry, FALSE)}
      BY <1>2 DEF Deferred
    <2>2. /\ GivenBack(Withdrawn(t, h), t, h) /\ GivenBack(Queued(t, 0, FALSE), t, h)
          /\ GivenBack(Queued(t, 0, TRUE), t, h) /\ GivenBack(Queued(t, retry, FALSE), t, h)
      BY <1>2, RequeuedRow, RemovedRow, Literals, Zenon
    <2> HIDE DEF d
    <2>3. GivenBack(d, t, h)
      BY <2>1, <2>2
    <2> QED
      BY <2>3 DEF d
  <1> QED
    BY <1>1, <1>2

LEMMA ParkedRow ==
  ASSUME NEW h \in Hotkey, bound \in [Hotkey -> Nat], block \in Nat, NEW t \in Row, Fits(t, h), NEW reason
  PROVE  GivenBack(Parked(t, h, reason), t, h)
  <1> DEFINE d == Parked(t, h, reason)
  <1>1. CASE t.status # "running"
    BY <1>1 DEF Parked, GivenBack
  <1>2. CASE t.status = "running"
    <2>1. d = Withdrawn(t, h) \/ d = Queued(t, 0, reason = "round")
      BY <1>2 DEF Parked
    <2>2. (reason = "round") \in BOOLEAN
      OBVIOUS
    <2>3. GivenBack(Withdrawn(t, h), t, h) /\ GivenBack(Queued(t, 0, reason = "round"), t, h)
      BY <1>2, <2>2, RequeuedRow, RemovedRow, Literals, Zenon
    <2> HIDE DEF d
    <2>4. GivenBack(d, t, h)
      BY <2>1, <2>3
    <2> QED
      BY <2>4 DEF d
  <1> QED
    BY <1>1, <1>2

(* The count of a row below its limit.                                      *)
LEMMA CountedRow ==
  ASSUME NEW h \in Hotkey, NEW t \in Row, Fits(t, h), t.timeouts < TimeoutLimit
  PROVE  /\ Timeout(t) \in Row /\ Fits(Timeout(t), h) /\ Timeout(t).window = t.window
         /\ Timeout(t).status = t.status /\ Timeout(t).parked = t.parked
  BY TimeoutRow, Bounds DEF Fits, Since, Row

(* The sweep withdraws rows at their limit and wakes parked ones; any other *)
(* row stays as it is.                                                      *)
LEMMA SweptRow ==
  ASSUME NEW h \in Hotkey, bound \in [Hotkey -> Nat], block \in Nat, NEW t \in Row, Fits(t, h)
  PROVE  /\ Swept(t, h) \in Row /\ Fits(Swept(t, h), h)
         /\ Swept(t, h).window = t.window /\ Swept(t, h).timeouts = t.timeouts
         /\ \/ Swept(t, h) = t
            \/ t.status \in Live /\ t.parked /\ Rotated(t.window) /\ ~ Swept(t, h).parked /\ Swept(t, h).status = t.status
            \/ t.status \in Live /\ ~ (t.timeouts < TimeoutLimit) /\ Swept(t, h).status = "withdrawn"
         /\ Swept(t, h).status \in Live => Swept(t, h).timeouts < TimeoutLimit
  <1>1. t.timeouts \in Nat /\ TimeoutLimit \in Nat
    BY Bounds DEF Row
  <1>2. CASE t.status \in Live /\ t.timeouts >= TimeoutLimit
    <2>1. Swept(t, h) = Withdrawn(t, h)
      BY <1>2 DEF Swept
    <2> QED
      BY <1>1, <1>2, <2>1, WithdrawnRow DEF Live
  <1>3. CASE t.status \in Live /\ ~ (t.timeouts >= TimeoutLimit) /\ t.parked /\ Rotated(t.window)
    <2> DEFINE r == [t EXCEPT !.retry = 0, !.parked = FALSE]
    <2>1. Swept(t, h) = r
      BY <1>3 DEF Swept
    <2>2. /\ r \in Row /\ r.window = t.window /\ r.status = t.status /\ ~ r.parked
          /\ r.timeouts = t.timeouts
      <3>1. r \in Row
        BY EditedRow, Literals, Zenon
      <3> QED
        BY <3>1 DEF Row
    <2>3. Fits(r, h)
      BY <1>3, <2>2 DEF Fits, Live
    <2> QED
      BY <1>1, <1>3, <2>1, <2>2, <2>3
  <1>4. CASE ~ (t.status \in Live /\ (t.timeouts >= TimeoutLimit \/ (t.parked /\ Rotated(t.window))))
    <2>1. Swept(t, h) = t
      BY <1>4 DEF Swept
    <2> QED
      BY <1>1, <1>4, <2>1
  <1> QED
    BY <1>2, <1>3, <1>4

-----------------------------------------------------------------------------
(* Types. *)

LEMMA WorkerFields ==
  ASSUME worker \in WorkerState
  PROVE  /\ worker.at = "idle" => worker = Idle
         /\ worker.at # "idle" => worker.context \in Context
         /\ worker.at = "history" => worker.waiting \in SUBSET (Hotkey \cup {None})
         /\ worker.at = "pick" => /\ worker.waiting \in SUBSET (Hotkey \cup {None})
                                  /\ worker.published \in SUBSET (Hotkey \cup {None})
                                  /\ worker.partials \in SUBSET (Hotkey \cup {None})
         /\ Engaged => worker.entry \in Hotkey
         /\ worker.at \in {"start", "prepare", "score"} =>
              worker \in [at : {"start", "prepare", "score"}, context : Context, entry : Hotkey, resume : BOOLEAN]
         /\ worker.at = "enqueue" => worker.kind \in {"partial", "terminal"}
         /\ worker.at = "defer" =>
              worker \in [at : {"defer", "counted"}, context : Context, entry : Hotkey, reason : Reason]
  BY DEF WorkerState, Engaged, Idle

LEMMA ContextFields ==
  ASSUME NEW c \in Context
  PROVE  /\ c.window \in Window /\ c.window.id \in Nat /\ c.window.start \in Nat
         /\ c.block \in Nat /\ c.results \in SUBSET Item
  BY DEF Context, Window

LEMMA ItemFields ==
  ASSUME NEW x \in Item
  PROVE  /\ x.hotkey \in Hotkey \cup {None} /\ x.window \in 0 .. MaxWindow
         /\ x.kind \in {"baseline", "partial", "terminal"}
  BY DEF Item

LEMMA OutboxSeq ==
  ASSUME outbox \in Seq(Item)
  PROVE  /\ Range(outbox) \subseteq Item
         /\ \A i \in DOMAIN outbox : outbox[i] \in Item /\ outbox[i] \in Range(outbox)
         /\ DOMAIN outbox = 1 .. Len(outbox) /\ Len(outbox) \in Nat
         /\ outbox # <<>> => 1 \in DOMAIN outbox
  BY DEF Range

LEMMA InitTypes == Init => TypeInv
  <1> SUFFICES ASSUME Init PROVE TypeInv
    OBVIOUS
  <1>1. block \in 0 .. MaxBlock /\ bound \in [Hotkey -> Nat] /\ commits \in SUBSET [hotkey : Hotkey, block : Nat]
    BY Bounds DEF Init
  <1>2. window \in Window /\ window.id <= MaxWindow /\ window.start <= block
    BY Bounds DEF Init, Window
  <1>3. results \in SUBSET Item /\ signed \in SUBSET Item /\ outbox \in Seq(Item) /\ uses \in [Hotkey -> Nat \cup {None}]
    BY DEF Init
  <1>4. trig \in [Hotkey -> Row]
    <2>1. Absent \in Row
      BY DEF Absent, Row
    <2> QED
      BY <2>1 DEF Init
  <1>5. worker \in WorkerState /\ writer \in WriterState
    BY DEF Init, WorkerState, WriterState
  <1>6. context \in {None} \cup Context /\ chain \in {"replay", "reconcile", "publish", "write"}
    BY DEF Init
  <1> QED
    BY <1>1, <1>2, <1>3, <1>4, <1>5, <1>6 DEF TypeInv

(* Early stops that stand finalized in the active window.                   *)
Stopped == { r.hotkey : r \in { s \in results : s.kind = "partial" /\ s.window = window.id } }

(* A block is counted up to the bound, and a window turns within its own;  *)
(* a use is charged to a hotkey with a finalized answer or a binding.      *)
LEMMA BlockFacts ==
  ASSUME TypeInv, NEW turns \in BOOLEAN, NEW lost, NEW miner \in SUBSET Hotkey, NEW landed \in SUBSET signed,
         FinalizedBlock(turns, lost, miner, landed)
  PROVE  /\ block' \in 0 .. MaxBlock /\ block <= block'
         /\ window' \in Window /\ window'.id <= MaxWindow /\ window'.start <= block'
         /\ IF turns THEN window'.id = window.id + 1 ELSE window' = window
         /\ bound' \in [Hotkey -> Nat] /\ \A h \in Hotkey : bound[h] # 0 => bound'[h] = bound[h]
         /\ commits' \in SUBSET [hotkey : Hotkey, block : Nat]
         /\ results' = results \cup landed /\ signed' = signed \ landed
         /\ uses' \in [Hotkey -> Nat \cup {None}]
         /\ \A h \in Hotkey : uses'[h] # None => uses[h] # None \/ h \in lost \/ bound[h] # 0
  <1> DEFINE b    == Min({block + 1, MaxBlock})
             w    == IF turns THEN [id |-> window.id + 1, start |-> b] ELSE window
             kept == [ h \in Hotkey |-> IF turns /\ h \in lost /\ uses[h] = None THEN window.id ELSE uses[h] ]
             hit  == { h \in Candidates(w) : \E r \in landed : Terminal(r) /\ r.hotkey = h /\ r.window = w.id }
  <1>1. block \in Nat /\ block <= MaxBlock /\ MaxBlock \in Nat /\ MaxWindow \in Nat
    BY Bounds DEF TypeInv
  <1>2. b \in {block + 1, MaxBlock} /\ b <= block + 1 /\ b <= MaxBlock
    <2>1. block + 1 \in Int /\ MaxBlock \in Int
      BY <1>1
    <2> QED
      BY <2>1, MinOfTwo
  <1>3. b \in Nat /\ block <= b /\ b \in 0 .. MaxBlock
    BY <1>1, <1>2
  <1>4. /\ IF block < MaxBlock THEN turns => window.id < MaxWindow ELSE ~ turns
        /\ block' = b /\ window' = w
        /\ bound' = [ h \in Hotkey |-> IF h \in miner /\ bound[h] = 0 THEN b ELSE bound[h] ]
        /\ commits' = commits \cup { [hotkey |-> h, block |-> b] : h \in { g \in miner : bound[g] # 0 } }
        /\ results' = results \cup landed /\ signed' = signed \ landed
        /\ uses' = [ h \in Hotkey |-> IF kept[h] = None /\ h \in hit THEN w.id ELSE kept[h] ]
    BY Zenon DEF FinalizedBlock
  <1> HIDE DEF b
  <1>5. /\ window' \in Window /\ window'.id <= MaxWindow /\ window'.start <= block'
        /\ IF turns THEN window'.id = window.id + 1 ELSE window' = window
    <2>1. CASE turns
      BY <1>1, <1>3, <1>4, <2>1 DEF TypeInv, Window
    <2>2. CASE ~ turns
      BY <1>1, <1>3, <1>4, <2>2 DEF TypeInv, Window
    <2> QED
      BY <2>1, <2>2
  <1>6. bound' \in [Hotkey -> Nat] /\ \A h \in Hotkey : bound[h] # 0 => bound'[h] = bound[h]
    BY <1>3, <1>4 DEF TypeInv
  <1>7. commits' \in SUBSET [hotkey : Hotkey, block : Nat]
    BY <1>3, <1>4 DEF TypeInv
  <1>8. hit \subseteq { h \in Hotkey : bound[h] # 0 }
    BY DEF Candidates
  <1>9. w.id \in Nat /\ window.id \in Nat
    BY <1>4, <1>5 DEF TypeInv, Window
  <1> HIDE DEF w, hit
  <1>10. /\ uses' \in [Hotkey -> Nat \cup {None}]
         /\ \A h \in Hotkey : uses'[h] # None => uses[h] # None \/ h \in lost \/ bound[h] # 0
    BY <1>4, <1>8, <1>9 DEF TypeInv
  <1> QED
    BY <1>3, <1>4, <1>5, <1>6, <1>7, <1>10

LEMMA ReplayTypes == TypeInv /\ Replay => TypeInv'
  <1> SUFFICES ASSUME TypeInv, Replay PROVE TypeInv'
    OBVIOUS
  <1>1. PICK turns \in BOOLEAN, lost \in SUBSET Stopped, miner \in SUBSET Hotkey, landed \in SUBSET signed :
          FinalizedBlock(turns, lost, miner, landed)
    BY DEF Replay, Stopped
  <1>2. results' \in SUBSET Item /\ signed' \in SUBSET Item
    <2>1. results' = results \cup landed /\ signed' = signed \ landed
      BY <1>1, BlockFacts
    <2> QED
      BY <2>1 DEF TypeInv
  <1>3. UNCHANGED <<durable, context, chain, worker, writer>>
    BY DEF Replay
  <1> QED
    BY <1>1, <1>2, <1>3, BlockFacts DEF TypeInv, durable

-----------------------------------------------------------------------------
(* The trigger table, step by step. *)

LEMMA SinceSame ==
  ASSUME NEW h \in Hotkey, NEW t, bound'[h] = bound[h]
  PROVE  (Fits(t, h))' <=> Fits(t', h)
  BY DEF Fits, Since

(* A step of the worker alone, that ends, moves on with its opening, or    *)
(* takes up the one that is published.                                     *)
LEMMA WorkerStep ==
  ASSUME TableInv, UNCHANGED <<ledger, durable, context, chain, writer, signed>>,
         worker' \in WorkerState, worker'.at # "start",
         \/ worker' = Idle
         \/ worker.at # "idle" /\ worker'.context = worker.context
         \/ context # None /\ worker'.context = context,
         Engaged' => bound[worker'.entry] # 0,
         InHand' => InHand /\ worker'.entry = worker.entry,
         worker'.at = "pick" => worker'.partials \subseteq { h \in Hotkey : bound[h] # 0 }
  PROVE  TableInv'
  <1>1. TypeInv'
    BY DEF TableInv, TypeInv, ledger, durable
  <1>2. WindowInv'
    <2>1. Known' = Known
      BY DEF Known, ledger, durable
    <2>2. context # None => context.window.id <= context.window.id
      BY ContextFields DEF TableInv, TypeInv
    <2> QED
      BY <2>1, <2>2 DEF TableInv, WindowInv, ledger, durable, Idle
  <1>3. BoundInv'
    <2>1. Known' = Known
      BY DEF Known, ledger, durable
    <2> QED
      BY <2>1 DEF TableInv, BoundInv, ledger, durable
  <1>4. RowInv'
    BY DEF TableInv, RowInv, Fits, Since, ledger, durable
  <1>5. StartInv'
    BY DEF TableInv, StartInv, LimitHonoured, InHand, durable
  <1> QED
    BY <1>1, <1>2, <1>3, <1>4, <1>5 DEF TableInv

LEMMA BeginTable == TableInv /\ Begin => TableInv'
  <1> SUFFICES ASSUME TableInv, Begin PROVE TableInv'
    OBVIOUS
  <1>1. context \in Context /\ context # None
    BY DEF TableInv, TypeInv, Begin
  <1>2. worker' \in WorkerState /\ worker'.at = "waiting" /\ worker'.context = context
    BY <1>1 DEF Begin, WorkerState
  <1> QED
    BY <1>1, <1>2, WorkerStep DEF Begin, Engaged, InHand

LEMMA ReadWaitingTable == TableInv /\ ReadWaiting => TableInv'
  <1> SUFFICES ASSUME TableInv, ReadWaiting PROVE TableInv'
    OBVIOUS
  <1>1. worker.context \in Context /\ worker.at # "idle"
    BY WorkerFields DEF TableInv, TypeInv, ReadWaiting
  <1>2. { outbox[i].hotkey : i \in DOMAIN outbox } \in SUBSET (Hotkey \cup {None})
    BY OutboxSeq, ItemFields DEF TableInv, TypeInv
  <1>3. worker' \in WorkerState /\ worker'.at = "history" /\ worker'.context = worker.context
    BY <1>1, <1>2 DEF ReadWaiting, WorkerState
  <1> QED
    BY <1>1, <1>3, WorkerStep DEF ReadWaiting, Engaged, InHand

LEMMA ReadHistoryTable == TableInv /\ ReadHistory => TableInv'
  <1> SUFFICES ASSUME TableInv, ReadHistory PROVE TableInv'
    OBVIOUS
  <1> DEFINE terminal == Finalized("terminal", worker.context.window)
             partial  == Finalized("partial", worker.context.window)
  <1>1. /\ worker.context \in Context /\ worker.at # "idle"
        /\ worker.waiting \in SUBSET (Hotkey \cup {None})
    BY WorkerFields DEF TableInv, TypeInv, ReadHistory
  <1>2. partial \subseteq { h \in Hotkey : bound[h] # 0 }
    BY DEF TableInv, BoundInv, Known, Finalized
  <1>3. terminal \in SUBSET (Hotkey \cup {None})
    BY ItemFields DEF TableInv, TypeInv, Finalized
  <1>4. worker' = [ at |-> "pick", context |-> worker.context, waiting |-> worker.waiting,
                    published |-> terminal, partials |-> partial ]
    BY DEF ReadHistory
  <1> HIDE DEF terminal, partial
  <1>5. /\ worker' \in WorkerState /\ worker'.at = "pick" /\ worker'.context = worker.context
        /\ worker'.partials = partial
    BY <1>1, <1>2, <1>3, <1>4 DEF WorkerState
  <1> QED
    BY <1>1, <1>2, <1>5, WorkerStep DEF ReadHistory, Engaged, InHand

LEMMA FailingState ==
  ASSUME TableInv, worker.at \in {"prepare", "score"}, NEW reason \in Reason
  PROVE  /\ Failing(reason) \in WorkerState /\ Failing(reason).at = "defer"
         /\ Failing(reason).context = worker.context /\ Failing(reason).entry = worker.entry
         /\ bound[worker.entry] # 0 /\ worker.at # "idle" /\ worker.entry \in Hotkey
  <1>1. worker.context \in Context /\ worker.entry \in Hotkey /\ bound[worker.entry] # 0
    BY WorkerFields DEF TableInv, TypeInv, BoundInv, Engaged
  <1> QED
    BY <1>1 DEF Failing, WorkerState

LEMMA ScoreTable == TableInv /\ Score => TableInv'
  <1> SUFFICES ASSUME TableInv, Score PROVE TableInv'
    OBVIOUS
  <1>1. "other" \in Reason
    BY DEF Reason
  <1>2. worker.context \in Context /\ worker.entry \in Hotkey /\ bound[worker.entry] # 0
    BY WorkerFields DEF TableInv, TypeInv, BoundInv, Engaged, Score
  <1>3. PICK kind \in {"terminal", "partial"} :
          worker' = IF Cancelled(worker.context.window) THEN Failing("other")
                    ELSE [ at |-> "enqueue", context |-> worker.context, entry |-> worker.entry, kind |-> kind ]
    BY DEF Score
  <1>4. CASE Cancelled(worker.context.window)
    <2>1. worker' = Failing("other")
      BY <1>3, <1>4
    <2> QED
      BY <1>1, <2>1, FailingState, WorkerStep DEF Score, Engaged, InHand
  <1>5. CASE ~ Cancelled(worker.context.window)
    <2>1. /\ worker' \in WorkerState /\ worker'.at = "enqueue"
          /\ worker'.context = worker.context /\ worker'.entry = worker.entry
      BY <1>2, <1>3, <1>5 DEF WorkerState
    <2> QED
      BY <1>2, <2>1, WorkerStep DEF Score, Engaged, InHand
  <1> QED
    BY <1>4, <1>5

LEMMA FailTable == TableInv /\ Fail => TableInv'
  <1> SUFFICES ASSUME TableInv, Fail PROVE TableInv'
    OBVIOUS
  <1>1. PICK reason \in Reason : worker' = Failing(reason)
    BY QueueAssumption DEF Fail
  <1> QED
    BY <1>1, FailingState, WorkerStep DEF Fail, Engaged, InHand

(* The writer only moves results that are known along.                     *)
LEMMA WriterTable == TableInv /\ (Sign \/ Receipt \/ Unconfirmed) => TableInv'
  <1> SUFFICES ASSUME TableInv, Sign \/ Receipt \/ Unconfirmed PROVE TableInv'
    OBVIOUS
  <1>1. UNCHANGED <<ledger, durable, context, chain, worker>>
    BY DEF Sign, Receipt, Unconfirmed
  <1>2. writer' \in WriterState /\ signed' \in SUBSET Item /\ Known' \subseteq Known
    <2>1. CASE Sign
      <3>1. CASE outbox # <<>> /\ outbox[1].window = window.id
        <4>1. outbox[1] \in Item /\ outbox[1] \in Range(outbox)
          BY <3>1, OutboxSeq DEF TableInv, TypeInv
        <4>2. writer' = [at |-> "signed", item |-> outbox[1]] /\ signed' = signed \cup ({outbox[1]} \ results)
          BY <2>1, <3>1 DEF Sign
        <4> QED
          BY <1>1, <4>1, <4>2 DEF TableInv, TypeInv, WriterState, Known, ledger, durable
      <3>2. CASE ~ (outbox # <<>> /\ outbox[1].window = window.id)
        <4>1. writer' = Free /\ signed' = signed
          BY <2>1, <3>2 DEF Sign
        <4> QED
          BY <1>1, <4>1 DEF TableInv, TypeInv, WriterState, Known, ledger, durable
      <3> QED
        BY <3>1, <3>2
    <2>2. CASE Receipt \/ Unconfirmed
      <3>1. writer' = Free /\ signed' \subseteq signed
        BY <2>2 DEF Receipt, Unconfirmed
      <3> QED
        BY <1>1, <3>1 DEF TableInv, TypeInv, WriterState, Known, ledger, durable
    <2> QED
      BY <2>1, <2>2
  <1>3. TypeInv'
    BY <1>1, <1>2 DEF TableInv, TypeInv, ledger, durable
  <1>4. WindowInv'
    BY <1>1, <1>2 DEF TableInv, WindowInv, ledger, durable
  <1>5. BoundInv'
    BY <1>1, <1>2 DEF TableInv, BoundInv, Engaged, ledger, durable
  <1>6. RowInv'
    BY <1>1 DEF TableInv, RowInv, Fits, Since, ledger, durable
  <1>7. StartInv'
    BY <1>1 DEF TableInv, StartInv, LimitHonoured, ledger, durable
  <1> QED
    BY <1>3, <1>4, <1>5, <1>6, <1>7 DEF TableInv

LEMMA ReplayTable == TableInv /\ Replay => TableInv'
  <1> SUFFICES ASSUME TableInv, Replay PROVE TableInv'
    OBVIOUS
  <1>1. PICK turns \in BOOLEAN, lost \in SUBSET Stopped, miner \in SUBSET Hotkey, landed \in SUBSET signed :
          FinalizedBlock(turns, lost, miner, landed)
    BY DEF Replay, Stopped
  <1>2. UNCHANGED <<durable, context, chain, worker, writer>> /\ chain = "replay"
    BY DEF Replay
  <1>3. TypeInv'
    BY ReplayTypes DEF TableInv
  <1>4. /\ \A h \in Hotkey : bound[h] # 0 => bound'[h] = bound[h]
        /\ results' = results \cup landed /\ signed' = signed \ landed
        /\ window.id <= window'.id /\ window.id \in Nat /\ window'.id \in Nat
        /\ \A h \in Hotkey : uses'[h] # None => uses[h] # None \/ h \in lost \/ bound[h] # 0
    <2>1. TypeInv /\ window.id \in Nat /\ window'.id \in Nat
      BY <1>3 DEF TableInv, TypeInv, Window
    <2>2. IF turns THEN window'.id = window.id + 1 ELSE window' = window
      BY <1>1, <2>1, BlockFacts
    <2>3. window.id <= window'.id
      BY <2>1, <2>2
    <2> QED
      BY <1>1, <2>1, <2>3, BlockFacts
  <1>5. Known' = Known
    BY <1>1, <1>2, <1>4 DEF Known, durable
  <1>6. \A h \in lost : h \in Hotkey /\ bound[h] # 0
    BY DEF Stopped, Known, TableInv, BoundInv
  <1>7. WindowInv'
    <2>1. \A x \in Known : x.window \in Nat
      BY OutboxSeq, ItemFields DEF Known, TableInv, TypeInv
    <2>2. \A h \in Hotkey : trig[h].window \in Nat
      BY DEF TableInv, TypeInv, Row
    <2>3. context # None => context.window.id \in Nat
      BY ContextFields DEF TableInv, TypeInv
    <2>4. worker.at # "idle" => worker.context.window.id \in Nat
      BY WorkerFields, ContextFields DEF TableInv, TypeInv
    <2> QED
      BY <1>2, <1>4, <1>5, <2>1, <2>2, <2>3, <2>4 DEF TableInv, WindowInv, durable
  <1>8. BoundInv'
    <2>1. Engaged => worker.entry \in Hotkey
      BY WorkerFields DEF TableInv, TypeInv
    <2>2. \A h \in Hotkey : bound[h] # 0 => bound'[h] # 0
      BY <1>4
    <2>3. /\ \A h \in Hotkey : trig'[h].status # "none" \/ uses'[h] # None => bound'[h] # 0
          /\ \A x \in Known' : x.kind # "baseline" => x.hotkey \in Hotkey /\ bound'[x.hotkey] # 0
      BY <1>2, <1>4, <1>5, <1>6, <2>2 DEF TableInv, BoundInv, durable
    <2>4. /\ Engaged' => bound'[worker'.entry] # 0
          /\ worker'.at = "pick" => worker'.partials \subseteq { h \in Hotkey : bound'[h] # 0 }
      BY <1>2, <2>1, <2>2 DEF TableInv, BoundInv, Engaged
    <2> QED
      BY <2>3, <2>4 DEF BoundInv
  <1>9. RowInv'
    <2> SUFFICES ASSUME NEW h \in Hotkey
                 PROVE  (Fits(trig[h], h))'
      BY <1>2 DEF RowInv
    <2>1. Fits(trig[h], h) /\ trig' = trig
      BY <1>2 DEF TableInv, RowInv, durable
    <2>2. trig[h].status = "withdrawn" => bound'[h] = bound[h]
      BY <1>4 DEF TableInv, BoundInv
    <2> QED
      BY <2>1, <2>2 DEF Fits, Since
  <1>10. StartInv'
    BY <1>2 DEF TableInv, StartInv, LimitHonoured, durable
  <1> QED
    BY <1>3, <1>7, <1>8, <1>9, <1>10 DEF TableInv

(* A row moves within what the table allows: it fits, it is of the window  *)
(* it was of or of the worker's, and it is never forgotten.                *)
RowMoves(h) ==
  /\ trig'[h] \in Row /\ Fits(trig'[h], h)
  /\ trig'[h].status # "done" =>
       \/ trig[h].status # "done" /\ trig'[h].window <= trig[h].window
       \/ worker.at # "idle" /\ trig'[h].window = worker.context.window.id
  /\ trig[h].status # "none" => trig'[h].status # "none"
  /\ trig'[h].status # "none" => bound[h] # 0

(* The worker goes on with its opening, if it goes on.                     *)
WorkerMoves ==
  /\ worker' \in WorkerState
  /\ worker'.at # "idle" => worker.at # "idle" /\ worker'.context = worker.context
  /\ Engaged' => bound[worker'.entry] # 0
  /\ worker'.at = "pick" => worker' = worker

LEMMA TableStep ==
  ASSUME TableInv, UNCHANGED <<ledger, signed>>,
         trig' \in [Hotkey -> Row], \A h \in Hotkey : RowMoves(h),
         outbox' \in Seq(Item),
         \A x \in Range(outbox') :
           x \in Range(outbox) \/ (/\ x.window <= window.id
                                   /\ x.kind # "baseline" => x.hotkey \in Hotkey /\ bound[x.hotkey] # 0),
         \/ context' = context
         \/ context' = None /\ worker' = Idle
         \/ context' \in Context /\ context'.window = window,
         WorkerMoves, StartInv', writer' \in WriterState,
         chain' \in {"replay", "reconcile", "publish", "write"},
         chain' = "reconcile" => \A h \in Hotkey : bound[h] # 0 => trig'[h].status # "none"
  PROVE  TableInv'
  <1>1. TypeInv'
    BY DEF TableInv, TypeInv, WorkerMoves, ledger
  <1>2. \A x \in Known' : \/ x \in Known
                          \/ /\ x.window <= window.id
                             /\ x.kind # "baseline" => x.hotkey \in Hotkey /\ bound[x.hotkey] # 0
    BY DEF Known, ledger
  <1>3. WindowInv'
    <2>1. /\ window.id \in Nat
          /\ context # None => context.window.id \in Nat
          /\ worker.at # "idle" => worker.context.window.id \in Nat
          /\ \A h \in Hotkey : trig[h].window \in Nat /\ trig'[h].window \in Nat
      BY WorkerFields, ContextFields DEF TableInv, TypeInv, Window, Row
    <2>2. context' # None => context'.window.id <= window.id
      BY <2>1 DEF TableInv, WindowInv
    <2>3. worker'.at # "idle" => /\ context' # None
                                 /\ worker'.context.window.id <= context'.window.id
                                 /\ worker'.context.window.id <= window.id
      BY <2>1, Bounds DEF TableInv, WindowInv, WorkerMoves, Idle
    <2>4. \A x \in Known' : x.window <= window.id
      BY <1>2 DEF TableInv, WindowInv
    <2>5. ASSUME NEW h \in Hotkey, trig'[h].status # "done"
          PROVE  /\ trig'[h].window <= window.id
                 /\ context' # None => trig'[h].window <= context'.window.id
      <3>1. CASE trig[h].status # "done" /\ trig'[h].window <= trig[h].window
        BY <2>1, <3>1 DEF TableInv, WindowInv
      <3>2. CASE worker.at # "idle" /\ trig'[h].window = worker.context.window.id
        BY <2>1, <3>2 DEF TableInv, WindowInv
      <3> QED
        BY <2>5, <3>1, <3>2 DEF RowMoves
    <2> QED
      BY <2>2, <2>3, <2>4, <2>5 DEF WindowInv, ledger
  <1>4. BoundInv'
    <2>1. UNCHANGED <<bound, uses>>
      BY DEF ledger
    <2> QED
      BY <1>2, <2>1 DEF TableInv, BoundInv, RowMoves, WorkerMoves
  <1>5. RowInv'
    BY DEF RowInv, RowMoves, Fits, Since, ledger
  <1> QED
    BY <1>1, <1>3, <1>4, <1>5 DEF TableInv

(* The chosen row stays dispatchable, or the ledger consumes it.           *)
LEMMA StartKept ==
  ASSUME TableInv, worker' = worker,
         \A h \in Hotkey : trig[h].timeouts < TimeoutLimit =>
           /\ trig'[h].timeouts < TimeoutLimit
           /\ trig[h].status \in Live \cup {"done"} =>
                /\ trig'[h].status \in Live \cup {"done"}
                /\ trig[h].status = "done" => trig'[h].status = "done"
                /\ trig'[h].parked => trig[h].parked \/ trig'[h].status = "done"
  PROVE  StartInv'
  <1>1. InHand => worker.entry \in Hotkey
    BY WorkerFields DEF TableInv, TypeInv, Engaged, InHand
  <1> QED
    BY <1>1 DEF TableInv, StartInv, LimitHonoured, InHand

LEMMA WorkerStays == TableInv /\ (worker' = worker \/ worker' = Idle) /\ UNCHANGED bound => WorkerMoves
  BY DEF TableInv, TypeInv, BoundInv, WorkerMoves, WorkerState, Engaged, Idle

(* Reading the table sweeps it.                                            *)
LEMMA SweepRows ==
  ASSUME TableInv, NEW before
  PROVE  /\ Sweep(before) \in [Hotkey -> Row]
         /\ \A h \in Hotkey :
              /\ Fits(Sweep(before)[h], h)
              /\ Sweep(before)[h].window = trig[h].window /\ Sweep(before)[h].timeouts = trig[h].timeouts
              /\ \/ Sweep(before)[h] = trig[h]
                 \/ /\ trig[h].status \in Live /\ trig[h].parked /\ Rotated(trig[h].window)
                    /\ ~ Sweep(before)[h].parked /\ Sweep(before)[h].status = trig[h].status
                 \/ /\ trig[h].status \in Live /\ ~ (trig[h].timeouts < TimeoutLimit)
                    /\ Sweep(before)[h].status = "withdrawn"
              /\ /\ Sweep(before)[h].status \in Live /\ bound[h] # 0
                 /\ Since(Sweep(before)[h], h) < before
                 => Sweep(before)[h].timeouts < TimeoutLimit
  <1>1. bound \in [Hotkey -> Nat] /\ block \in Nat /\ \A h \in Hotkey : trig[h] \in Row /\ Fits(trig[h], h)
    BY Bounds DEF TableInv, TypeInv, RowInv
  <1>2. ASSUME NEW h \in Hotkey
        PROVE  LET r == Swept(trig[h], h)
               IN  /\ r \in Row /\ Fits(r, h) /\ r.window = trig[h].window /\ r.timeouts = trig[h].timeouts
                   /\ \/ r = trig[h]
                      \/ /\ trig[h].status \in Live /\ trig[h].parked /\ Rotated(trig[h].window)
                         /\ ~ r.parked /\ r.status = trig[h].status
                      \/ trig[h].status \in Live /\ ~ (trig[h].timeouts < TimeoutLimit) /\ r.status = "withdrawn"
                   /\ r.status \in Live => r.timeouts < TimeoutLimit
    BY <1>1, SweptRow
  <1>3. Sweep(before) = [ h \in Hotkey |-> IF bound[h] # 0 /\ Since(trig[h], h) < before THEN Swept(trig[h], h) ELSE trig[h] ]
    BY DEF Sweep
  <1>4. \A h \in Hotkey : \/ Sweep(before)[h] = trig[h] /\ ~ (bound[h] # 0 /\ Since(trig[h], h) < before)
                          \/ Sweep(before)[h] = Swept(trig[h], h)
    BY <1>3
  <1>5. Sweep(before) = [ h \in Hotkey |-> Sweep(before)[h] ]
    BY <1>3
  <1> QED
    BY <1>1, <1>2, <1>4, <1>5

(* What a sweep does to the row in the worker's hands: nothing but to wake it. *)
LEMMA SweptStart ==
  ASSUME TableInv, worker' = worker, NEW before, trig' = Sweep(before)
  PROVE  StartInv'
  <1>1. \A h \in Hotkey :
          /\ trig'[h].timeouts = trig[h].timeouts
          /\ \/ trig'[h] = trig[h]
             \/ ~ trig'[h].parked /\ trig'[h].status = trig[h].status
             \/ ~ (trig[h].timeouts < TimeoutLimit)
    BY SweepRows
  <1> QED
    BY <1>1, StartKept

LEMMA SweepMoves ==
  ASSUME TableInv, NEW before, trig' = Sweep(before)
  PROVE  \A h \in Hotkey : RowMoves(h) /\ (trig[h].status # "none" => trig'[h].status # "none")
  <1>1. \A h \in Hotkey : /\ trig'[h] \in Row /\ Fits(trig'[h], h) /\ trig'[h].window = trig[h].window
                          /\ trig'[h].status = trig[h].status \/ (trig[h].status \in Live /\ trig'[h].status = "withdrawn")
    BY SweepRows
  <1>2. \A h \in Hotkey : trig[h].window \in Nat /\ (trig[h].status # "none" => bound[h] # 0)
    BY DEF TableInv, TypeInv, Row, BoundInv
  <1> QED
    BY <1>1, <1>2 DEF RowMoves, Live

LEMMA SweepTable ==
  ASSUME TableInv, UNCHANGED <<ledger, signed, outbox, context, worker>>,
         NEW before, trig' = Sweep(before), writer' \in WriterState, chain' = "replay"
  PROVE  TableInv'
  <1>1. \A h \in Hotkey : RowMoves(h)
    BY SweepMoves
  <1>2. StartInv'
    BY SweptStart
  <1>3. WorkerMoves
    BY WorkerStays DEF ledger
  <1>4. trig' \in [Hotkey -> Row] /\ outbox' \in Seq(Item)
    BY SweepRows DEF TableInv, TypeInv
  <1> QED
    BY <1>1, <1>2, <1>3, <1>4, TableStep

LEMMA WriteTable == TableInv /\ (Write \/ Lagging) => TableInv'
  <1> SUFFICES ASSUME TableInv, Write \/ Lagging PROVE TableInv'
    OBVIOUS
  <1>1. /\ UNCHANGED <<ledger, signed, outbox, context, worker>>
        /\ trig' = Sweep(window.start) /\ chain' = "replay"
    BY DEF Write, Lagging
  <1>2. writer' \in WriterState
    BY DEF Write, Lagging, TableInv, TypeInv, WriterState
  <1> QED
    BY <1>1, <1>2, SweepTable

(* A readmission is younger than the withdrawal it ends.                   *)
LEMMA ReadmittedRow ==
  ASSUME TypeInv, NEW h \in Hotkey, Fresh(h) # {}
  PROVE  /\ Min(Fresh(h)) \in Nat /\ Min(Fresh(h)) > trig[h].removed
         /\ [hotkey |-> h, block |-> Min(Fresh(h))] \in commits
  <1>1. Fresh(h) \subseteq Nat
    BY DEF Fresh, TypeInv
  <1>2. Min(Fresh(h)) \in Fresh(h)
    BY <1>1, MinExists
  <1>3. \A b \in Fresh(h) : b > trig[h].removed /\ [hotkey |-> h, block |-> b] \in commits
    BY DEF Fresh, TypeInv
  <1> QED
    BY <1>1, <1>2, <1>3

(* What observe() makes of one row.                                        *)
LEMMA ObservedRow ==
  ASSUME TableInv, Observe, NEW h \in Hotkey
  PROVE  /\ trig'[h] \in Row /\ Fits(trig'[h], h) /\ trig'[h].timeouts <= trig[h].timeouts
         /\ \/ trig'[h] = trig[h] /\ (trig[h].status = "none" => bound[h] = 0)
            \/ /\ trig[h].status = "withdrawn" /\ Fresh(h) # {}
               /\ trig'[h].status = "queued" /\ ~ trig'[h].parked /\ trig'[h].window = trig[h].window
               /\ trig'[h].readmitted = Min(Fresh(h))
            \/ /\ trig[h].status = "none" /\ bound[h] # 0
               /\ trig'[h].status = "queued" /\ ~ trig'[h].parked /\ trig'[h].window = 0
  <1> DEFINE q == Queued(trig[h], 0, FALSE)
             r == [q EXCEPT !.readmitted = Min(Fresh(h)), !.timeouts = 0]
             a == Queued(Absent, 0, FALSE)
  <1>1. trig[h] \in Row /\ Fits(trig[h], h) /\ TimeoutLimit > 0 /\ TimeoutLimit \in Nat
    BY Bounds DEF TableInv, TypeInv, RowInv
  <1>2. trig'[h] = IF trig[h].status = "withdrawn" /\ Fresh(h) # {} THEN r
                   ELSE IF trig[h].status = "none" /\ bound[h] # 0 THEN a ELSE trig[h]
    BY DEF Observe
  <1>3. Requeued(q, trig[h]) /\ q.parked = FALSE
    BY <1>1, QueuedRow, Literals, Zenon
  <1>4. CASE trig[h].status = "withdrawn" /\ Fresh(h) # {}
    <2>1. Min(Fresh(h)) \in Nat
      BY <1>4, ReadmittedRow DEF TableInv
    <2>2. q \in Row /\ q.status = "queued" /\ q.window = trig[h].window /\ q.parked = FALSE
      BY <1>3 DEF Requeued
    <2> HIDE DEF q
    <2>3. /\ r \in Row /\ r.status = "queued" /\ r.window = trig[h].window /\ r.parked = FALSE
          /\ r.readmitted = Min(Fresh(h)) /\ r.timeouts = 0
      <3>1. r \in Row
        BY <2>1, <2>2 DEF Row
      <3> QED
        BY <2>2, <3>1 DEF Row
    <2>4. trig'[h] = r
      BY <1>2, <1>4
    <2> HIDE DEF r
    <2>5. trig[h].timeouts >= 0
      BY <1>1 DEF Row
    <2> QED
      BY <1>1, <1>4, <2>3, <2>4, <2>5 DEF Fits, Live
  <1>5. CASE trig[h].status = "none" /\ bound[h] # 0
    <2>1. Absent \in Row /\ Absent.timeouts = 0 /\ Absent.window = 0
      BY DEF Absent, Row
    <2>2. Requeued(a, Absent) /\ a.parked = FALSE
      BY <2>1, QueuedRow, Literals, Zenon
    <2>3. trig'[h] = a
      BY <1>2, <1>5
    <2>4. trig[h].timeouts >= 0
      BY <1>1 DEF Row
    <2> HIDE DEF a
    <2> QED
      BY <1>1, <1>5, <2>1, <2>2, <2>3, <2>4 DEF Requeued, Fits, Live
  <1>6. CASE ~ (trig[h].status = "withdrawn" /\ Fresh(h) # {}) /\ ~ (trig[h].status = "none" /\ bound[h] # 0)
    <2>1. trig[h].timeouts <= trig[h].timeouts
      BY <1>1 DEF Row
    <2> QED
      BY <1>1, <1>2, <1>6, <2>1 DEF TableInv, TypeInv
  <1> QED
    BY <1>4, <1>5, <1>6

LEMMA ObserveTable == TableInv /\ Observe => TableInv'
  <1> SUFFICES ASSUME TableInv, Observe PROVE TableInv'
    OBVIOUS
  <1>1. /\ UNCHANGED <<ledger, signed, outbox, context, worker, writer>>
        /\ chain' = "reconcile"
    BY DEF Observe
  <1>2. trig' \in [Hotkey -> Row]
    <2>1. trig' = [h \in Hotkey |-> trig'[h]]
      BY DEF Observe
    <2> QED
      BY <2>1, ObservedRow
  <1>3. \A h \in Hotkey : trig[h].window \in Nat /\ (trig[h].status # "none" => bound[h] # 0)
    BY DEF TableInv, TypeInv, Row, BoundInv
  <1>4. \A h \in Hotkey : RowMoves(h) /\ (bound[h] # 0 => trig'[h].status # "none")
    BY <1>3, ObservedRow DEF RowMoves
  <1>5. StartInv'
    <2>1. \A h \in Hotkey : trig'[h].timeouts \in Nat /\ trig[h].timeouts \in Nat /\ TimeoutLimit \in Nat
      BY <1>2, Bounds DEF TableInv, TypeInv, Row
    <2> QED
      BY <1>1, <2>1, ObservedRow, StartKept DEF Live
  <1>6. WorkerMoves
    BY <1>1, WorkerStays DEF ledger
  <1> QED
    BY <1>1, <1>2, <1>4, <1>5, <1>6, TableStep DEF TableInv, TypeInv

LEMMA ReconciledRow ==
  ASSUME TypeInv, NEW h \in Hotkey, NEW t \in Row, Fits(t, h)
  PROVE  /\ Reconciled(t, h) \in Row /\ Fits(Reconciled(t, h), h) /\ Reconciled(t, h).timeouts = t.timeouts
         /\ Reconciled(t, h) = t \/ (t.status \in Live \cup {"withdrawn"} /\ Reconciled(t, h).status = "done")
         /\ uses[h] # None /\ t.status # "none" => Reconciled(t, h).status = "done"
  <1>1. CASE uses[h] # None /\ t.status \in Live \cup {"withdrawn"}
    <2> DEFINE r == [t EXCEPT !.status = "done", !.window = uses[h]]
    <2>1. uses[h] \in Nat
      BY <1>1 DEF TypeInv
    <2>2. r \in Row /\ r.status = "done" /\ r.timeouts = t.timeouts
      BY <2>1 DEF Row
    <2>3. Reconciled(t, h) = r
      BY <1>1 DEF Reconciled
    <2> QED
      BY <1>1, <2>2, <2>3 DEF Fits, Live
  <1>2. CASE ~ (uses[h] # None /\ t.status \in Live \cup {"withdrawn"})
    <2>1. Reconciled(t, h) = t
      BY <1>2 DEF Reconciled
    <2>2. uses[h] # None /\ t.status # "none" => t.status = "done"
      BY <1>2 DEF Row
    <2> QED
      BY <2>1, <2>2
  <1> QED
    BY <1>1, <1>2

LEMMA ReconcileTable == TableInv /\ Reconcile => TableInv'
  <1> SUFFICES ASSUME TableInv, Reconcile PROVE TableInv'
    OBVIOUS
  <1>1. /\ UNCHANGED <<ledger, signed, outbox, context, worker, writer>>
        /\ chain' = "publish" /\ trig' = [ h \in Hotkey |-> Reconciled(trig[h], h) ]
    BY DEF Reconcile
  <1>2. ASSUME NEW h \in Hotkey
        PROVE  /\ trig'[h] \in Row /\ Fits(trig'[h], h) /\ trig'[h].timeouts = trig[h].timeouts
               /\ trig'[h] = trig[h] \/ (trig[h].status \in Live \cup {"withdrawn"} /\ trig'[h].status = "done")
    BY <1>1, ReconciledRow DEF TableInv, TypeInv, RowInv
  <1>3. \A h \in Hotkey : trig[h].window \in Nat /\ (trig[h].status # "none" => bound[h] # 0)
    BY DEF TableInv, TypeInv, Row, BoundInv
  <1>4. \A h \in Hotkey : RowMoves(h)
    BY <1>2, <1>3 DEF RowMoves, Live
  <1>5. StartInv'
    BY <1>1, <1>2, StartKept
  <1>6. WorkerMoves
    BY <1>1, WorkerStays DEF ledger
  <1>7. trig' \in [Hotkey -> Row]
    BY <1>1, <1>2
  <1> QED
    BY <1>1, <1>4, <1>5, <1>6, <1>7, TableStep DEF TableInv, TypeInv

(* The items that stay in the outbox.                                      *)
LEMMA OutboxKept ==
  ASSUME TypeInv
  PROVE  /\ OutboxNow \in Seq(Item)
         /\ Range(OutboxNow) = { x \in Range(outbox) : x \notin results /\ x.window = window.id }
  <1> DEFINE kept == { i \in DOMAIN outbox : outbox[i] \notin results /\ outbox[i].window = window.id }
  <1>1. kept \in SUBSET (DOMAIN outbox) /\ outbox \in Seq(Item)
    BY DEF TypeInv
  <1>2. OutboxNow = Selected(outbox, kept)
    BY DEF OutboxNow
  <1>3. { outbox[i] : i \in kept } = { x \in Range(outbox) : x \notin results /\ x.window = window.id }
    BY DEF Range
  <1> HIDE DEF kept
  <1> QED
    BY <1>1, <1>2, <1>3, SelectedItems

LEMMA PublishTable == TableInv /\ Publish => TableInv'
  <1> SUFFICES ASSUME TableInv, Publish PROVE TableInv'
    OBVIOUS
  <1>1. /\ UNCHANGED <<ledger, signed, worker, writer>> /\ chain' = "write"
        /\ context' = [window |-> window, block |-> block, results |-> results]
        /\ outbox' = OutboxNow
    BY DEF Publish
  <1>2. PICK expired : trig' = [ h \in Hotkey |->
          IF h \in expired /\ trig[h].status = "running" THEN Queued(trig[h], 0, FALSE) ELSE trig[h] ]
    BY DEF Publish
  <1>3. ASSUME NEW h \in Hotkey
        PROVE  /\ trig'[h] \in Row /\ Fits(trig'[h], h) /\ trig'[h].timeouts = trig[h].timeouts
               /\ \/ trig'[h] = trig[h]
                  \/ /\ trig[h].status = "running" /\ trig'[h].status = "queued"
                     /\ ~ trig'[h].parked /\ trig'[h].window = trig[h].window
    <2>1. trig[h] \in Row /\ Fits(trig[h], h)
      BY DEF TableInv, TypeInv, RowInv
    <2> DEFINE q == Queued(trig[h], 0, FALSE)
    <2>2. Requeued(q, trig[h]) /\ q.parked = FALSE
      BY <2>1, QueuedRow, Literals, Zenon
    <2>3. trig'[h] = IF h \in expired /\ trig[h].status = "running" THEN q ELSE trig[h]
      BY <1>2
    <2> HIDE DEF q
    <2> QED
      BY <2>1, <2>2, <2>3 DEF Requeued, Fits, Live
  <1>4. \A h \in Hotkey : trig[h].window \in Nat /\ (trig[h].status # "none" => bound[h] # 0)
    BY DEF TableInv, TypeInv, Row, BoundInv
  <1>5. \A h \in Hotkey : RowMoves(h)
    BY <1>3, <1>4 DEF RowMoves
  <1>6. StartInv'
    BY <1>1, <1>3, StartKept DEF Live
  <1>7. WorkerMoves
    BY <1>1, WorkerStays DEF ledger
  <1>8. trig' \in [Hotkey -> Row]
    BY <1>2, <1>3
  <1>9. context' \in Context /\ context'.window = window
    BY <1>1, Bounds DEF Context, TableInv, TypeInv
  <1>10. outbox' \in Seq(Item) /\ Range(outbox') \subseteq Range(outbox)
    BY <1>1, OutboxKept DEF TableInv
  <1> QED
    BY <1>1, <1>5, <1>6, <1>7, <1>8, <1>9, <1>10, TableStep DEF TableInv, TypeInv

(* Whoever is dispatched passes the filter, and its row is live and awake. *)
LEMMA DispatchedRow ==
  ASSUME NEW table, NEW before, NEW now, NEW passing, NEW h \in Dispatched(table, before, now, passing)
  PROVE  /\ h \in passing /\ h \in Hotkey /\ bound[h] # 0
         /\ table[h].status \in Live /\ ~ table[h].parked /\ Since(table[h], h) < before
  <1>1. PICK e \in UNION { Group(table, c, before, now) : c \in Coldkey } : e[3] = h /\ h \in passing
    BY DEF Dispatched
  <1>2. PICK g \in Candidates(window) : /\ table[g].status \in Live /\ ~ table[g].parked
                                        /\ e[3] = g /\ Since(table[g], g) < before
    <2>1. PICK c \in Coldkey : e \in Group(table, c, before, now)
      OBVIOUS
    <2> DEFINE mine == { g \in Candidates(window) :
                           /\ ColdkeyOf[g] = c /\ table[g].status \in Live /\ ~ table[g].parked
                           /\ Since(table[g], g) < before }
    <2>2. \E f : e \in { <<f[g], turn[c], g>> : g \in mine }
      <3> DEFINE Before(g, k) == \/ Since(table[g], g) < Since(table[k], k)
                                 \/ Since(table[g], g) = Since(table[k], k) /\ g <= k
                 place == [ k \in mine |-> Cardinality({ g \in mine : Before(g, k) }) ]
      <3>1. e \in { <<Cardinality({ g \in mine : Before(g, k) }), turn[c], k>> : k \in mine }
        BY <2>1 DEF Group
      <3>2. PICK k \in mine : e = <<Cardinality({ g \in mine : Before(g, k) }), turn[c], k>>
        BY <3>1
      <3>3. e = <<place[k], turn[c], k>>
        BY <3>2
      <3> HIDE DEF place, mine
      <3> QED
        BY <3>3
    <2> QED
      BY <2>2
  <1> QED
    BY <1>1, <1>2 DEF Candidates

(* What a crash and the restart after it leave of one row.                 *)
LEMMA CrashedRow ==
  ASSUME TableInv, Crash, NEW h \in Hotkey
  PROVE  /\ trig'[h] \in Row /\ Fits(trig'[h], h)
         /\ trig'[h].status = "done" \/ (trig'[h].window = trig[h].window /\ trig'[h].parked = trig[h].parked)
         /\ \/ trig'[h].status = trig[h].status
            \/ trig[h].status \in Live \cup {"withdrawn"} /\ trig'[h].status = "done"
            \/ uses[h] # None /\ trig[h].status = "withdrawn" /\ trig'[h].status = "queued"
  <1> DEFINE t == trig[h]
             q == [t EXCEPT !.status = "queued"]
  <1>1. t \in Row /\ Fits(t, h)
    BY DEF TableInv, TypeInv, RowInv
  <1>2. PICK left \in {t, Reconciled(t, h), Reopened(t, h)} : trig'[h] = left \/ trig'[h] = Unretried(left)
    <2>1. \E reopened, done, recovered :
            trig' = [ g \in Hotkey |-> IF g \in recovered THEN Unretried(Left(g, reopened, done))
                                       ELSE Left(g, reopened, done) ]
      BY DEF Crash
    <2>2. PICK reopened, done, recovered :
            trig'[h] = IF h \in recovered THEN Unretried(Left(h, reopened, done)) ELSE Left(h, reopened, done)
      BY <2>1
    <2>3. Left(h, reopened, done) \in {t, Reconciled(t, h), Reopened(t, h)}
      BY DEF Left
    <2> QED
      BY <2>2, <2>3
  <1>3. q \in Row /\ q.status = "queued" /\ q.window = t.window /\ q.parked = t.parked /\ q.timeouts = t.timeouts
    BY <1>1 DEF Row, Live
  <1>4. /\ left \in Row /\ Fits(left, h)
        /\ left.status = "done" \/ (left.window = t.window /\ left.parked = t.parked)
        /\ \/ left.status = t.status
           \/ t.status \in Live \cup {"withdrawn"} /\ left.status = "done"
           \/ uses[h] # None /\ t.status = "withdrawn" /\ left.status = "queued"
    <2>1. CASE left = t
      BY <1>1, <2>1
    <2>2. CASE left = Reconciled(t, h)
      BY <1>1, <2>2, ReconciledRow DEF TableInv
    <2>3. CASE left = Reopened(t, h) /\ left # t
      <3>1. left = q /\ uses[h] # None /\ t.status = "withdrawn"
        BY <2>3 DEF Reopened
      <3> HIDE DEF q
      <3>2. Fits(q, h)
        BY <1>1, <1>3, <3>1 DEF Fits
      <3> QED
        BY <1>3, <3>1, <3>2
    <2> QED
      BY <1>2, <2>1, <2>2, <2>3
  <1> HIDE DEF t
  <1>5. CASE trig'[h] = left
    BY <1>4, <1>5 DEF t
  <1>6. CASE trig'[h] = Unretried(left) /\ trig'[h] # left
    <2> DEFINE r == [left EXCEPT !.retry = 0]
    <2>1. trig'[h] = r
      BY <1>6 DEF Unretried
    <2>2. /\ r \in Row /\ r.status = left.status /\ r.window = left.window /\ r.parked = left.parked
          /\ r.timeouts = left.timeouts /\ r.removed = left.removed /\ r.readmitted = left.readmitted
      BY <1>4 DEF Row
    <2> HIDE DEF r
    <2>3. Fits(r, h)
      BY <1>4, <2>2 DEF Fits, Since
    <2> QED
      BY <1>4, <2>1, <2>2, <2>3 DEF t
  <1> QED
    BY <1>2, <1>5, <1>6

LEMMA CrashTable == TableInv /\ Crash => TableInv'
  <1> SUFFICES ASSUME TableInv, Crash PROVE TableInv'
    OBVIOUS
  <1>1. /\ UNCHANGED <<ledger, signed, outbox>> /\ context' = None /\ chain' = "replay"
        /\ worker' = Idle /\ writer' = Free
    BY DEF Crash
  <1>2. \A h \in Hotkey : trig[h].window \in Nat /\ (trig[h].status # "none" => bound[h] # 0)
    BY DEF TableInv, TypeInv, Row, BoundInv
  <1>3. \A h \in Hotkey : RowMoves(h)
    BY <1>2, CrashedRow DEF RowMoves, Live
  <1>4. StartInv'
    BY <1>1 DEF StartInv, LimitHonoured, Idle
  <1>5. WorkerMoves
    BY <1>1, WorkerStays DEF ledger
  <1>6. trig' \in [Hotkey -> Row] /\ writer' \in WriterState
    <2>1. trig' = [h \in Hotkey |-> trig'[h]]
      BY DEF Crash
    <2> QED
      BY <1>1, <2>1, CrashedRow DEF WriterState
  <1> QED
    BY <1>1, <1>3, <1>4, <1>5, <1>6, TableStep DEF TableInv, TypeInv

(* What the worker's choice is made of.                                    *)
LEMMA PickedEntry ==
  ASSUME TableInv, Pick
  PROVE  /\ trig' = Sweep(worker.context.window.start)
         /\ \/ worker' = Idle
            \/ /\ ~ Cancelled(worker.context.window)
               /\ worker' \in WorkerState /\ worker'.at = "start" /\ worker'.context = worker.context
               /\ worker'.entry \in Hotkey /\ bound[worker'.entry] # 0
               /\ trig'[worker'.entry].status \in Live /\ ~ trig'[worker'.entry].parked
               /\ trig'[worker'.entry].timeouts < TimeoutLimit
               /\ worker'.entry \notin worker.waiting \cup worker.published
               /\ worker'.entry \in worker.partials => worker'.resume
  <1>1. worker.context \in Context
    BY WorkerFields DEF TableInv, TypeInv, Pick
  <1>2. PICK inconclusive \in SUBSET worker.partials :
          LET before == worker.context.window.start
              table  == Sweep(before)
              next   == Dispatched(table, before, worker.context.block, Passing(inconclusive))
          IN  /\ trig' = table
              /\ worker' = IF next = {} \/ Cancelled(worker.context.window) THEN Idle
                           ELSE [ at |-> "start", context |-> worker.context,
                                  entry |-> CHOOSE h \in next : TRUE,
                                  resume |-> (CHOOSE h \in next : TRUE) \in worker.partials ]
    BY Zenon DEF Pick
  <1> DEFINE before == worker.context.window.start
             table  == Sweep(before)
             next   == Dispatched(table, before, worker.context.block, Passing(inconclusive))
             entry  == CHOOSE h \in next : TRUE
  <1>3. ASSUME next # {}
        PROVE  /\ entry \in Hotkey /\ bound[entry] # 0 /\ table[entry].status \in Live /\ ~ table[entry].parked
               /\ table[entry].timeouts < TimeoutLimit
               /\ entry \notin worker.waiting \cup worker.published
    <2>1. entry \in next
      BY <1>3
    <2> HIDE DEF entry
    <2>2. /\ entry \in Passing(inconclusive) /\ entry \in Hotkey /\ bound[entry] # 0
          /\ table[entry].status \in Live /\ ~ table[entry].parked /\ Since(table[entry], entry) < before
      BY <2>1, DispatchedRow
    <2>3. table[entry].timeouts < TimeoutLimit
      BY <2>2, SweepRows
    <2> QED
      BY <2>2, <2>3 DEF Passing
  <1>4. /\ trig' = table
        /\ worker' = IF next = {} \/ Cancelled(worker.context.window) THEN Idle
                     ELSE [ at |-> "start", context |-> worker.context, entry |-> entry,
                            resume |-> entry \in worker.partials ]
    BY <1>2
  <1> HIDE DEF entry, next, table
  <1>5. CASE next = {} \/ Cancelled(worker.context.window)
    BY <1>4, <1>5 DEF table
  <1>6. CASE next # {} /\ ~ Cancelled(worker.context.window)
    <2> DEFINE resumes == entry \in worker.partials
    <2>1. resumes \in BOOLEAN
      OBVIOUS
    <2>2. worker' = [ at |-> "start", context |-> worker.context, entry |-> entry, resume |-> resumes ]
      BY <1>4, <1>6
    <2>3. entry \in worker.partials => resumes
      OBVIOUS
    <2> HIDE DEF resumes
    <2>4. /\ worker' \in WorkerState /\ worker'.at = "start" /\ worker'.context = worker.context
          /\ worker'.entry = entry /\ worker'.resume = resumes
      BY <1>1, <1>3, <1>6, <2>1, <2>2 DEF WorkerState
    <2> QED
      BY <1>3, <1>4, <1>6, <2>3, <2>4 DEF table
  <1> QED
    BY <1>5, <1>6

LEMMA PickTable == TableInv /\ Pick => TableInv'
  <1> SUFFICES ASSUME TableInv, Pick PROVE TableInv'
    OBVIOUS
  <1>1. UNCHANGED <<ledger, signed, outbox, context, writer, chain>> /\ worker.at = "pick"
    BY DEF Pick
  <1>2. trig' = Sweep(worker.context.window.start)
    BY PickedEntry
  <1>5. \A h \in Hotkey : RowMoves(h) /\ (trig[h].status # "none" => trig'[h].status # "none")
    BY <1>2, SweepMoves
  <1>6. StartInv'
    BY PickedEntry DEF StartInv, LimitHonoured, Idle
  <1>7. WorkerMoves
    <2>1. CASE worker' = Idle
      BY <1>1, <2>1, WorkerStays DEF ledger
    <2>2. CASE worker' # Idle
      BY <1>1, <2>2, PickedEntry DEF WorkerMoves, Idle
    <2> QED
      BY <2>1, <2>2
  <1>8. trig' \in [Hotkey -> Row]
    BY <1>2, SweepRows
  <1>9. chain' = "reconcile" => \A h \in Hotkey : bound[h] # 0 => trig'[h].status # "none"
    BY <1>1, <1>5 DEF TableInv, RowInv
  <1> QED
    BY <1>1, <1>5, <1>6, <1>7, <1>8, <1>9, TableStep DEF TableInv, TypeInv

LEMMA StartTable == TableInv /\ Start => TableInv'
  <1> SUFFICES ASSUME TableInv, Start PROVE TableInv'
    OBVIOUS
  <1> DEFINE e == worker.entry
  <1>1. UNCHANGED <<ledger, signed, outbox, context, writer, chain>> /\ worker.at = "start"
    BY DEF Start
  <1>2. CASE Refused(trig[e])
    <2>1. worker' = Idle /\ trig' = trig
      BY <1>2 DEF Start
    <2>2. \A h \in Hotkey : RowMoves(h)
      BY <2>1 DEF RowMoves, TableInv, TypeInv, RowInv, BoundInv, Row
    <2>3. WorkerMoves
      BY <1>1, <2>1, WorkerStays DEF ledger
    <2>4. StartInv'
      BY <2>1 DEF StartInv, LimitHonoured, Idle
    <2> QED
      BY <1>1, <2>1, <2>2, <2>3, <2>4, TableStep DEF TableInv, TypeInv, RowInv
  <1>3. CASE ~ Refused(trig[e])
    <2> DEFINE w == worker.context.window.id
               r == [trig[e] EXCEPT !.status = "running", !.window = w]
    <2>1. /\ worker \in [at : {"start", "prepare", "score"}, context : Context, entry : Hotkey, resume : BOOLEAN]
          /\ e \in Hotkey /\ bound[e] # 0 /\ w \in Nat
          /\ trig[e] \in Row /\ Fits(trig[e], e) /\ trig[e].status \in Live /\ ~ trig[e].parked
          /\ trig[e].timeouts < TimeoutLimit
      BY <1>1, <1>3, WorkerFields, ContextFields DEF TableInv, TypeInv, StartInv, LimitHonoured, BoundInv, RowInv, Refused, Engaged, Live
    <2>2. worker' = [worker EXCEPT !.at = "prepare"] /\ trig' = [trig EXCEPT ![e].status = "running", ![e].window = w]
      BY <1>3 DEF Start
    <2>3. /\ r \in Row /\ r.status = "running" /\ r.window = w /\ r.parked = trig[e].parked
          /\ r.timeouts = trig[e].timeouts
      BY <2>1 DEF Row, Live
    <2>4. trig'[e] = r /\ \A h \in Hotkey \ {e} : trig'[h] = trig[h]
      BY <2>1, <2>2 DEF TableInv, TypeInv
    <2>5. trig' \in [Hotkey -> Row]
      <3>1. trig' = [trig EXCEPT ![e] = r]
        BY <2>2
      <3> HIDE DEF r
      <3> QED
        BY <2>3, <3>1 DEF TableInv, TypeInv
    <2> HIDE DEF r
    <2>6. Fits(r, e)
      BY <2>1, <2>3 DEF Fits, Live
    <2>7. \A h \in Hotkey : RowMoves(h)
      <3>1. ASSUME NEW h \in Hotkey, h # e
            PROVE  RowMoves(h)
        BY <2>4, <3>1 DEF RowMoves, TableInv, TypeInv, RowInv, BoundInv, Row
      <3>2. RowMoves(e)
        BY <1>1, <2>1, <2>3, <2>4, <2>6 DEF RowMoves
      <3> QED
        BY <3>1, <3>2
    <2>8. worker' \in WorkerState /\ worker'.at = "prepare" /\ worker'.context = worker.context /\ worker'.entry = e
      BY <2>1, <2>2 DEF WorkerState
    <2>9. WorkerMoves
      BY <1>1, <2>1, <2>8 DEF WorkerMoves
    <2>10. StartInv'
      BY <2>1, <2>3, <2>4, <2>8 DEF StartInv, LimitHonoured
    <2>11. chain' = "reconcile" => \A h \in Hotkey : bound[h] # 0 => trig'[h].status # "none"
      BY <1>1, <2>3, <2>4 DEF TableInv, RowInv
    <2> QED
      BY <1>1, <2>5, <2>7, <2>9, <2>10, <2>11, TableStep DEF TableInv, TypeInv
  <1> QED
    BY <1>2, <1>3

(* Rows that stay as they are move within what the table allows.           *)
LEMMA RowsStay == TableInv /\ trig' = trig => \A h \in Hotkey : RowMoves(h)
  BY DEF RowMoves, TableInv, TypeInv, RowInv, BoundInv, Row

(* An item of the worker's own window may join the outbox.                 *)
LEMMA AddTable ==
  ASSUME TableInv, UNCHANGED <<ledger, signed, trig, context, writer, chain>>, worker.at # "idle",
         NEW item \in Item, item.window = worker.context.window.id,
         item.kind # "baseline" => item.hotkey \in Hotkey /\ bound[item.hotkey] # 0,
         outbox' = outbox \/ outbox' = Add(item), WorkerMoves, worker'.at # "start",
         InHand' => InHand /\ worker'.entry = worker.entry
  PROVE  TableInv'
  <1>1. outbox' \in Seq(Item) /\ Range(outbox') \subseteq Range(outbox) \cup {item}
    BY Added DEF TableInv, TypeInv
  <1>2. item.window <= window.id
    BY DEF TableInv, WindowInv
  <1>3. StartInv'
    BY DEF TableInv, StartInv, LimitHonoured, InHand
  <1> QED
    BY <1>1, <1>2, <1>3, RowsStay, TableStep DEF TableInv, TypeInv, RowInv

LEMMA PrepareTable == TableInv /\ Prepare => TableInv'
  <1> SUFFICES ASSUME TableInv, Prepare PROVE TableInv'
    OBVIOUS
  <1> DEFINE w == worker.context.window
  <1>1. UNCHANGED <<ledger, signed, trig, context, writer, chain>> /\ worker.at = "prepare"
    BY DEF Prepare
  <1>2. /\ worker.context \in Context /\ bound[worker.entry] # 0
        /\ worker \in [at : {"start", "prepare", "score"}, context : Context, entry : Hotkey, resume : BOOLEAN]
    BY <1>1, WorkerFields DEF TableInv, TypeInv, BoundInv, Engaged
  <1>3. w.id \in 0 .. MaxWindow
    BY <1>1, <1>2, ContextFields, Bounds DEF TableInv, TypeInv, WindowInv, Window
  <1>4. Baseline(w.id) \in Item /\ Baseline(w.id).window = w.id /\ Baseline(w.id).kind = "baseline"
    BY <1>3 DEF Baseline, Item
  <1>5. \/ worker' = Failing("other") /\ outbox' = outbox
        \/ /\ worker' = [worker EXCEPT !.at = "score"]
           /\ outbox' = outbox \/ outbox' = Add(Baseline(w.id))
    BY DEF Prepare, Baseline
  <1>6. WorkerMoves /\ worker'.at # "start" /\ worker'.entry = worker.entry
    <2>1. CASE worker' = Failing("other")
      <3>1. "other" \in Reason
        BY DEF Reason
      <3> QED
        BY <1>1, <2>1, <3>1, FailingState DEF WorkerMoves
    <2>2. CASE worker' = [worker EXCEPT !.at = "score"]
      <3>1. /\ worker' \in WorkerState /\ worker'.at = "score"
            /\ worker'.context = worker.context /\ worker'.entry = worker.entry
        BY <1>2, <2>2 DEF WorkerState
      <3> QED
        BY <1>1, <1>2, <3>1 DEF WorkerMoves
    <2> QED
      BY <1>5, <2>1, <2>2
  <1> QED
    BY <1>1, <1>4, <1>5, <1>6, AddTable DEF InHand

LEMMA EnqueueTable == TableInv /\ Enqueue => TableInv'
  <1> SUFFICES ASSUME TableInv, Enqueue PROVE TableInv'
    OBVIOUS
  <1> DEFINE item == [hotkey |-> worker.entry, window |-> worker.context.window.id, kind |-> worker.kind]
  <1>1. UNCHANGED <<ledger, signed, trig, context, writer, chain>> /\ worker.at = "enqueue" /\ worker' = Idle
    BY DEF Enqueue
  <1>2. /\ worker.context \in Context /\ worker.entry \in Hotkey /\ bound[worker.entry] # 0
        /\ worker.kind \in {"partial", "terminal"}
    BY <1>1, WorkerFields DEF TableInv, TypeInv, BoundInv, Engaged
  <1>3. worker.context.window.id \in 0 .. MaxWindow
    BY <1>1, <1>2, ContextFields, Bounds DEF TableInv, TypeInv, WindowInv, Window
  <1>4. item \in Item /\ item.window = worker.context.window.id /\ item.hotkey = worker.entry
    BY <1>2, <1>3 DEF Item
  <1>5. outbox' = Add(item)
    BY DEF Enqueue
  <1> HIDE DEF item
  <1>6. WorkerMoves /\ worker'.at # "start" /\ ~ InHand'
    BY <1>1, WorkerStays DEF ledger, Idle, InHand
  <1> QED
    BY <1>1, <1>2, <1>4, <1>5, <1>6, AddTable

(* The worker's row changes within its window; the others stay.            *)
LEMMA EntryTable ==
  ASSUME TableInv, UNCHANGED <<ledger, signed, outbox, context, writer, chain>>,
         NEW e \in Hotkey, NEW r \in Row, trig' = [trig EXCEPT ![e] = r], Fits(r, e), r.window = trig[e].window,
         r = trig[e] \/ (trig[e].status = "running" /\ r.status \in {"running", "queued", "withdrawn"}),
         WorkerMoves, ~ InHand'
  PROVE  TableInv'
  <1>1. trig' \in [Hotkey -> Row] /\ trig'[e] = r /\ \A h \in Hotkey \ {e} : trig'[h] = trig[h]
    BY DEF TableInv, TypeInv
  <1>2. \A h \in Hotkey : /\ trig[h] \in Row /\ Fits(trig[h], h) /\ trig[h].window \in Nat
                          /\ trig[h].status # "none" => bound[h] # 0
    BY DEF TableInv, TypeInv, RowInv, BoundInv, Row
  <1>3. \A h \in Hotkey : RowMoves(h)
    <2>1. ASSUME NEW h \in Hotkey, h # e
          PROVE  RowMoves(h)
      BY <1>1, <1>2, <2>1 DEF RowMoves
    <2>2. RowMoves(e)
      BY <1>1, <1>2 DEF RowMoves
    <2> QED
      BY <2>1, <2>2
  <1>4. StartInv'
    BY DEF StartInv, LimitHonoured, InHand
  <1>5. chain' = "reconcile" => \A h \in Hotkey : bound[h] # 0 => trig'[h].status # "none"
    BY <1>1 DEF TableInv, RowInv
  <1> QED
    BY <1>1, <1>3, <1>4, <1>5, TableStep DEF TableInv, TypeInv

LEMMA EntryFacts ==
  ASSUME TableInv, Engaged
  PROVE  /\ worker.context \in Context /\ worker.entry \in Hotkey /\ bound[worker.entry] # 0
         /\ block \in Nat /\ bound \in [Hotkey -> Nat] /\ trig[worker.entry] \in Row
         /\ Fits(trig[worker.entry], worker.entry)
  BY WorkerFields, Bounds DEF TableInv, TypeInv, BoundInv, RowInv, Engaged

LEMMA DeferTable == TableInv /\ Defer => TableInv'
  <1> SUFFICES ASSUME TableInv, Defer PROVE TableInv'
    OBVIOUS
  <1> DEFINE e == worker.entry
             retry == Retry(worker.context.block)
             d == Deferred(trig[e], e, worker.reason, retry)
  <1>1. UNCHANGED <<ledger, signed, outbox, context, writer, chain>> /\ worker.at = "defer"
    BY DEF Defer
  <1>2. /\ worker.context \in Context /\ e \in Hotkey /\ bound[e] # 0 /\ block \in Nat
        /\ trig[e] \in Row /\ Fits(trig[e], e) /\ bound \in [Hotkey -> Nat]
    BY <1>1, EntryFacts DEF Engaged
  <1>3. CASE Counts(trig[e], worker.reason)
    <2>1. /\ trig' = [trig EXCEPT ![e] = Timeout(trig[e])] /\ worker' = [worker EXCEPT !.at = "counted"]
          /\ trig[e].status = "running"
      BY <1>3 DEF Defer, Counts
    <2>2. trig[e].timeouts < TimeoutLimit
      BY <1>1 DEF TableInv, StartInv, LimitHonoured
    <2>3. worker \in [at : {"defer", "counted"}, context : Context, entry : Hotkey, reason : Reason]
      BY <1>1, WorkerFields DEF TableInv, TypeInv
    <2>4. worker' \in WorkerState /\ worker'.at = "counted" /\ worker'.context = worker.context /\ worker'.entry = e
      BY <2>1, <2>3 DEF WorkerState
    <2>5. WorkerMoves /\ ~ InHand'
      BY <1>1, <1>2, <2>4 DEF WorkerMoves, InHand
    <2> QED
      BY <1>1, <1>2, <2>1, <2>2, <2>5, CountedRow, EntryTable
  <1>4. CASE ~ Counts(trig[e], worker.reason)
    <2>1. trig' = [trig EXCEPT ![e] = d] /\ worker' = Idle
      BY <1>4 DEF Defer
    <2>2. retry \in Int
      <3>1. worker.context.block + Delay \in Int /\ block + Backoff \in Int
        BY <1>2, ContextFields, Bounds
      <3> QED
        BY <3>1, MinOfTwo DEF Retry
    <2>3. GivenBack(d, trig[e], e)
      BY <1>2, <2>2, DeferredRow
    <2> HIDE DEF d
    <2>4. WorkerMoves /\ ~ InHand'
      BY <1>1, <2>1, WorkerStays DEF ledger, InHand, Idle
    <2> QED
      BY <1>1, <1>2, <2>1, <2>3, <2>4, EntryTable DEF GivenBack
  <1> QED
    BY <1>3, <1>4

LEMMA ParkTable == TableInv /\ Park => TableInv'
  <1> SUFFICES ASSUME TableInv, Park PROVE TableInv'
    OBVIOUS
  <1> DEFINE e == worker.entry
             d == Parked(trig[e], e, worker.reason)
  <1>1. /\ UNCHANGED <<ledger, signed, outbox, context, writer, chain>> /\ worker.at = "counted"
        /\ trig' = [trig EXCEPT ![e] = d] /\ worker' = Idle
    BY DEF Park
  <1>2. /\ e \in Hotkey /\ block \in Nat /\ trig[e] \in Row /\ Fits(trig[e], e) /\ bound \in [Hotkey -> Nat]
    BY <1>1, EntryFacts DEF Engaged
  <1>3. GivenBack(d, trig[e], e)
    BY <1>2, ParkedRow
  <1> HIDE DEF d
  <1>4. WorkerMoves /\ ~ InHand'
    BY <1>1, WorkerStays DEF ledger, InHand, Idle
  <1> QED
    BY <1>1, <1>2, <1>3, <1>4, EntryTable DEF GivenBack

LEMMA InitTable == Init => TableInv
  <1> SUFFICES ASSUME Init PROVE TableInv
    OBVIOUS
  <1>1. TypeInv
    BY InitTypes
  <1>2. Known = {} /\ context = None /\ worker.at = "idle" /\ window.id = 0
    BY DEF Init, Known, Range, Idle
  <1>3. \A h \in Hotkey : trig[h] = Absent /\ uses[h] = None
    BY DEF Init
  <1>4. WindowInv
    BY <1>2, <1>3 DEF WindowInv, Absent
  <1>5. BoundInv
    BY <1>2, <1>3 DEF BoundInv, Absent, Engaged
  <1>6. RowInv
    BY <1>3, Bounds DEF RowInv, Fits, Absent, Live, Init
  <1>7. StartInv
    BY <1>2 DEF StartInv, LimitHonoured
  <1> QED
    BY <1>1, <1>4, <1>5, <1>6, <1>7 DEF TableInv

LEMMA TableStutter == TableInv /\ UNCHANGED vars => TableInv'
  BY DEF vars, ledger, durable, TableInv, TypeInv, WindowInv, Known, BoundInv, Engaged, RowInv, Fits, Since, StartInv, LimitHonoured

LEMMA TableInductive == TableInv /\ [Next]_vars => TableInv'
  <1> SUFFICES ASSUME TableInv, [Next]_vars PROVE TableInv'
    OBVIOUS
  <1>1. CASE Next
    BY <1>1, ReplayTable, WriteTable, ObserveTable, ReconcileTable, PublishTable, WriterTable, BeginTable,
       ReadWaitingTable, ReadHistoryTable, PickTable, StartTable, PrepareTable, ScoreTable, DeferTable, ParkTable,
       EnqueueTable, FailTable, CrashTable DEF Next, ChainThread, Worker
  <1>2. CASE UNCHANGED vars
    BY <1>2, TableStutter
  <1> QED
    BY <1>1, <1>2

(* TableInv, the inductive invariant of the trigger table, always holds.    *)
THEOREM TableInvariant == Spec => []TableInv
  BY InitTable, TableInductive, PTL DEF Spec

(* Types, and a withdrawn row is never behind the commitment that admitted  *)
(* it, so that it cannot readmit it (ScheduledTriggers).                    *)
THEOREM TriggerTypes == Spec => []TypeOK
  <1>1. TableInv => TypeOK
    <2> SUFFICES ASSUME TableInv PROVE TypeOK
      OBVIOUS
    <2>1. block \in 0 .. MaxBlock /\ window.id \in 0 .. MaxWindow /\ window.start <= block
      BY Bounds DEF TableInv, TypeInv, Window
    <2>2. results \subseteq Item /\ signed \subseteq Item /\ \A i \in DOMAIN outbox : outbox[i] \in Item
      BY OutboxSeq DEF TableInv, TypeInv
    <2>3. \A h \in Hotkey : trig[h] \in Row /\ Fits(trig[h], h)
      BY DEF TableInv, TypeInv, RowInv
    <2> QED
      BY <2>1, <2>2, <2>3 DEF TypeOK, Row, Fits
  <1> QED
    BY <1>1, TableInvariant, PTL

(* A challenger at its limit of time-outs is never in the worker's hands,   *)
(* also when the process dies between the last count and the withdrawal:    *)
(* the sweep that precedes every choice withdraws the row that was left     *)
(* (ScheduledTriggers.defer, pending).                                      *)
THEOREM TimeoutsLimited == Spec => []LimitHonoured
  <1>1. TableInv => LimitHonoured
    BY DEF TableInv, StartInv
  <1> QED
    BY <1>1, TableInvariant, PTL

-----------------------------------------------------------------------------
(* What a step may do to a row. *)

RowKeeps(h) ==
  /\ trig[h].status = "done" => trig'[h].status = "done"
  /\ trig[h].status = "withdrawn" /\ trig'[h].status \in Live /\ uses[h] = None =>
       Fresh(h) # {} /\ trig'[h].readmitted = Min(Fresh(h))
  /\ trig[h].parked /\ trig'[h].status \in Live /\ ~ trig'[h].parked => Rotated(trig[h].window)

LEMMA RowsKept ==
  ASSUME TableInv, [Next]_vars, NEW h \in Hotkey
  PROVE  RowKeeps(h)
  <1>1. trig[h] \in Row /\ Fits(trig[h], h)
    BY DEF TableInv, TypeInv, RowInv
  <1>2. CASE trig' = trig
    BY <1>2 DEF RowKeeps, Live
  <1>3. CASE Write \/ Lagging \/ Pick
    <2>1. PICK before : trig' = Sweep(before)
      BY <1>3, PickedEntry DEF Write, Lagging
    <2>2. \/ trig'[h] = trig[h]
          \/ trig[h].status \in Live /\ Rotated(trig[h].window)
          \/ trig[h].status \in Live /\ trig'[h].status = "withdrawn"
      BY <2>1, SweepRows
    <2> QED
      BY <2>2 DEF RowKeeps, Live
  <1>4. CASE Observe
    BY <1>1, <1>4, ObservedRow DEF RowKeeps, Fits, Live
  <1>5. CASE Reconcile
    <2>1. trig'[h] = Reconciled(trig[h], h)
      BY <1>5 DEF Reconcile
    <2>2. trig'[h] = trig[h] \/ (trig[h].status \in Live \cup {"withdrawn"} /\ trig'[h].status = "done")
      BY <1>1, <2>1, ReconciledRow DEF TableInv
    <2> QED
      BY <2>2 DEF RowKeeps, Live
  <1>6. CASE Publish
    <2> DEFINE q == Queued(trig[h], 0, FALSE)
    <2>1. trig'[h] = trig[h] \/ (trig[h].status = "running" /\ trig'[h] = q)
      BY <1>6 DEF Publish
    <2>2. trig[h].status = "running" => ~ trig[h].parked
      BY <1>1 DEF Fits
    <2> QED
      BY <2>1, <2>2 DEF RowKeeps, Live
  <1>7. CASE Start
    <2> DEFINE e == worker.entry
    <2>1. e \in Hotkey /\ worker.at = "start"
      BY <1>7, WorkerFields DEF TableInv, TypeInv, Engaged, Start
    <2>2. CASE Refused(trig[e])
      BY <1>2, <1>7, <2>2 DEF Start
    <2>3. CASE ~ Refused(trig[e])
      <3>1. trig[e].status \in Live /\ ~ trig[e].parked
        BY <2>1, <2>3 DEF TableInv, StartInv, Refused, Live
      <3>2. h # e => trig'[h] = trig[h]
        BY <1>7, <2>1, <2>3 DEF Start, TableInv, TypeInv
      <3> QED
        BY <3>1, <3>2 DEF RowKeeps, Live
    <2> QED
      BY <2>2, <2>3
  <1>8. CASE Defer \/ Park
    <2> DEFINE e == worker.entry
    <2>1. e \in Hotkey /\ Engaged
      BY <1>8, WorkerFields DEF TableInv, TypeInv, Engaged, Defer, Park
    <2>2. trig[e] \in Row /\ bound \in [Hotkey -> Nat]
      BY <2>1, EntryFacts
    <2>3. PICK r : trig' = [trig EXCEPT ![e] = r] /\ (r = trig[e] \/ trig[e].status = "running")
      <3>1. CASE Defer /\ Counts(trig[e], worker.reason)
        BY <3>1 DEF Defer, Counts
      <3>2. CASE Defer /\ ~ Counts(trig[e], worker.reason)
        BY <3>2 DEF Defer, Deferred
      <3>3. CASE Park
        BY <3>3 DEF Park, Parked
      <3> QED
        BY <1>8, <3>1, <3>2, <3>3
    <2>4. trig'[e] = r /\ (h # e => trig'[h] = trig[h])
      BY <2>1, <2>3 DEF TableInv, TypeInv
    <2>5. trig[h].status = "running" => ~ trig[h].parked
      BY <1>1 DEF Fits
    <2> QED
      BY <2>3, <2>4, <2>5 DEF RowKeeps, Live
  <1>9. CASE Crash
    BY <1>1, <1>9, CrashedRow DEF RowKeeps, Fits, Live
  <1>10. \/ trig' = trig
         \/ Write \/ Lagging \/ Pick \/ Observe \/ Reconcile \/ Publish \/ Start \/ Defer \/ Park \/ Crash
    BY DEF Next, ChainThread, Worker, vars, ledger, durable, Replay, Sign, Receipt, Unconfirmed, Begin,
       ReadWaiting, ReadHistory, Prepare, Score, Fail, Enqueue
  <1> QED
    BY <1>2, <1>3, <1>4, <1>5, <1>6, <1>7, <1>8, <1>9, <1>10

(* A hotkey the ledger consumed is never dispatched again: no step, of any  *)
(* thread, takes a row out of "done" (Triggers.start, reconcile).           *)
THEOREM ConsumedForGood == Spec => ConsumedStaysDone
  <1>1. TableInv /\ [Next]_vars =>
          [\A h \in Hotkey : trig[h].status = "done" => trig'[h].status = "done"]_vars
    BY RowsKept DEF RowKeeps
  <1> QED
    BY <1>1, TableInvariant, PTL DEF Spec, ConsumedStaysDone

(* A withdrawn hotkey comes back only by a finalized commitment younger     *)
(* than its withdrawal, and no commitment brings it back twice              *)
(* (ScheduledTriggers.observe after a crash between rows and cursor).       *)
THEOREM NoSecondReadmission == Spec => ReadmittedOnce
  <1> DEFINE A == \A h \in Hotkey : trig[h].status = "withdrawn" /\ trig'[h].status \in Live /\ uses[h] = None =>
                    /\ trig'[h].readmitted > Max({trig[h].readmitted, trig[h].removed})
                    /\ [hotkey |-> h, block |-> trig'[h].readmitted] \in commits
  <1>1. TableInv /\ [Next]_vars => [A]_vars
    <2> SUFFICES ASSUME TableInv, [Next]_vars, NEW h \in Hotkey,
                        trig[h].status = "withdrawn", trig'[h].status \in Live, uses[h] = None
                 PROVE  /\ trig'[h].readmitted > Max({trig[h].readmitted, trig[h].removed})
                        /\ [hotkey |-> h, block |-> trig'[h].readmitted] \in commits
      OBVIOUS
    <2>1. Fresh(h) # {} /\ trig'[h].readmitted = Min(Fresh(h))
      BY RowsKept DEF RowKeeps
    <2>2. /\ Min(Fresh(h)) \in Nat /\ Min(Fresh(h)) > trig[h].removed
          /\ [hotkey |-> h, block |-> Min(Fresh(h))] \in commits
      BY <2>1, ReadmittedRow DEF TableInv
    <2>3. trig[h].removed >= trig[h].readmitted /\ trig[h].removed \in Nat /\ trig[h].readmitted \in Nat
      <3>1. trig[h] \in Row /\ Fits(trig[h], h)
        BY DEF TableInv, TypeInv, RowInv
      <3>2. trig[h].removed \in Nat /\ trig[h].readmitted \in Nat
        BY <3>1 DEF Row
      <3>3. trig[h].removed >= Since(trig[h], h)
        BY <3>1 DEF Fits
      <3>4. trig[h].readmitted # 0 => Since(trig[h], h) = trig[h].readmitted
        BY DEF Since
      <3> QED
        BY <3>2, <3>3, <3>4
    <2>4. Max({trig[h].readmitted, trig[h].removed}) \in {trig[h].readmitted, trig[h].removed}
      BY <2>3, MaxOfTwo
    <2> QED
      BY <2>1, <2>2, <2>3, <2>4
  <1> QED
    BY <1>1, TableInvariant, PTL DEF Spec, ReadmittedOnce

(* "Restart cannot grant more time in the same window": a parked row wakes  *)
(* only once the window it was parked in is over (ScheduledTriggers.pending,*)
(* ManagedEvaluator._interruption).                                         *)
THEOREM ParkedStays == Spec => ParkedUntilRotation
  <1> DEFINE A == \A h \in Hotkey : trig[h].parked /\ trig'[h].status \in Live /\ ~ trig'[h].parked =>
                    window.id > trig[h].window
  <1>1. TableInv /\ [Next]_vars => [A]_vars
    <2> SUFFICES ASSUME TableInv, [Next]_vars, NEW h \in Hotkey,
                        trig[h].parked, trig'[h].status \in Live, ~ trig'[h].parked
                 PROVE  window.id > trig[h].window
      OBVIOUS
    <2>1. Rotated(trig[h].window)
      BY RowsKept DEF RowKeeps
    <2>2. trig[h].status # "done"
      BY RowsKept DEF RowKeeps, Live
    <2>3. context # None /\ context.window.id # trig[h].window
      BY <2>1 DEF Rotated
    <2>4. context \in Context /\ context.window.id \in Nat /\ window.id \in Nat /\ trig[h].window \in Nat
      BY <2>3, ContextFields DEF TableInv, TypeInv, Row, Window
    <2>5. trig[h].window <= context.window.id /\ context.window.id <= window.id
      BY <2>2, <2>3 DEF TableInv, WindowInv
    <2> QED
      BY <2>3, <2>4, <2>5
  <1> QED
    BY <1>1, TableInvariant, PTL DEF Spec, ParkedUntilRotation

(* The worker is shown no opening before every use of the ledger is in the  *)
(* trigger table (ManagedEvaluator.update: observe, reconcile, publish).    *)
THEOREM UsesInTable == Spec => []UsesReconciled
  <1>1. Init => UsesReconciled
    BY DEF Init, UsesReconciled
  <1>2. TableInv /\ UsesReconciled /\ [Next]_vars => UsesReconciled'
    <2> SUFFICES ASSUME TableInv, UsesReconciled, [Next]_vars, chain' \in {"publish", "write"},
                        NEW h \in Hotkey, uses'[h] # None
                 PROVE  trig'[h].status = "done"
      BY DEF UsesReconciled
    <2>1. CASE Reconcile
      <3>1. uses' = uses /\ chain = "reconcile" /\ trig'[h] = Reconciled(trig[h], h)
        BY <2>1 DEF Reconcile, ledger
      <3>2. trig[h] \in Row /\ Fits(trig[h], h) /\ trig[h].status # "none"
        BY <3>1 DEF TableInv, TypeInv, RowInv, BoundInv
      <3> QED
        BY <3>1, <3>2, ReconciledRow DEF TableInv
    <2>2. CASE ~ Reconcile
      <3>1. chain \in {"publish", "write"} /\ uses' = uses
        BY <2>2 DEF Next, ChainThread, Worker, vars, ledger, durable, Replay, Lagging, Observe, Publish, Write, Sign,
           Receipt, Unconfirmed, Begin, ReadWaiting, ReadHistory, Pick, Start, Prepare, Score, Fail, Defer, Park, Enqueue, Crash
      <3>2. trig[h].status = "done"
        BY <3>1 DEF UsesReconciled
      <3> QED
        BY <3>2, RowsKept DEF RowKeeps
    <2> QED
      BY <2>1, <2>2
  <1> QED
    BY <1>1, <1>2, TableInvariant, PTL DEF Spec

-----------------------------------------------------------------------------
(* The king first. *)

(* The worker ends, goes on with its opening, or takes up the new one.     *)
WorkerTurns ==
  \/ worker' = Idle
  \/ worker.at # "idle" /\ worker'.context = worker.context
  \/ context # None /\ worker'.context = context /\ worker'.at = "waiting"

LEMMA OrderStep ==
  ASSUME OrderInv, UNCHANGED <<results, window, outbox>>, signed' \subseteq signed,
         context' = context \/ context' = None, WorkerTurns,
         worker'.at \in {"score", "enqueue"} => worker.at \in {"score", "enqueue"}
  PROVE  OrderInv'
  <1>1. /\ \A r \in results' \cup signed' : r.kind # "baseline" => Baseline(r.window) \in results'
        /\ \A i \in DOMAIN outbox' : outbox'[i].kind # "baseline" /\ outbox'[i].window = window'.id =>
             \/ Baseline(window'.id) \in results'
             \/ \E j \in 1 .. (i - 1) : outbox'[j] = Baseline(window'.id)
    BY DEF OrderInv
  <1>2. /\ context' # None => context'.results \subseteq results'
        /\ worker'.at # "idle" => worker'.context.results \subseteq results'
    BY DEF OrderInv, WorkerTurns, Idle
  <1>3. worker'.at \in {"score", "enqueue"} /\ worker'.context.window.id = window'.id =>
          Baseline(window'.id) \in results' \cup Range(outbox')
    BY DEF OrderInv, WorkerTurns, Idle
  <1> QED
    BY <1>1, <1>2, <1>3 DEF OrderInv, Baseline

(* The steps that leave the history, the outbox and the window alone.      *)
LEMMA QuietSteps ==
  ASSUME TableInv,
         \/ Observe \/ Reconcile \/ Write \/ Lagging \/ Receipt \/ Unconfirmed \/ Begin \/ ReadWaiting \/ ReadHistory
         \/ Pick \/ Start \/ Score \/ Fail \/ Defer \/ Park \/ Crash \/ UNCHANGED vars
  PROVE  /\ UNCHANGED <<results, window, outbox>> /\ signed' \subseteq signed
         /\ context' = context \/ (context' = None /\ worker' = Idle)
         /\ WorkerTurns
         /\ worker'.at \in {"score", "enqueue"} => worker.at \in {"score", "enqueue"}
  <1>1. CASE Observe \/ Reconcile \/ Write \/ Lagging \/ Receipt \/ Unconfirmed \/ UNCHANGED vars
    <2>1. UNCHANGED <<results, window, outbox, context, worker>> /\ signed' \subseteq signed
      BY <1>1 DEF Observe, Reconcile, Write, Lagging, Receipt, Unconfirmed, vars, ledger, durable
    <2>2. worker.at = "idle" => worker = Idle
      BY WorkerFields DEF TableInv, TypeInv
    <2> QED
      BY <2>1, <2>2 DEF WorkerTurns
  <1>2. CASE Crash
    BY <1>2 DEF Crash, ledger, WorkerTurns, Idle
  <1>3. CASE Begin \/ ReadWaiting \/ ReadHistory
    BY <1>3 DEF Begin, ReadWaiting, ReadHistory, ledger, durable, WorkerTurns
  <1>4. CASE Pick
    <2>1. UNCHANGED <<results, window, outbox, signed, context>> /\ worker.at = "pick"
      BY <1>4 DEF Pick, ledger
    <2> QED
      BY <1>4, <2>1, PickedEntry DEF WorkerTurns, Idle
  <1>5. CASE Start
    <2>1. UNCHANGED <<results, window, outbox, signed, context>> /\ worker.at = "start"
      BY <1>5 DEF Start, ledger
    <2>2. worker' = Idle \/ worker' = [worker EXCEPT !.at = "prepare"]
      BY <1>5 DEF Start
    <2>3. worker \in [at : {"start", "prepare", "score"}, context : Context, entry : Hotkey, resume : BOOLEAN]
      BY <2>1, WorkerFields DEF TableInv, TypeInv
    <2> QED
      BY <2>1, <2>2, <2>3 DEF WorkerTurns, Idle
  <1>6. CASE Score \/ Fail
    BY <1>6 DEF Score, Fail, Failing, ledger, durable, WorkerTurns
  <1>7. CASE Defer \/ Park
    <2>1. UNCHANGED <<results, window, outbox, signed, context>> /\ worker.at \in {"defer", "counted"}
      BY <1>7 DEF Defer, Park, ledger
    <2>2. worker' = Idle \/ (Defer /\ worker' = [worker EXCEPT !.at = "counted"])
      BY <1>7 DEF Defer, Park
    <2>3. worker.at = "defer" =>
            worker \in [at : {"defer", "counted"}, context : Context, entry : Hotkey, reason : Reason]
      BY WorkerFields DEF TableInv, TypeInv
    <2>4. Defer => worker.at = "defer"
      BY DEF Defer
    <2> QED
      BY <2>1, <2>2, <2>3, <2>4 DEF WorkerTurns, Idle
  <1> QED
    BY <1>1, <1>2, <1>3, <1>4, <1>5, <1>6, <1>7

(* A block finalizes what was signed; a new window has no results yet.     *)
LEMMA ReplayOrder == TableInv /\ OrderInv /\ Replay => OrderInv'
  <1> SUFFICES ASSUME TableInv, OrderInv, Replay PROVE OrderInv'
    OBVIOUS
  <1>1. PICK turns \in BOOLEAN, lost \in SUBSET Stopped, miner \in SUBSET Hotkey, landed \in SUBSET signed :
          FinalizedBlock(turns, lost, miner, landed)
    BY DEF Replay, Stopped
  <1>2. UNCHANGED <<outbox, context, worker>>
    BY DEF Replay, durable
  <1>3. /\ results' = results \cup landed /\ signed' = signed \ landed
        /\ IF turns THEN window'.id = window.id + 1 ELSE window' = window
    BY <1>1, BlockFacts DEF TableInv
  <1>4. \A r \in results' \cup signed' : r.kind # "baseline" => Baseline(r.window) \in results'
    BY <1>3 DEF OrderInv
  <1>5. /\ context' # None => context'.results \subseteq results'
        /\ worker'.at # "idle" => worker'.context.results \subseteq results'
    BY <1>2, <1>3 DEF OrderInv
  <1>6. CASE ~ turns
    BY <1>2, <1>3, <1>4, <1>5, <1>6 DEF OrderInv, Baseline
  <1>7. CASE turns
    <2>1. window.id \in Nat /\ \A i \in DOMAIN outbox : outbox[i].window \in Nat /\ outbox[i].window <= window.id
      BY OutboxSeq, ItemFields DEF TableInv, TypeInv, WindowInv, Known, Window
    <2>2. worker.at # "idle" => worker.context.window.id \in Nat /\ worker.context.window.id <= window.id
      BY WorkerFields, ContextFields DEF TableInv, TypeInv, WindowInv
    <2> DEFINE own == worker.context.window.id
    <2>3. \A i \in DOMAIN outbox' : outbox'[i].window # window'.id
      BY <1>2, <1>3, <1>7, <2>1
    <2>4. worker'.at # "idle" => worker'.context.window.id # window'.id
      <3>1. worker' = worker /\ window'.id = window.id + 1
        BY <1>2, <1>3, <1>7
      <3>2. worker.at # "idle" => own # window.id + 1
        BY <2>1, <2>2
      <3> QED
        BY <3>1, <3>2
    <2> QED
      BY <1>4, <1>5, <2>3, <2>4 DEF OrderInv, Baseline
  <1> QED
    BY <1>6, <1>7

(* What stays in the outbox keeps its baseline before it.                  *)
LEMMA PublishOrder == TableInv /\ OrderInv /\ Publish => OrderInv'
  <1> SUFFICES ASSUME TableInv, OrderInv, Publish PROVE OrderInv'
    OBVIOUS
  <1> DEFINE kept == { i \in DOMAIN outbox : outbox[i] \notin results /\ outbox[i].window = window.id }
             base == Baseline(window.id)
  <1>1. /\ UNCHANGED <<results, window, signed, worker>>
        /\ context' = [window |-> window, block |-> block, results |-> results]
        /\ outbox' = Selected(outbox, kept)
    BY DEF Publish, OutboxNow, ledger
  <1>2. kept \in SUBSET (DOMAIN outbox) /\ outbox \in Seq(Item) /\ DOMAIN outbox = 1 .. Len(outbox) /\ Len(outbox) \in Nat
    BY DEF TableInv, TypeInv
  <1>3. base.window = window.id
    BY DEF Baseline
  <1>4. \A i \in DOMAIN outbox : i \in kept <=> outbox[i] \notin results /\ outbox[i].window = window.id
    OBVIOUS
  <1> HIDE DEF kept, base
  <1>5. /\ Range(outbox') = { outbox[i] : i \in kept }
        /\ \A n \in DOMAIN outbox' : \E i \in kept :
             /\ outbox'[n] = outbox[i]
             /\ \A j \in kept : j < i => \E m \in 1 .. (n - 1) : outbox'[m] = outbox[j]
    <2>1. /\ Range(Selected(outbox, kept)) = { outbox[i] : i \in kept }
          /\ \A n \in DOMAIN Selected(outbox, kept) : \E i \in kept :
               /\ Selected(outbox, kept)[n] = outbox[i]
               /\ \A j \in kept : j < i => \E m \in 1 .. (n - 1) : Selected(outbox, kept)[m] = outbox[j]
      BY <1>2, SelectedItems
    <2>2. outbox' = Selected(outbox, kept)
      BY <1>1
    <2> QED
      BY <2>1, <2>2
  <1>6. ASSUME NEW n \in DOMAIN outbox', outbox'[n].kind # "baseline", base \notin results
        PROVE  \E m \in 1 .. (n - 1) : outbox'[m] = base
    <2>1. PICK i \in kept : /\ outbox'[n] = outbox[i]
                            /\ \A j \in kept : j < i => \E m \in 1 .. (n - 1) : outbox'[m] = outbox[j]
      BY <1>5
    <2>2. i \in DOMAIN outbox /\ outbox[i].kind # "baseline" /\ outbox[i].window = window.id
      BY <1>2, <1>4, <1>6, <2>1
    <2>3. PICK j \in 1 .. (i - 1) : outbox[j] = base
      BY <1>6, <2>2 DEF OrderInv, base
    <2>4. j \in DOMAIN outbox /\ j < i
      BY <1>2, <2>2, <2>3
    <2>5. j \in kept
      BY <1>3, <1>4, <1>6, <2>3, <2>4
    <2> QED
      BY <2>1, <2>3, <2>4, <2>5
  <1>7. base \in results \cup Range(outbox) => base \in results \cup Range(outbox')
    <2> SUFFICES ASSUME base \in Range(outbox), base \notin results
                 PROVE  base \in Range(outbox')
      OBVIOUS
    <2>1. PICK i \in DOMAIN outbox : outbox[i] = base
      BY DEF Range
    <2>2. i \in kept
      BY <1>3, <1>4, <2>1
    <2> QED
      BY <1>5, <2>1, <2>2
  <1>8. /\ context' # None => context'.results \subseteq results'
        /\ worker'.at # "idle" => worker'.context.results \subseteq results'
        /\ \A r \in results' \cup signed' : r.kind # "baseline" => Baseline(r.window) \in results'
    BY <1>1 DEF OrderInv
  <1>9. worker'.at \in {"score", "enqueue"} /\ worker'.context.window.id = window'.id => base \in results' \cup Range(outbox')
    BY <1>1, <1>7 DEF OrderInv, base
  <1>10. base' = base
    BY <1>1 DEF base, Baseline
  <1> QED
    BY <1>1, <1>6, <1>8, <1>9, <1>10 DEF OrderInv, Baseline, base

(* The head of the outbox has nothing before it.                           *)
LEMMA SignOrder == TableInv /\ OrderInv /\ Sign => OrderInv'
  <1> SUFFICES ASSUME TableInv, OrderInv, Sign PROVE OrderInv'
    OBVIOUS
  <1>1. UNCHANGED <<results, window, outbox, context, worker>>
    BY DEF Sign, ledger, durable
  <1>2. \A r \in signed' : r.kind # "baseline" => Baseline(r.window) \in results
    <2>1. CASE signed' = signed
      BY <2>1 DEF OrderInv
    <2>2. CASE outbox # <<>> /\ outbox[1].window = window.id /\ signed' = signed \cup ({outbox[1]} \ results)
      <3>1. 1 \in DOMAIN outbox /\ ~ \E j \in 1 .. (1 - 1) : TRUE
        BY <2>2, OutboxSeq DEF TableInv, TypeInv
      <3>2. outbox[1].kind # "baseline" => Baseline(window.id) \in results
        BY <2>2, <3>1 DEF OrderInv
      <3> QED
        BY <2>2, <3>2 DEF OrderInv
    <2> QED
      BY <2>1, <2>2 DEF Sign
  <1> QED
    BY <1>1, <1>2 DEF OrderInv, Baseline

(* The baseline is enqueued before the challenger is measured.             *)
LEMMA PrepareOrder == TableInv /\ OrderInv /\ Prepare => OrderInv'
  <1> SUFFICES ASSUME TableInv, OrderInv, Prepare PROVE OrderInv'
    OBVIOUS
  <1> DEFINE base == Baseline(worker.context.window.id)
  <1>1. UNCHANGED <<results, window, signed, context>> /\ worker.at = "prepare"
    BY DEF Prepare, ledger
  <1>2. worker \in [at : {"start", "prepare", "score"}, context : Context, entry : Hotkey, resume : BOOLEAN]
    BY <1>1, WorkerFields DEF TableInv, TypeInv
  <1>3. CASE worker' = Failing("other") /\ outbox' = outbox
    BY <1>1, <1>3, OrderStep DEF WorkerTurns, Failing
  <1>4. CASE /\ worker' = [worker EXCEPT !.at = "score"]
             /\ outbox' = IF base \in worker.context.results THEN outbox ELSE Add(base)
    <2>1. worker'.at = "score" /\ worker'.context = worker.context
      BY <1>2, <1>4
    <2>2. base \in Item /\ base.kind = "baseline" /\ outbox \in Seq(Item)
      <3>1. worker.context.window.id \in 0 .. MaxWindow
        BY <1>1, <1>2, ContextFields, Bounds DEF TableInv, TypeInv, WindowInv, Window
      <3> QED
        BY <3>1 DEF Baseline, Item, TableInv, TypeInv
    <2>3. base \in results \cup Range(outbox')
      <3>1. CASE base \in worker.context.results
        BY <1>1, <3>1 DEF OrderInv
      <3>2. CASE base \notin worker.context.results
        BY <1>4, <2>2, <3>2, Added
      <3> QED
        BY <3>1, <3>2
    <2>4. \A i \in DOMAIN outbox' : outbox'[i].kind # "baseline" => i \in DOMAIN outbox /\ outbox'[i] = outbox[i]
      BY <1>4, <2>2, Added
    <2>5. \A i \in DOMAIN outbox : i \in DOMAIN outbox' /\ outbox'[i] = outbox[i]
      BY <1>4, <2>2, Added
    <2>6. DOMAIN outbox = 1 .. Len(outbox) /\ Len(outbox) \in Nat
      BY <2>2
    <2>7. \A i \in DOMAIN outbox : \A j \in 1 .. (i - 1) : j \in DOMAIN outbox
      BY <2>6
    <2>8. \A i \in DOMAIN outbox' : outbox'[i].kind # "baseline" /\ outbox'[i].window = window.id =>
             \/ Baseline(window.id) \in results
             \/ \E j \in 1 .. (i - 1) : outbox'[j] = Baseline(window.id)
      BY <2>4, <2>5, <2>7 DEF OrderInv
    <2> QED
      BY <1>1, <2>1, <2>3, <2>8 DEF OrderInv, Baseline
  <1> QED
    BY <1>3, <1>4 DEF Prepare, Baseline

(* The challenger's result is enqueued behind the baseline of its window.  *)
LEMMA EnqueueOrder == TableInv /\ OrderInv /\ Enqueue => OrderInv'
  <1> SUFFICES ASSUME TableInv, OrderInv, Enqueue PROVE OrderInv'
    OBVIOUS
  <1> DEFINE item == [hotkey |-> worker.entry, window |-> worker.context.window.id, kind |-> worker.kind]
             base == Baseline(window.id)
  <1>1. UNCHANGED <<results, window, signed, context>> /\ worker.at = "enqueue" /\ worker' = Idle /\ outbox' = Add(item)
    BY DEF Enqueue, ledger
  <1>2. item \in Item /\ outbox \in Seq(Item) /\ item.window = worker.context.window.id
    <2>1. worker.context \in Context /\ worker.entry \in Hotkey /\ worker.kind \in {"partial", "terminal"}
      BY <1>1, WorkerFields DEF TableInv, TypeInv, Engaged
    <2>2. worker.context.window.id \in 0 .. MaxWindow
      BY <1>1, <2>1, ContextFields, Bounds DEF TableInv, TypeInv, WindowInv, Window
    <2> QED
      BY <2>1, <2>2 DEF Item, TableInv, TypeInv
  <1> HIDE DEF item
  <1>3. DOMAIN outbox = 1 .. Len(outbox) /\ Len(outbox) \in Nat /\ DOMAIN outbox' = 1 .. Len(outbox') /\ Len(outbox') \in Nat
    BY <1>1, <1>2, Added
  <1>4. /\ \A i \in DOMAIN outbox : i \in DOMAIN outbox' /\ outbox'[i] = outbox[i]
        /\ \A i \in DOMAIN outbox' : i \notin DOMAIN outbox => outbox'[i] = item
    BY <1>1, <1>2, Added
  <1>5. ASSUME NEW i \in DOMAIN outbox', outbox'[i].kind # "baseline", outbox'[i].window = window.id, base \notin results
        PROVE  \E j \in 1 .. (i - 1) : outbox'[j] = base
    <2>1. CASE i \in DOMAIN outbox
      <3>1. PICK j \in 1 .. (i - 1) : outbox[j] = base
        BY <1>4, <1>5, <2>1 DEF OrderInv
      <3>2. j \in DOMAIN outbox
        BY <1>3, <2>1, <3>1
      <3> QED
        BY <1>4, <3>1, <3>2
    <2>2. CASE i \notin DOMAIN outbox
      <3>1. base \in Range(outbox)
        BY <1>1, <1>2, <1>4, <1>5, <2>2 DEF OrderInv
      <3>2. PICK j \in DOMAIN outbox : outbox[j] = base
        BY <3>1 DEF Range
      <3>3. j \in 1 .. (i - 1)
        BY <1>3, <2>2, <3>2
      <3> QED
        BY <1>4, <3>2, <3>3
    <2> QED
      BY <2>1, <2>2
  <1>6. base' = base
    BY <1>1 DEF Baseline
  <1> HIDE DEF base
  <1> QED
    BY <1>1, <1>5, <1>6 DEF OrderInv, Baseline, Idle, base

LEMMA InitOrder == Init => OrderInv
  BY DEF Init, OrderInv, Idle

LEMMA OrderInductive == TableInv /\ OrderInv /\ [Next]_vars => OrderInv'
  <1> SUFFICES ASSUME TableInv, OrderInv, [Next]_vars PROVE OrderInv'
    OBVIOUS
  <1>1. CASE \/ Observe \/ Reconcile \/ Write \/ Lagging \/ Receipt \/ Unconfirmed \/ Begin \/ ReadWaiting \/ ReadHistory
             \/ Pick \/ Start \/ Score \/ Fail \/ Defer \/ Park \/ Crash \/ UNCHANGED vars
    BY <1>1, QuietSteps, OrderStep
  <1>2. CASE Replay \/ Publish \/ Sign \/ Prepare \/ Enqueue
    BY <1>2, ReplayOrder, PublishOrder, SignOrder, PrepareOrder, EnqueueOrder
  <1> QED
    BY <1>1, <1>2 DEF Next, ChainThread, Worker

(* So does OrderInv, the order of baselines and results in outbox, writer   *)
(* and history.                                                             *)
THEOREM OrderInvariant == Spec => []OrderInv
  BY InitOrder, OrderInductive, TableInvariant, PTL DEF Spec

(* No challenger is finalized without the king it was compared with: the    *)
(* baseline is enqueued before the challenger is measured, and neither the  *)
(* outbox nor the writer overtakes it (_attempt_checked, flush_one).        *)
THEOREM KingFirst == Spec => []BaselineFirst
  <1>1. OrderInv => BaselineFirst
    BY DEF OrderInv, BaselineFirst, Baseline
  <1> QED
    BY <1>1, OrderInvariant, PTL

-----------------------------------------------------------------------------
(* Once is enough. *)

(* A signed result is in the outbox, in the history, or out of date.       *)
LEMMA SignedStep ==
  ASSUME TableInv, SignedInv, results \subseteq results',
         window'.id >= window.id, window'.id \in Nat,
         \A s \in signed' : s \in signed \/ s \in Range(outbox),
         signed' \subseteq Item,
         context' = context \/ context' = None \/ (context'.window = window /\ window' = window),
         \A x \in Range(outbox) : \/ x \in results' \cup Range(outbox')
                                  \/ context'.window = window /\ window' = window /\ x.window # window.id
  PROVE  SignedInv'
  <1> SUFFICES ASSUME NEW s \in signed', s \notin results' \cup Range(outbox')
               PROVE  s.window < window'.id /\ (context' # None => s.window < context'.window.id)
    BY DEF SignedInv
  <1>1. window.id \in Nat /\ s.window \in Nat
    BY ItemFields, Bounds DEF TableInv, TypeInv, Window
  <1>2. context # None => context.window.id \in Nat
    BY ContextFields DEF TableInv, TypeInv
  <1>3. CASE s \in Range(outbox)
    <2>1. s.window # window.id /\ context'.window = window /\ window' = window
      BY <1>3
    <2>2. s.window <= window.id
      BY <1>3 DEF TableInv, WindowInv, Known
    <2> QED
      BY <1>1, <2>1, <2>2
  <1>4. CASE s \notin Range(outbox)
    <2>1. s.window < window.id /\ (context # None => s.window < context.window.id)
      BY <1>4 DEF SignedInv
    <2>2. s.window < window'.id
      BY <1>1, <2>1
    <2> QED
      BY <2>1, <2>2
  <1> QED
    BY <1>3, <1>4

LEMMA SignedInductive == TableInv /\ SignedInv /\ [Next]_vars => SignedInv'
  <1> SUFFICES ASSUME TableInv, SignedInv, [Next]_vars PROVE SignedInv'
    OBVIOUS
  <1>0. window.id \in Nat /\ signed \subseteq Item /\ outbox \in Seq(Item)
    BY DEF TableInv, TypeInv, Window
  <1>1. CASE \/ Observe \/ Reconcile \/ Write \/ Lagging \/ Receipt \/ Unconfirmed \/ Begin \/ ReadWaiting \/ ReadHistory
             \/ Pick \/ Start \/ Score \/ Fail \/ Defer \/ Park \/ Crash \/ UNCHANGED vars
    BY <1>0, <1>1, QuietSteps, SignedStep
  <1>2. CASE Replay
    <2>1. PICK turns \in BOOLEAN, lost \in SUBSET Stopped, miner \in SUBSET Hotkey, landed \in SUBSET signed :
            FinalizedBlock(turns, lost, miner, landed)
      BY <1>2 DEF Replay, Stopped
    <2>2. /\ results' = results \cup landed /\ signed' = signed \ landed
          /\ window'.id \in Nat /\ window'.id >= window.id
      <3>1. window' \in Window /\ IF turns THEN window'.id = window.id + 1 ELSE window' = window
        BY <2>1, BlockFacts DEF TableInv
      <3>2. results' = results \cup landed /\ signed' = signed \ landed
        BY <2>1, BlockFacts DEF TableInv
      <3> QED
        BY <1>0, <3>1, <3>2 DEF Window
    <2>3. UNCHANGED <<outbox, context>>
      BY <1>2 DEF Replay, durable
    <2> QED
      BY <1>0, <2>2, <2>3, SignedStep
  <1>3. CASE Publish
    <2>1. /\ UNCHANGED <<results, window, signed>> /\ context'.window = window
          /\ outbox' = OutboxNow
      BY <1>3 DEF Publish, ledger
    <2>2. \A x \in Range(outbox) : x \in results' \cup Range(outbox') \/ x.window # window.id
      BY <2>1, OutboxKept DEF TableInv
    <2>3. window'.id >= window.id
      BY <1>0, <2>1
    <2> QED
      BY <1>0, <2>1, <2>2, <2>3, SignedStep
  <1>4. CASE Sign
    <2>1. UNCHANGED <<results, window, outbox, context>>
      BY <1>4 DEF Sign, ledger, durable
    <2>2. \A s \in signed' : s \in signed \/ s \in Range(outbox)
      BY <1>0, <1>4, OutboxSeq DEF Sign
    <2>3. signed' \subseteq Item /\ window'.id >= window.id
      BY <1>0, <2>1, <2>2, OutboxSeq
    <2> QED
      BY <1>0, <2>1, <2>2, <2>3, SignedStep
  <1>5. CASE Prepare \/ Enqueue
    <2>1. UNCHANGED <<results, window, signed, context>>
      BY <1>5 DEF Prepare, Enqueue, ledger
    <2>2. Range(outbox) \subseteq Range(outbox')
      <3>1. \A x : Range(outbox) \subseteq Range(Add(x))
        <4> TAKE x
        <4>1. CASE x \in Range(outbox)
          BY <4>1 DEF Add
        <4>2. CASE x \notin Range(outbox)
          <5>1. \A i \in DOMAIN outbox : i \in DOMAIN Append(outbox, x) /\ Append(outbox, x)[i] = outbox[i]
            BY <1>0
          <5>2. Add(x) = Append(outbox, x)
            BY <4>2 DEF Add
          <5> QED
            BY <5>1, <5>2 DEF Range
        <4> QED
          BY <4>1, <4>2
      <3> QED
        BY <1>5, <3>1 DEF Prepare, Enqueue
    <2>3. window'.id >= window.id
      BY <1>0, <2>1
    <2> QED
      BY <1>0, <2>1, <2>2, <2>3, SignedStep
  <1> QED
    BY <1>1, <1>2, <1>3, <1>4, <1>5 DEF Next, ChainThread, Worker

(* Nobody but the worker adds an answer; what it read stays read.          *)
LEMMA OthersStep ==
  ASSUME TableInv, OnceInv, worker' = worker, results \subseteq results', Known' \subseteq Known,
         context' = context \/ context'.window = window
  PROVE  (worker.at \in {"history", "pick"} => ReadInv)' /\ AttemptInv'
  <1>1. \A w : Answers(w)' \subseteq { x \in Known : x.kind # "baseline" /\ x.window = (w.id)' }
    BY DEF Answers
  <1>2. Answers(worker.context.window)' \subseteq Answers(worker.context.window)
    BY DEF Answers
  <1>3. ASSUME worker.at # "idle", ~ Cancelled(worker.context.window)'
        PROVE  ~ Cancelled(worker.context.window)
    <2>1. /\ context # None /\ worker.context.window.id <= context.window.id /\ context.window.id <= window.id
          /\ context.window.id \in Nat /\ worker.context.window.id \in Nat /\ window.id \in Nat
      BY <1>3, WorkerFields, ContextFields DEF TableInv, TypeInv, WindowInv, Window
    <2>2. context' # None /\ context'.window.id = worker.context.window.id
      BY <1>3 DEF Cancelled
    <2> QED
      BY <2>1, <2>2 DEF Cancelled
  <1>4. AttemptInv'
    BY <1>2 DEF OnceInv, AttemptInv
  <1>5. ASSUME worker.at \in {"history", "pick"}
        PROVE  ReadInv'
    <2> SUFFICES ASSUME ~ Cancelled(worker.context.window)'
                 PROVE  /\ worker.at = "history" =>
                             \A x \in Answers(worker.context.window)' : x \in results' \/ x.hotkey \in worker.waiting
                        /\ worker.at = "pick" =>
                             \A x \in Answers(worker.context.window)' :
                               \/ x.hotkey \in worker.waiting
                               \/ x.kind = "terminal" /\ x.hotkey \in worker.published
                               \/ x.kind = "partial" /\ x.hotkey \in worker.partials
      BY DEF ReadInv
    <2>1. ~ Cancelled(worker.context.window)
      BY <1>3, <1>5
    <2>2. ReadInv
      BY <1>5 DEF OnceInv
    <2> QED
      BY <1>2, <2>1, <2>2 DEF ReadInv
  <1> QED
    BY <1>4, <1>5

LEMMA OthersOnce ==
  ASSUME TableInv, OnceInv, Observe \/ Reconcile \/ Write \/ Lagging \/ Replay \/ Publish \/ Sign \/ Receipt \/ Unconfirmed
                            \/ UNCHANGED vars
  PROVE  (worker.at \in {"history", "pick"} => ReadInv)' /\ AttemptInv'
  <1>1. CASE Observe \/ Reconcile \/ Write \/ Lagging \/ Receipt \/ Unconfirmed \/ UNCHANGED vars
    <2>1. UNCHANGED <<results, outbox, context, worker>> /\ signed' \subseteq signed
      BY <1>1 DEF Observe, Reconcile, Write, Lagging, Receipt, Unconfirmed, vars, ledger, durable
    <2>2. Known' \subseteq Known
      BY <2>1 DEF Known
    <2> QED
      BY <2>1, <2>2, OthersStep
  <1>2. CASE Replay
    <2>1. PICK turns \in BOOLEAN, lost \in SUBSET Stopped, miner \in SUBSET Hotkey, landed \in SUBSET signed :
            FinalizedBlock(turns, lost, miner, landed)
      BY <1>2 DEF Replay, Stopped
    <2>2. results' = results \cup landed /\ signed' = signed \ landed
      BY <2>1, BlockFacts DEF TableInv
    <2>3. UNCHANGED <<outbox, context, worker>>
      BY <1>2 DEF Replay, durable
    <2>4. Known' \subseteq Known
      BY <2>2, <2>3 DEF Known
    <2> QED
      BY <2>2, <2>3, <2>4, OthersStep
  <1>3. CASE Publish
    <2>1. /\ UNCHANGED <<results, signed, worker>> /\ context'.window = window
          /\ outbox' = OutboxNow
      BY <1>3 DEF Publish, ledger
    <2>2. Known' \subseteq Known
      BY <2>1, OutboxKept DEF Known, TableInv
    <2> QED
      BY <2>1, <2>2, OthersStep
  <1>4. CASE Sign
    <2>1. UNCHANGED <<results, outbox, context, worker>>
      BY <1>4 DEF Sign, ledger, durable
    <2>2. Known' \subseteq Known
      BY <1>4, <2>1, OutboxSeq DEF Sign, Known, TableInv, TypeInv
    <2> QED
      BY <2>1, <2>2, OthersStep
  <1> QED
    BY <1>1, <1>2, <1>3, <1>4

(* The outbox first, then the history: between them they hold every answer *)
(* of a window that is not over.                                           *)
LEMMA ReadWaitingOnce == TableInv /\ OnceInv /\ ReadWaiting => (worker.at \in {"history", "pick"} => ReadInv)' /\ AttemptInv'
  <1> SUFFICES ASSUME TableInv, OnceInv, ReadWaiting
               PROVE  (worker.at \in {"history", "pick"} => ReadInv)' /\ AttemptInv'
    OBVIOUS
  <1>1. /\ UNCHANGED <<results, signed, outbox, context>> /\ worker.at = "waiting"
        /\ worker' = [ at |-> "history", context |-> worker.context,
                       waiting |-> { outbox[i].hotkey : i \in DOMAIN outbox } ]
    BY DEF ReadWaiting, ledger, durable
  <1>2. /\ worker'.at = "history" /\ worker'.context = worker.context
        /\ worker'.waiting = { outbox[i].hotkey : i \in DOMAIN outbox }
    BY <1>1
  <1>3. Known' = Known
    BY <1>1 DEF Known
  <1>4. ASSUME ~ Cancelled(worker.context.window), NEW x \in Known, x.window = worker.context.window.id
        PROVE  x \in results \/ x.hotkey \in { outbox[i].hotkey : i \in DOMAIN outbox }
    <2>1. CASE x \in Range(outbox)
      BY <2>1 DEF Range
    <2>2. CASE x \notin Range(outbox) /\ x \notin results
      <3>1. x \in signed
        BY <2>2 DEF Known
      <3>2. context # None /\ context.window.id = x.window
        BY <1>4 DEF Cancelled
      <3>3. x.window \in Nat
        BY <3>1, ItemFields, Bounds DEF TableInv, TypeInv
      <3>4. x.window < context.window.id
        BY <2>2, <3>1, <3>2 DEF OnceInv, SignedInv
      <3> QED
        BY <3>2, <3>3, <3>4
    <2> QED
      BY <2>1, <2>2
  <1>5. ReadInv'
    BY <1>1, <1>2, <1>3, <1>4 DEF ReadInv, Answers, Cancelled
  <1>6. AttemptInv'
    BY <1>2 DEF AttemptInv
  <1> QED
    BY <1>5, <1>6

LEMMA ReadHistoryOnce == TableInv /\ OnceInv /\ ReadHistory => (worker.at \in {"history", "pick"} => ReadInv)' /\ AttemptInv'
  <1> SUFFICES ASSUME TableInv, OnceInv, ReadHistory
               PROVE  (worker.at \in {"history", "pick"} => ReadInv)' /\ AttemptInv'
    OBVIOUS
  <1> DEFINE terminal == Finalized("terminal", worker.context.window)
             partial  == Finalized("partial", worker.context.window)
  <1>1. /\ UNCHANGED <<results, signed, outbox, context>> /\ worker.at = "history"
        /\ worker' = [ at |-> "pick", context |-> worker.context, waiting |-> worker.waiting,
                       published |-> terminal, partials |-> partial ]
    BY DEF ReadHistory, ledger, durable
  <1>2. /\ worker'.at = "pick" /\ worker'.context = worker.context /\ worker'.waiting = worker.waiting
        /\ worker'.published = terminal /\ worker'.partials = partial
    BY <1>1
  <1>3. Known' = Known
    BY <1>1 DEF Known
  <1>4. ASSUME ~ Cancelled(worker.context.window), NEW x \in Known, x.window = worker.context.window.id,
               x.kind # "baseline"
        PROVE  \/ x.hotkey \in worker.waiting
               \/ x.kind = "terminal" /\ x.hotkey \in terminal
               \/ x.kind = "partial" /\ x.hotkey \in partial
    <2>1. x.kind \in {"partial", "terminal"}
      BY <1>4, OutboxSeq, ItemFields DEF Known, TableInv, TypeInv
    <2>2. x \in results \/ x.hotkey \in worker.waiting
      BY <1>1, <1>4 DEF OnceInv, ReadInv, Answers
    <2> QED
      BY <1>4, <2>1, <2>2 DEF Finalized
  <1> HIDE DEF terminal, partial
  <1>5. ReadInv'
    BY <1>1, <1>2, <1>3, <1>4 DEF ReadInv, Answers, Cancelled
  <1>6. AttemptInv'
    BY <1>2 DEF AttemptInv
  <1> QED
    BY <1>5, <1>6

(* Whoever is chosen has no answer yet, or an early stop to resume.        *)
LEMMA PickOnce == TableInv /\ OnceInv /\ Pick => (worker.at \in {"history", "pick"} => ReadInv)' /\ AttemptInv'
  <1> SUFFICES ASSUME TableInv, OnceInv, Pick
               PROVE  (worker.at \in {"history", "pick"} => ReadInv)' /\ AttemptInv'
    OBVIOUS
  <1>1. UNCHANGED <<results, signed, outbox>> /\ worker.at = "pick"
    BY DEF Pick, ledger
  <1>2. Known' = Known
    BY <1>1 DEF Known
  <1>3. worker' = Idle \/ worker'.at = "start"
    BY PickedEntry
  <1>4. ASSUME worker'.at = "start", NEW x \in Known, x.kind # "baseline", x.window = worker.context.window.id,
               x.hotkey = worker'.entry
        PROVE  x.kind = "partial" /\ worker'.resume
    <2>1. /\ ~ Cancelled(worker.context.window)
          /\ worker'.entry \notin worker.waiting \cup worker.published
          /\ worker'.entry \in worker.partials => worker'.resume
      BY <1>4, PickedEntry DEF Idle
    <2>2. \/ x.hotkey \in worker.waiting
          \/ x.kind = "terminal" /\ x.hotkey \in worker.published
          \/ x.kind = "partial" /\ x.hotkey \in worker.partials
      BY <1>1, <1>4, <2>1 DEF OnceInv, ReadInv, Answers
    <2> QED
      BY <1>4, <2>1, <2>2
  <1>5. worker'.at = "start" => worker'.context = worker.context
    BY PickedEntry DEF Idle
  <1>6. AttemptInv'
    BY <1>2, <1>3, <1>4, <1>5 DEF AttemptInv, Answers, Idle
  <1> QED
    BY <1>3, <1>6 DEF Idle

LEMMA AttemptOnce ==
  ASSUME TableInv, OnceInv, Begin \/ Start \/ Prepare \/ Score \/ Fail \/ Defer \/ Park \/ Enqueue \/ Crash
  PROVE  (worker.at \in {"history", "pick"} => ReadInv)' /\ AttemptInv'
  <1>1. CASE worker' = Idle \/ worker'.at \in {"waiting", "defer", "counted"}
    BY <1>1 DEF AttemptInv, Idle
  <1>2. CASE Begin
    BY <1>1, <1>2 DEF Begin
  <1>3. CASE Fail
    BY <1>1, <1>3 DEF Fail, Failing
  <1>4. CASE Defer \/ Park \/ Enqueue \/ Crash
    <2>1. CASE Defer
      <3>1. worker \in [at : {"defer", "counted"}, context : Context, entry : Hotkey, reason : Reason]
        BY <2>1, WorkerFields DEF Defer, TableInv, TypeInv
      <3>2. worker' = Idle \/ worker'.at = "counted"
        BY <2>1, <3>1 DEF Defer
      <3> QED
        BY <1>1, <3>2
    <2> QED
      BY <1>1, <1>4, <2>1 DEF Park, Enqueue, Crash
  <1>5. CASE Start
    <2>1. worker.at = "start" /\ UNCHANGED <<results, signed, outbox>>
      BY <1>5 DEF Start, ledger
    <2>2. worker \in [at : {"start", "prepare", "score"}, context : Context, entry : Hotkey, resume : BOOLEAN]
      BY <2>1, WorkerFields DEF TableInv, TypeInv
    <2>3. CASE worker' = [worker EXCEPT !.at = "prepare"]
      <3>1. /\ worker'.at = "prepare" /\ worker'.context = worker.context
            /\ worker'.entry = worker.entry /\ worker'.resume = worker.resume
        BY <2>2, <2>3
      <3>2. Known' = Known
        BY <2>1 DEF Known
      <3> QED
        BY <2>1, <3>1, <3>2 DEF OnceInv, AttemptInv, Answers
    <2> QED
      BY <1>1, <1>5, <2>3 DEF Start
  <1>6. CASE Prepare
    <2> DEFINE base == Baseline(worker.context.window.id)
    <2>1. worker.at = "prepare" /\ UNCHANGED <<results, signed>>
      BY <1>6 DEF Prepare, ledger
    <2>2. worker \in [at : {"start", "prepare", "score"}, context : Context, entry : Hotkey, resume : BOOLEAN]
      BY <2>1, WorkerFields DEF TableInv, TypeInv
    <2>3. CASE worker' = [worker EXCEPT !.at = "score"] /\ (outbox' = outbox \/ outbox' = Add(base))
      <3>1. /\ worker'.at = "score" /\ worker'.context = worker.context
            /\ worker'.entry = worker.entry /\ worker'.resume = worker.resume
        BY <2>2, <2>3
      <3>2. base \in Item /\ base.kind = "baseline"
        <4>1. worker.context.window.id \in 0 .. MaxWindow
          BY <2>1, <2>2, ContextFields, Bounds DEF TableInv, TypeInv, WindowInv, Window
        <4> QED
          BY <4>1 DEF Baseline, Item
      <3>3. Range(outbox') \subseteq Range(outbox) \cup {base}
        BY <2>3, <3>2, Added DEF TableInv, TypeInv
      <3>4. \A x \in Known' : x \in Known \/ x.kind = "baseline"
        BY <2>1, <3>2, <3>3 DEF Known
      <3> QED
        BY <2>1, <3>1, <3>4 DEF OnceInv, AttemptInv, Answers
    <2>4. CASE worker' = Failing("other")
      BY <1>1, <2>4 DEF Failing
    <2> QED
      BY <1>6, <2>3, <2>4 DEF Prepare, Baseline
  <1>7. CASE Score
    <2>1. worker.at = "score" /\ UNCHANGED <<results, signed, outbox>>
      BY <1>7 DEF Score, ledger, durable
    <2>2. PICK kind \in {"terminal"} \cup (IF worker.resume THEN {} ELSE {"partial"}) :
            worker' = IF Cancelled(worker.context.window) THEN Failing("other")
                      ELSE [ at |-> "enqueue", context |-> worker.context, entry |-> worker.entry, kind |-> kind ]
      BY <1>7 DEF Score
    <2>3. CASE Cancelled(worker.context.window)
      BY <1>1, <2>2, <2>3 DEF Failing
    <2>4. CASE ~ Cancelled(worker.context.window)
      <3>1. /\ worker'.at = "enqueue" /\ worker'.context = worker.context
            /\ worker'.entry = worker.entry /\ worker'.kind = kind
        BY <2>2, <2>4
      <3>2. kind = "partial" => ~ worker.resume
        BY <2>2
      <3>3. Known' = Known
        BY <2>1 DEF Known
      <3> QED
        BY <2>1, <2>2, <3>1, <3>2, <3>3 DEF OnceInv, AttemptInv, Answers
    <2> QED
      BY <2>3, <2>4
  <1> QED
    BY <1>2, <1>3, <1>4, <1>5, <1>6, <1>7

LEMMA InitOnce == Init => OnceInv
  BY DEF Init, OnceInv, SignedInv, AttemptInv, Idle

LEMMA OnceInductive == TableInv /\ OnceInv /\ [Next]_vars => OnceInv'
  <1> SUFFICES ASSUME TableInv, OnceInv, [Next]_vars PROVE OnceInv'
    OBVIOUS
  <1>1. SignedInv'
    BY SignedInductive DEF OnceInv
  <1>2. (worker.at \in {"history", "pick"} => ReadInv)' /\ AttemptInv'
    BY OthersOnce, ReadWaitingOnce, ReadHistoryOnce, PickOnce, AttemptOnce DEF Next, ChainThread, Worker
  <1> QED
    BY <1>1, <1>2 DEF OnceInv

(* So does OnceInv: what was signed is in the outbox or in the history, and *)
(* the worker has seen it there.                                            *)
THEOREM OnceInvariant == Spec => []OnceInv
  BY InitOnce, OnceInductive, TableInvariant, PTL DEF Spec

(* A challenger's answer is never enqueued once the history holds it: the   *)
(* worker reads the outbox before the history, so that what the chain       *)
(* thread moves from one to the other in between is seen in one of the two  *)
(* (Evaluator.run_once, update).                                            *)
THEOREM NothingRepublished == Spec => NoRepublication
  <1> DEFINE A == \A i \in DOMAIN outbox' :
                    outbox'[i].kind # "baseline" /\ outbox'[i] \notin Range(outbox) => outbox'[i] \notin results
  <1>1. TableInv /\ OnceInv /\ [Next]_vars => [A]_vars
    <2> SUFFICES ASSUME TableInv, OnceInv, [Next]_vars, NEW i \in DOMAIN outbox',
                        outbox'[i].kind # "baseline", outbox'[i] \notin Range(outbox)
                 PROVE  outbox'[i] \notin results
      OBVIOUS
    <2>1. outbox' # outbox
      BY DEF Range
    <2>2. outbox \in Seq(Item)
      BY DEF TableInv, TypeInv
    <2>3. CASE Publish
      <3>1. outbox' = OutboxNow /\ outbox'[i] \in Range(outbox')
        BY <2>3 DEF Publish, Range
      <3> QED
        BY <3>1, OutboxKept DEF TableInv
    <2>4. CASE Prepare
      <3> DEFINE base == Baseline(worker.context.window.id)
      <3>1. worker.at = "prepare" /\ outbox' = Add(base)
        BY <2>1, <2>4 DEF Prepare, Baseline
      <3>2. worker.context.window.id \in 0 .. MaxWindow
        BY <3>1, WorkerFields, ContextFields, Bounds DEF TableInv, TypeInv, WindowInv, Window
      <3>3. base \in Item /\ base.kind = "baseline"
        BY <3>2 DEF Baseline, Item
      <3>4. outbox'[i] \in Range(outbox) \cup {base}
        BY <2>2, <3>1, <3>3, Added DEF Range
      <3> QED
        BY <3>3, <3>4
    <2>5. CASE Enqueue
      <3> DEFINE item == [hotkey |-> worker.entry, window |-> worker.context.window.id, kind |-> worker.kind]
      <3>1. worker.at = "enqueue" /\ outbox' = Add(item)
        BY <2>5 DEF Enqueue
      <3>2. item.hotkey = worker.entry /\ item.window = worker.context.window.id /\ item.kind = worker.kind
        OBVIOUS
      <3>3. item \in Item /\ item.kind # "baseline"
        <4>1. worker.context \in Context /\ worker.entry \in Hotkey /\ worker.kind \in {"partial", "terminal"}
          BY <3>1, WorkerFields DEF TableInv, TypeInv, Engaged
        <4>2. worker.context.window.id \in 0 .. MaxWindow
          BY <3>1, <4>1, ContextFields, Bounds DEF TableInv, TypeInv, WindowInv, Window
        <4> QED
          BY <4>1, <4>2 DEF Item
      <3> HIDE DEF item
      <3>4. outbox'[i] = item
        BY <2>2, <3>1, <3>3, Added DEF Range
      <3>5. item \notin Known
        BY <3>1, <3>2, <3>3 DEF OnceInv, AttemptInv, Answers
      <3> QED
        BY <3>4, <3>5 DEF Known
    <2> QED
      BY <2>1, <2>3, <2>4, <2>5 DEF Next, ChainThread, Worker, vars, ledger, durable, Replay, Lagging, Observe, Reconcile,
         Write, Sign, Receipt, Unconfirmed, Begin, ReadWaiting, ReadHistory, Pick, Start, Score, Fail, Defer, Park, Crash
  <1> QED
    BY <1>1, TableInvariant, OnceInvariant, PTL DEF Spec, NoRepublication

==============================================================================
