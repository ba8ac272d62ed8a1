------------------------------- MODULE PaidCalls -------------------------------
(***************************************************************************)
(* Paid requests of one evaluator process: providers.py (the adapter with  *)
(* its request locks, its table of calls and its cache files) over         *)
(* budget.py (daily reservations).  Threads ask, the process may die       *)
(* between any two commits, and the provider may answer, refuse, answer    *)
(* nonsense, or be lost with or without having billed.                     *)
(* Several adapters, each with a call table of its own, share one budget.  *)
(***************************************************************************)
EXTENDS Integers, FiniteSets, FiniteSetsExt, Functions

CONSTANTS
  Thread, Request, None,
  StripeOf,   \* lock of each request, out of _requests
  TableOf,    \* cache directory of each request, with its usage.sqlite3
  Slots,      \* calls in flight at once
  Reserve,    \* worst-case price of a call
  Costs,      \* what a provider may bill
  Limit,      \* daily_limit_usd
  MaxDay, MaxCalls      \* bounds

ASSUME CallsAssumption ==
  /\ None \notin Thread \cup Request \cup Nat
  /\ {Slots, Reserve, Limit, MaxDay, MaxCalls} \subseteq Nat
  /\ Costs \subseteq Nat

Call == 1 .. MaxCalls      \* call ids, in the order they are drawn

VARIABLES
  day,        \* UTC day
  calls,      \* tables calls: request and status by id
  held,       \* table reservations: day, reserved and settled by id
  files,      \* answers in the caches
  threads,    \* what each thread is doing
  sent,       \* calls whose request reached the provider
  billed      \* what the provider billed

vars == <<day, calls, held, files, threads, sent, billed>>

Idle == [at |-> "idle", request |-> None]

Init ==
  /\ day = 0
  /\ calls = <<>>
  /\ held = <<>>
  /\ files = {}
  /\ threads = [t \in Thread |-> Idle]
  /\ sent = {}
  /\ billed = [c \in Call |-> 0]

-----------------------------------------------------------------------------
(* __call__: the lock of the request, then a slot. *)

(* Mistaken variant: every adapter instance has a lock of its own. *)
StripeOfInstance(t, r) == t

Stripe(t, r) == StripeOf[r]

Busy(t) == threads[t].at # "idle"
Slotted(t) == threads[t].at \notin {"idle", "slot"}

Goes(t, at) == threads' = [threads EXCEPT ![t].at = at]
Ends(t) == threads' = [threads EXCEPT ![t] = Idle]
tables == <<calls, held, files>>
provider == <<sent, billed>>

(* A thread that still waits for its lock has done nothing yet. *)
Ask(t) ==
  /\ threads[t].at = "idle"
  /\ \E r \in Request :
       /\ \A u \in Thread : Busy(u) => Stripe(u, threads[u].request) # Stripe(t, r)
       /\ threads' = [threads EXCEPT ![t] = [at |-> "slot", request |-> r]]
  /\ UNCHANGED <<day, tables, provider>>

Slot(t) ==
  /\ threads[t].at = "slot"
  /\ Cardinality({ u \in Thread : Slotted(u) }) < Slots
  /\ Goes(t, "look")
  /\ UNCHANGED <<day, tables, provider>>

(* The deadline of the evaluation ends a call that was not sent yet. *)
Expire(t) ==
  /\ threads[t].at \in {"slot", "begin"}
  /\ Ends(t)
  /\ UNCHANGED <<day, tables, provider>>

-----------------------------------------------------------------------------
(* _call: cache, reservation and call table, before anything is sent. *)

Look(t) ==
  /\ threads[t].at = "look"
  /\ IF threads[t].request \in files THEN Ends(t) ELSE Goes(t, "begin")
  /\ UNCHANGED <<day, tables, provider>>

(* Each table is written by one transaction at a time. *)
Writing(table) == \E u \in Thread : threads[u].at = "insert" /\ TableOf[threads[u].request] = table

CallsOf(r) == { c \in DOMAIN calls : calls[c].request = r }

(* Mistaken variant: only the first call of the request is looked at. *)
UnresolvedFirst(r) ==
  \E c \in CallsOf(r) : c = Min(CallsOf(r)) /\ calls[c].status = "usage_not_received"

Unresolved(r) == \E c \in CallsOf(r) : calls[c].status = "usage_not_received"

Charged(c) == IF held[c].settled = None THEN held[c].reserved ELSE held[c].settled
Charges == [c \in DOMAIN held |-> Charged(c)]
OfDay(d) == { c \in DOMAIN held : held[c].day = d }

(* Mistaken variant: only what was settled counts. *)
DayTotalSettled(d) == SumFunctionOnSet(Charges, { c \in OfDay(d) : held[c].settled # None })

DayTotal(d) == SumFunctionOnSet(Charges, OfDay(d))

(* Ids that were drawn, also by a call whose row was never written. *)
Drawn == DOMAIN held

(* reserve: an exhausted day raises, and a reservation has a new id. *)
Exhausted == DayTotal(day) + Reserve > Limit
Booked(c) ==
  [ d \in DOMAIN held \cup {c} |->
      IF d = c THEN [day |-> day, reserved |-> Reserve, settled |-> None] ELSE held[d] ]

(* BEGIN IMMEDIATE; an unresolved call or an exhausted day raises; the     *)
(* reservation is committed in the budget while the transaction is open.   *)
Begin(t) ==
  /\ threads[t].at = "begin"
  /\ ~ Writing(TableOf[threads[t].request])
  /\ IF Unresolved(threads[t].request) \/ Exhausted
     THEN Ends(t) /\ UNCHANGED held
     ELSE \E c \in Call \ Drawn :
            /\ c = Cardinality(Drawn) + 1
            /\ held' = Booked(c)
            /\ threads' = [threads EXCEPT ![t] = [at |-> "insert", request |-> threads[t].request, call |-> c]]
  /\ UNCHANGED <<day, calls, files, provider>>

Insert(t) ==
  /\ threads[t].at = "insert"
  /\ LET c == threads[t].call
     IN  /\ calls' = [ d \in DOMAIN calls \cup {c} |->
                         IF d = c THEN [request |-> threads[t].request, status |-> "usage_not_received"]
                         ELSE calls[d] ]
         /\ threads' = [threads EXCEPT ![t] = [ at |-> "send", request |-> threads[t].request,
                                                call |-> c, retried |-> FALSE ]]
  /\ UNCHANGED <<day, held, files, provider>>

-----------------------------------------------------------------------------
(* The request, and what comes of it. *)

Receives(t, status, cost) ==
  threads' = [threads EXCEPT ![t] = [ at |-> "record", request |-> threads[t].request,
                                      call |-> threads[t].call, status |-> status, cost |-> cost ]]

(* What is charged for a call that was lost: it may have been billed. *)
LossFree == 0
Loss == Reserve

(* No connection: tried once more, then given up. *)
Unreachable(t) ==
  /\ threads[t].at = "send"
  /\ IF threads[t].retried THEN Receives(t, "transport_error", Loss)
     ELSE threads' = [threads EXCEPT ![t].retried = TRUE]
  /\ UNCHANGED <<day, tables, provider>>

(* The provider has the request; it bills what it answers and nothing else. *)
Reach(t) ==
  /\ threads[t].at = "send"
  /\ \E cost \in Costs \cup {0} : billed' = [billed EXCEPT ![threads[t].call] = cost]
  /\ sent' = sent \cup {threads[t].call}
  /\ Goes(t, "await")
  /\ UNCHANGED <<day, tables>>

(* The connection fails while the request or the answer is under way. *)
Lose(t) ==
  /\ threads[t].at \in {"send", "await"}
  /\ Receives(t, "transport_error", Loss)
  /\ UNCHANGED <<day, tables, provider>>

(* A rejected request is not billed. *)
Reject(t) ==
  /\ threads[t].at = "await" /\ billed[threads[t].call] = 0
  /\ Receives(t, "provider_error", 0)
  /\ UNCHANGED <<day, tables, provider>>

(* Usage that makes no sense raises before anything is recorded. *)
Nonsense(t) ==
  /\ threads[t].at = "await"
  /\ Ends(t)
  /\ UNCHANGED <<day, tables, provider>>

Answer(t) ==
  /\ threads[t].at = "await" /\ billed[threads[t].call] \in Costs
  /\ Receives(t, "answered", billed[threads[t].call])
  /\ UNCHANGED <<day, tables, provider>>

Record(t) ==
  /\ threads[t].at = "record"
  /\ ~ Writing(TableOf[threads[t].request])
  /\ calls' = [calls EXCEPT ![threads[t].call].status = threads[t].status]
  /\ Goes(t, "settle")
  /\ UNCHANGED <<day, held, files, provider>>

(* A cost above the reservation is written and then refused, as is an answer *)
(* that turns out incomplete, or of another model, once it was settled.     *)
Settle(t) ==
  /\ threads[t].at = "settle"
  /\ held' = [held EXCEPT ![threads[t].call].settled = threads[t].cost]
  /\ \/ /\ threads[t].status = "answered"
        /\ threads[t].cost <= held[threads[t].call].reserved
        /\ Goes(t, "file")
     \/ Ends(t)
  /\ UNCHANGED <<day, calls, files, provider>>

WriteFile(t) ==
  /\ threads[t].at = "file"
  /\ files' = files \cup {threads[t].request}
  /\ Ends(t)
  /\ UNCHANGED <<day, calls, held, provider>>

-----------------------------------------------------------------------------
Midnight ==
  /\ day < MaxDay
  /\ day' = day + 1
  /\ UNCHANGED <<tables, threads, provider>>

(* The process dies: an open transaction is rolled back, a reservation      *)
(* that was committed inside it stays.                                      *)
Crash ==
  /\ \E t \in Thread : threads[t] # Idle
  /\ threads' = [t \in Thread |-> Idle]
  /\ UNCHANGED <<day, tables, provider>>

Queue(t) == Ask(t) \/ Slot(t) \/ Expire(t)
Prepare(t) == Look(t) \/ Begin(t) \/ Insert(t)
Post(t) == Unreachable(t) \/ Reach(t) \/ Lose(t) \/ Reject(t) \/ Nonsense(t) \/ Answer(t)
Finish(t) == Record(t) \/ Settle(t) \/ WriteFile(t)

Next ==
  \/ \E t \in Thread : Queue(t) \/ Prepare(t) \/ Post(t) \/ Finish(t)
  \/ Midnight
  \/ Crash

Spec == Init /\ [][Next]_vars

-----------------------------------------------------------------------------
(* Properties. *)

Status == {"usage_not_received", "transport_error", "provider_error", "answered"}

(* Types; every call in the table has its reservation; and a call in flight *)
(* is its thread's own: nobody else drew its id or wrote its row.           *)
TypeOK ==
  /\ day \in 0 .. MaxDay
  /\ DOMAIN held \subseteq Call /\ DOMAIN calls \subseteq DOMAIN held
  /\ \A c \in DOMAIN calls : calls[c] \in [request : Request, status : Status]
  /\ \A c \in DOMAIN held : held[c] \in [day : 0 .. day, reserved : {Reserve}, settled : Nat \cup {None}]
  /\ files \subseteq Request
  /\ sent \subseteq DOMAIN calls
  /\ \A t \in Thread :
       /\ threads[t].request \in Request \cup {None}
       /\ threads[t].at \in {"send", "await", "record"} =>
            calls[threads[t].call] = [request |-> threads[t].request, status |-> "usage_not_received"]

(* "A call whose outcome was never recorded (a crash mid-call) is never     *)
(* re-sent": when a request reaches the provider, no earlier call of it is  *)
(* without an outcome, whatever crashed, raised or raced before.            *)
NeverResent ==
  [][ \A c \in sent' \ sent : \A d \in CallsOf(calls[c].request) \ {c} :
        calls[d].status # "usage_not_received" ]_vars

(* Single flight: an answer that is in the cache is not paid for again.     *)
AnsweredOnce == [][ \A c \in sent' \ sent : calls[c].request \notin files ]_vars

(* The day's charge passes the limit only by a bill above its reservation.  *)
WithinLimit ==
  \A d \in 0 .. MaxDay :
    DayTotal(d) > Limit => \E c \in OfDay(d) : Charged(c) > held[c].reserved

(* "A crash never frees budget it may have spent": what the provider billed *)
(* is charged up to the reservation at least, also for calls that were      *)
(* lost, refused or forgotten in a crash.                                   *)
BillsAreCharged == \A c \in sent : Min({billed[c], held[c].reserved}) <= Charged(c)
=============================================================================
