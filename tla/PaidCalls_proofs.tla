--------------------------- MODULE PaidCalls_proofs ----------------------------
(***************************************************************************)
(* Proofs about PaidCalls: types, single flight, what a crash leaves       *)
(* charged, and that the day's sum passes its limit only by a bill above   *)
(* its reservation.                                                        *)
(***************************************************************************)
EXTENDS PaidCalls, SumTheorems

(* What a thread can be. *)
Waiting == [at : {"idle", "slot", "look", "begin"}, request : Request \cup {None}]
Inserting == [at : {"insert"}, request : Request, call : Call]
Sending == [at : {"send", "await"}, request : Request, call : Call, retried : BOOLEAN]
Receiving == [at : {"record", "settle", "file"}, request : Request, call : Call, status : Status, cost : Nat]
State == Waiting \cup Inserting \cup Sending \cup Receiving

Unsettled == {"insert", "send", "await", "record", "settle"}
Open == {"send", "await", "record"}

(* What the tables (held, calls, files and what is billed) say of a thread  *)
(* in state x: the call is its own and unsettled; no answer and no other    *)
(* call without an outcome is there for its request; and what it will       *)
(* settle covers the bill.                                                  *)
Fits(x, h, k, f, b) ==
  /\ x.at # "idle" => x.request \in Request
  /\ x.at \in Unsettled => x.call \in DOMAIN h /\ h[x.call].settled = None
  /\ x.at = "insert" => x.call \notin DOMAIN k
  /\ x.at \in Open \cup {"settle"} => x.call \in DOMAIN k
  /\ x.at \in Open => k[x.call] = [request |-> x.request, status |-> "usage_not_received"]
  /\ x.at \in Unsettled \cup {"begin", "file"} => x.request \notin f
  /\ x.at \in Open \cup {"insert"} =>
       \A d \in DOMAIN k : k[d].request = x.request /\ k[d].status = "usage_not_received" => d = x.call
  /\ x.at \in {"record", "settle"} => x.cost = Reserve \/ x.cost = b[x.call]

(* Two threads hold different locks and have drawn different calls. *)
Apart(x, y) ==
  /\ x.at # "idle" /\ y.at # "idle" => StripeOf[x.request] # StripeOf[y.request]
  /\ x.at \in Unsettled /\ y.at \in Unsettled => x.call # y.call

ThreadsOK ==
  /\ threads \in [Thread -> State]
  /\ \A t \in Thread : Fits(threads[t], held, calls, files, billed)
  /\ \A t, u \in Thread : t # u => Apart(threads[t], threads[u])

TablesOK ==
  /\ day \in 0 .. MaxDay
  /\ DOMAIN held \subseteq Call /\ DOMAIN calls \subseteq DOMAIN held
  /\ \A c \in DOMAIN calls : calls[c] \in [request : Request, status : Status]
  /\ \A c \in DOMAIN held : held[c] \in [day : 0 .. day, reserved : {Reserve}, settled : Nat \cup {None}]
  /\ files \subseteq Request
  /\ sent \subseteq DOMAIN calls
  /\ billed \in [Call -> Nat]

Inv == TablesOK /\ ThreadsOK /\ BillsAreCharged

LEMMA MinOfTwo ==
  ASSUME NEW x \in Nat, NEW y \in Nat
  PROVE  Min({x, y}) <= x /\ Min({x, y}) <= y
<1>1. \E m \in {x, y} : \A n \in {x, y} : m <= n
  OBVIOUS
<1> QED BY <1>1 DEF Min

LEMMA Initially == Init => Inv
<1> SUFFICES ASSUME Init PROVE Inv
  OBVIOUS
<1>1. TablesOK
  BY CallsAssumption DEF Init, TablesOK, Call
<1>2. \A t \in Thread : threads[t] = Idle
  BY DEF Init
<1>3. ThreadsOK
  BY <1>2 DEF Init, ThreadsOK, State, Waiting, Fits, Apart, Idle, Unsettled, Open
<1>4. BillsAreCharged
  BY DEF Init, BillsAreCharged
<1> QED BY <1>1, <1>3, <1>4 DEF Inv

(* A step of one thread: its new state must fit the new tables, and stay    *)
(* apart from the others, which must fit them still.                        *)
LEMMA OneMoves ==
  ASSUME ThreadsOK,
         NEW t \in Thread, NEW x \in State, threads' = [threads EXCEPT ![t] = x],
         Fits(x, held', calls', files', billed'),
         \A u \in Thread \ {t} : Apart(x, threads[u]),
         \A u \in Thread \ {t} : Fits(threads[u], held', calls', files', billed')
  PROVE  ThreadsOK'
<1>1. threads' \in [Thread -> State]
  BY DEF ThreadsOK
<1>2. threads'[t] = x /\ \A u \in Thread \ {t} : threads'[u] = threads[u]
  BY DEF ThreadsOK
<1>3. \A u \in Thread : Fits(threads'[u], held', calls', files', billed')
  BY <1>2
<1>4. ASSUME NEW u \in Thread, NEW v \in Thread, u # v PROVE Apart(threads'[u], threads'[v])
  <2>1. CASE u = t
    BY <2>1, <1>2, <1>4
  <2>2. CASE v = t
    <3>1. Apart(threads'[v], threads'[u])
      BY <2>2, <1>2, <1>4
    <3> QED BY <3>1 DEF Apart
  <2>3. CASE u # t /\ v # t
    BY <2>3, <1>2, <1>4 DEF ThreadsOK
  <2> QED BY <2>1, <2>2, <2>3
<1> QED BY <1>1, <1>3, <1>4 DEF ThreadsOK

(* A thread that keeps its request and its call keeps its distance.         *)
LEMMA StaysApart ==
  ASSUME ThreadsOK, NEW t \in Thread, NEW x \in State,
         \/ x.at = "idle"
         \/ /\ threads[t].at # "idle" /\ x.request = threads[t].request
            /\ x.at \in Unsettled => threads[t].at \in Unsettled /\ x.call = threads[t].call
  PROVE  \A u \in Thread \ {t} : Apart(x, threads[u])
<1> SUFFICES ASSUME NEW u \in Thread \ {t} PROVE Apart(x, threads[u])
  OBVIOUS
<1>1. Apart(threads[t], threads[u])
  BY DEF ThreadsOK
<1> QED BY <1>1 DEF Apart, Unsettled

(* What is charged covers the bills while no bill, no table of reservations *)
(* and no sent call changes.                                                *)
LEMMA SameBills ==
  ASSUME BillsAreCharged, UNCHANGED <<held, sent, billed>>
  PROVE  BillsAreCharged'
BY DEF BillsAreCharged, Charged

(* Before anything is sent, and after: steps that leave the tables alone.   *)
LEMMA QuietSteps ==
  ASSUME Inv, NEW t \in Thread,
         Queue(t) \/ Look(t) \/ Unreachable(t) \/ Lose(t) \/ Reject(t) \/ Nonsense(t) \/ Answer(t)
  PROVE  Inv'
<1> USE DEF Inv
<1>1. UNCHANGED <<day, held, calls, files, sent, billed>>
  BY DEF Queue, Ask, Slot, Expire, Look, Unreachable, Lose, Reject, Nonsense, Answer, tables, provider
<1>2. TablesOK'
  BY <1>1 DEF TablesOK
<1>3. BillsAreCharged'
  BY <1>1, SameBills
<1> SUFFICES ThreadsOK'
  BY <1>2, <1>3
<1>4. \A u \in Thread : Fits(threads[u], held', calls', files', billed')
  BY <1>1 DEF ThreadsOK
<1>5. Fits(threads[t], held, calls, files, billed) /\ threads[t] \in State /\ threads \in [Thread -> State]
  BY DEF ThreadsOK
<1>6. Idle \in State /\ Fits(Idle, held', calls', files', billed')
  BY DEF Idle, State, Waiting, Fits, Unsettled, Open
<1>7. ASSUME threads' = [threads EXCEPT ![t] = Idle] PROVE ThreadsOK'
  <2>1. \A u \in Thread \ {t} : Apart(Idle, threads[u])
    BY <1>6, StaysApart DEF Idle
  <2> QED BY <1>4, <1>6, <1>7, <2>1, OneMoves
<1>8. CASE Ask(t)
  <2>1. PICK r \in Request :
          /\ \A u \in Thread : Busy(u) => StripeOf[threads[u].request] # StripeOf[r]
          /\ threads' = [threads EXCEPT ![t] = [at |-> "slot", request |-> r]]
    BY <1>8 DEF Ask, Stripe
  <2> DEFINE x == [at |-> "slot", request |-> r]
  <2>2. x \in State /\ Fits(x, held', calls', files', billed')
    BY DEF State, Waiting, Fits, Unsettled, Open
  <2>3. \A u \in Thread \ {t} : Apart(x, threads[u])
    BY <2>1 DEF Apart, Busy, Unsettled
  <2>4. threads' = [threads EXCEPT ![t] = x]
    BY <2>1
  <2> HIDE DEF x
  <2> QED BY <2>2, <2>3, <2>4, <1>4, OneMoves
<1>9. CASE Slot(t)
  <2> DEFINE x == [threads[t] EXCEPT !.at = "look"]
  <2>1. threads[t] \in Waiting /\ threads[t].at = "slot"
    BY <1>5, <1>9 DEF Slot, State, Waiting, Inserting, Sending, Receiving
  <2>2. x \in State /\ Fits(x, held', calls', files', billed') /\ x.at = "look" /\ x.request = threads[t].request
    BY <1>5, <2>1 DEF State, Waiting, Fits, Unsettled, Open
  <2>3. \A u \in Thread \ {t} : Apart(x, threads[u])
    BY <2>1, <2>2, StaysApart DEF Unsettled
  <2>4. threads' = [threads EXCEPT ![t] = x]
    BY <1>5, <1>9 DEF Slot, Goes
  <2> HIDE DEF x
  <2> QED BY <2>4, <2>2, <2>3, <1>4, OneMoves
<1>10. CASE Expire(t) \/ Nonsense(t)
  BY <1>10, <1>7 DEF Expire, Nonsense, Ends
<1>11. CASE Look(t)
  <2>1. CASE threads[t].request \in files
    BY <1>11, <1>7, <2>1 DEF Look, Ends
  <2>2. CASE threads[t].request \notin files
    <3> DEFINE x == [threads[t] EXCEPT !.at = "begin"]
    <3>1. threads[t] \in Waiting /\ threads[t].at = "look"
      BY <1>5, <1>11 DEF Look, State, Waiting, Inserting, Sending, Receiving
    <3>2. x \in State /\ x.at = "begin" /\ x.request = threads[t].request
      BY <3>1 DEF State, Waiting
    <3>3. Fits(x, held', calls', files', billed')
      BY <1>1, <1>5, <2>2, <3>1, <3>2 DEF Fits, Unsettled, Open
    <3>4. \A u \in Thread \ {t} : Apart(x, threads[u])
      BY <3>1, <3>2, StaysApart DEF Unsettled
    <3>5. threads' = [threads EXCEPT ![t] = x]
      BY <1>5, <1>11, <2>2 DEF Look, Goes
    <3> HIDE DEF x
    <3> QED BY <3>2, <3>3, <3>4, <3>5, <1>4, OneMoves
  <2> QED BY <2>1, <2>2
<1>12. CASE Unreachable(t) /\ ~ threads[t].retried
  <2> DEFINE x == [threads[t] EXCEPT !.retried = TRUE]
  <2>1. threads[t] \in Sending /\ threads[t].at = "send"
    BY <1>5, <1>12 DEF Unreachable, State, Waiting, Inserting, Sending, Receiving
  <2>2. x \in State /\ x.at = "send" /\ x.request = threads[t].request /\ x.call = threads[t].call
    BY <2>1 DEF State, Sending
  <2>3. Fits(x, held', calls', files', billed')
    BY <1>1, <1>5, <2>1, <2>2 DEF Fits, Unsettled, Open
  <2>4. \A u \in Thread \ {t} : Apart(x, threads[u])
    BY <2>1, <2>2, StaysApart DEF Unsettled
  <2>5. threads' = [threads EXCEPT ![t] = x]
    BY <1>5, <1>12 DEF Unreachable
  <2> HIDE DEF x
  <2> QED BY <2>2, <2>3, <2>4, <2>5, <1>4, OneMoves
<1>13. ASSUME NEW s \in Status, NEW n \in Nat, threads[t].at \in {"send", "await"},
              threads' = [threads EXCEPT ![t] = [ at |-> "record", request |-> threads[t].request,
                                                  call |-> threads[t].call, status |-> s, cost |-> n ]],
              n = Reserve \/ n = billed[threads[t].call]
       PROVE  ThreadsOK'
  <2> DEFINE x == [ at |-> "record", request |-> threads[t].request, call |-> threads[t].call,
                    status |-> s, cost |-> n ]
  <2>1. threads[t] \in Sending
    BY <1>5, <1>13 DEF State, Waiting, Inserting, Sending, Receiving
  <2>2. x \in State
    BY <2>1 DEF State, Sending, Receiving
  <2>3. Fits(x, held', calls', files', billed')
    BY <1>1, <1>5, <1>13 DEF Fits, Unsettled, Open
  <2>4. \A u \in Thread \ {t} : Apart(x, threads[u])
    BY <1>13, <2>2, StaysApart DEF Unsettled
  <2>5. threads' = [threads EXCEPT ![t] = x]
    BY <1>13
  <2> HIDE DEF x
  <2> QED BY <2>2, <2>3, <2>4, <2>5, <1>4, OneMoves
<1>14. Reserve \in Nat /\ Loss = Reserve
  BY CallsAssumption DEF Loss
<1>15. CASE (Unreachable(t) /\ threads[t].retried) \/ Lose(t)
  BY <1>13, <1>14, <1>15 DEF Unreachable, Lose, Receives, Status
<1>16. CASE Reject(t)
  <2>1. 0 \in Nat /\ 0 = billed[threads[t].call] /\ "provider_error" \in Status
    BY <1>16 DEF Reject, Status
  <2> QED BY <1>13, <1>16, <2>1 DEF Reject, Receives
<1>17. CASE Answer(t)
  BY <1>13, <1>17, CallsAssumption DEF Answer, Receives, Status
<1> QED BY <1>8, <1>9, <1>10, <1>11, <1>12, <1>15, <1>16, <1>17 DEF Queue

(* Other threads do not notice what happens to a call c that is not theirs  *)
(* and to the cache file of a request that is not theirs.                   *)
LEMMA OthersFit ==
  ASSUME ThreadsOK, NEW t \in Thread, threads[t].at # "idle", NEW c \in Call \cup {None},
         \A u \in Thread \ {t} : threads[u].at \in Unsettled => threads[u].call # c,
         \A d \in DOMAIN held : d # c => d \in DOMAIN held' /\ held'[d] = held[d],
         \A d \in DOMAIN calls : d # c => d \in DOMAIN calls' /\ calls'[d] = calls[d],
         \A d \in DOMAIN calls' : d \in DOMAIN calls \/ d = c,
         c \in DOMAIN calls' => calls'[c].request = threads[t].request,
         \A r \in files' : r \in files \/ r = threads[t].request,
         \A d \in Call : d # c => billed'[d] = billed[d]
  PROVE  \A u \in Thread \ {t} : Fits(threads[u], held', calls', files', billed')
<1> SUFFICES ASSUME NEW u \in Thread \ {t}
             PROVE  Fits(threads[u], held', calls', files', billed')
  OBVIOUS
<1>1. Fits(threads[u], held, calls, files, billed) /\ Apart(threads[t], threads[u]) /\ threads[u] \in State
  BY DEF ThreadsOK
<1>2. threads[u].at # "idle" => threads[u].request # threads[t].request
  BY <1>1 DEF Apart
<1>3. threads[u].at \in {"record", "settle"} => threads[u].call \in Call
  BY <1>1 DEF State, Waiting, Inserting, Sending, Receiving
<1>4. \A d \in DOMAIN calls' :
        calls'[d].request = threads[u].request /\ threads[u].at # "idle" =>
          d \in DOMAIN calls /\ calls'[d] = calls[d]
  BY <1>2
<1> QED BY <1>1, <1>2, <1>3, <1>4 DEF Fits, Unsettled, Open

LEMMA BeginStep ==
  ASSUME Inv, NEW t \in Thread, Begin(t)
  PROVE  Inv'
<1> USE DEF Inv
<1>1. threads[t] \in Waiting /\ threads[t].at = "begin" /\ threads[t].request \in Request \ files
  BY DEF Begin, Booked, Exhausted, ThreadsOK, State, Waiting, Inserting, Sending, Receiving, Fits, Unsettled
<1>2. UNCHANGED <<day, calls, files, sent, billed>>
  BY DEF Begin, Booked, Exhausted, provider
<1>3. threads \in [Thread -> State] /\ Fits(threads[t], held, calls, files, billed)
  BY DEF ThreadsOK
<1>4. CASE UNCHANGED held /\ threads' = [threads EXCEPT ![t] = Idle]
  <2>1. TablesOK' /\ BillsAreCharged'
    BY <1>2, <1>4, SameBills DEF TablesOK
  <2>2. Idle \in State /\ Idle.at = "idle" /\ Fits(Idle, held', calls', files', billed')
    BY DEF Idle, State, Waiting, Fits, Unsettled, Open
  <2>3. \A u \in Thread \ {t} : Apart(Idle, threads[u])
    BY <2>2, StaysApart
  <2>4. \A u \in Thread \ {t} : Fits(threads[u], held', calls', files', billed')
    BY <1>2, <1>4 DEF ThreadsOK
  <2>5. ThreadsOK'
    BY <1>4, <2>2, <2>3, <2>4, OneMoves
  <2> QED BY <2>1, <2>5
<1>5. CASE /\ ~ Unresolved(threads[t].request)
           /\ \E c \in Call \ Drawn :
                /\ held' = [ d \in DOMAIN held \cup {c} |->
                               IF d = c THEN [day |-> day, reserved |-> Reserve, settled |-> None] ELSE held[d] ]
                /\ threads' = [threads EXCEPT ![t] =
                                [at |-> "insert", request |-> threads[t].request, call |-> c]]
  <2>1. PICK c \in Call \ DOMAIN held :
          /\ held' = [ d \in DOMAIN held \cup {c} |->
                         IF d = c THEN [day |-> day, reserved |-> Reserve, settled |-> None] ELSE held[d] ]
          /\ threads' = [threads EXCEPT ![t] = [at |-> "insert", request |-> threads[t].request, call |-> c]]
    BY <1>5 DEF Drawn
  <2>2. c \notin DOMAIN calls /\ c \notin sent
    BY DEF TablesOK
  <2>3. TablesOK'
    BY <1>2, <2>1, CallsAssumption DEF TablesOK
  <2>4. BillsAreCharged'
    BY <1>2, <2>1, <2>2 DEF BillsAreCharged, Charged, TablesOK
  <2> DEFINE x == [at |-> "insert", request |-> threads[t].request, call |-> c]
  <2>5. x \in State
    BY <1>1 DEF State, Inserting
  <2>6. Fits(x, held', calls', files', billed')
    BY <1>1, <1>2, <1>5, <2>1, <2>2 DEF Fits, Unsettled, Open, Unresolved, CallsOf
  <2>7. \A u \in Thread \ {t} : threads[u].at \in Unsettled => threads[u].call # c
    <3>1. \A u \in Thread : threads[u].at \in Unsettled => threads[u].call \in DOMAIN held
      BY DEF ThreadsOK, Fits
    <3> QED BY <2>1, <3>1
  <2>8. \A u \in Thread \ {t} : Apart(x, threads[u])
    BY <1>1, <2>7 DEF ThreadsOK, Apart, Unsettled
  <2>9. \A u \in Thread \ {t} : Fits(threads[u], held', calls', files', billed')
    BY <1>1, <1>2, <2>1, <2>2, <2>7, OthersFit
  <2>10. threads' = [threads EXCEPT ![t] = x]
    BY <2>1
  <2> HIDE DEF x
  <2>11. ThreadsOK'
    BY <2>5, <2>6, <2>8, <2>9, <2>10, OneMoves
  <2> QED BY <2>3, <2>4, <2>11
<1> QED BY <1>4, <1>5 DEF Begin, Booked, Exhausted, Ends

LEMMA InsertStep ==
  ASSUME Inv, NEW t \in Thread, Insert(t)
  PROVE  Inv'
<1> USE DEF Inv
<1> DEFINE c == threads[t].call
           x == [at |-> "send", request |-> threads[t].request, call |-> c, retried |-> FALSE]
<1>1. threads[t] \in Inserting /\ Fits(threads[t], held, calls, files, billed)
  BY DEF Insert, ThreadsOK, State, Waiting, Inserting, Sending, Receiving
<1>2. UNCHANGED <<day, held, files, sent, billed>>
  BY DEF Insert, provider
<1>3. /\ calls' = [ d \in DOMAIN calls \cup {c} |->
                      IF d = c THEN [request |-> threads[t].request, status |-> "usage_not_received"]
                      ELSE calls[d] ]
      /\ threads' = [threads EXCEPT ![t] = x]
  BY DEF Insert
<1>4. threads[t].at = "insert" /\ c \in DOMAIN held /\ c \in Call /\ c \notin DOMAIN calls
  BY <1>1 DEF Inserting, Fits, Unsettled
<1>5. TablesOK' /\ BillsAreCharged'
  BY <1>1, <1>2, <1>3, <1>4, SameBills DEF TablesOK, Inserting, Status
<1>6. x \in State
  BY <1>1 DEF State, Inserting, Sending
<1>7. Fits(x, held', calls', files', billed')
  BY <1>1, <1>2, <1>3, <1>4 DEF Fits, Unsettled, Open
<1>8. \A u \in Thread \ {t} : Apart(x, threads[u])
  BY <1>4, <1>6, StaysApart DEF Unsettled
<1>9. \A u \in Thread \ {t} : threads[u].at \in Unsettled => threads[u].call # c
  BY <1>4 DEF ThreadsOK, Apart, Unsettled
<1>10. \A u \in Thread \ {t} : Fits(threads[u], held', calls', files', billed')
  BY <1>2, <1>3, <1>4, <1>9, OthersFit
<1>11. threads' = [threads EXCEPT ![t] = x]
  BY <1>3
<1> HIDE DEF x
<1>12. ThreadsOK'
  BY <1>6, <1>7, <1>8, <1>10, <1>11, OneMoves
<1> QED BY <1>5, <1>12

LEMMA ReachStep ==
  ASSUME Inv, NEW t \in Thread, Reach(t)
  PROVE  Inv'
<1> USE DEF Inv
<1> DEFINE c == threads[t].call
           x == [threads[t] EXCEPT !.at = "await"]
<1>1. threads[t] \in Sending /\ Fits(threads[t], held, calls, files, billed)
  BY DEF Reach, ThreadsOK, State, Waiting, Inserting, Sending, Receiving
<1>2. UNCHANGED <<day, held, calls, files>> /\ sent' = sent \cup {c}
  BY DEF Reach, tables
<1>3. PICK cost \in Costs \cup {0} : billed' = [billed EXCEPT ![c] = cost]
  BY DEF Reach
<1>4. threads[t].at = "send" /\ c \in DOMAIN calls /\ c \in DOMAIN held /\ c \in Call /\ held[c].settled = None
  BY <1>1 DEF Reach, Sending, Fits, Unsettled, Open
<1>5. billed' \in [Call -> Nat] /\ billed'[c] = cost /\ cost \in Nat
      /\ \A d \in Call \ {c} : billed'[d] = billed[d]
  BY <1>3, <1>4, CallsAssumption DEF TablesOK
<1>6. TablesOK'
  BY <1>2, <1>4, <1>5 DEF TablesOK
<1>7. BillsAreCharged'
  <2> SUFFICES ASSUME NEW d \in sent'
               PROVE  Min({billed'[d], held[d].reserved}) <= Charged(d)
    BY <1>2 DEF BillsAreCharged, Charged
  <2>1. CASE d = c
    <3>1. held[c].reserved \in Nat /\ Charged(c) = held[c].reserved
      BY <1>4, CallsAssumption DEF TablesOK, Charged
    <3>2. Min({billed'[c], held[c].reserved}) <= held[c].reserved
      BY <1>5, <3>1, MinOfTwo
    <3> QED BY <2>1, <3>1, <3>2
  <2>2. CASE d # c
    <3>1. d \in sent /\ d \in Call
      BY <1>2, <2>2 DEF TablesOK
    <3> QED BY <1>5, <2>2, <3>1 DEF BillsAreCharged
  <2> QED BY <2>1, <2>2
<1>8. x \in State /\ x.at = "await" /\ x.request = threads[t].request /\ x.call = c
  BY <1>1 DEF State, Sending
<1>9. Fits(x, held', calls', files', billed')
  BY <1>1, <1>2, <1>4, <1>8 DEF Fits, Unsettled, Open
<1>10. \A u \in Thread \ {t} : Apart(x, threads[u])
  BY <1>4, <1>8, StaysApart DEF Unsettled
<1>11. \A u \in Thread \ {t} : threads[u].at \in Unsettled => threads[u].call # c
  BY <1>4 DEF ThreadsOK, Apart, Unsettled
<1>12. calls'[c].request = threads[t].request
  BY <1>1, <1>2, <1>4 DEF Fits, Open
<1>13. \A u \in Thread \ {t} : Fits(threads[u], held', calls', files', billed')
  BY <1>2, <1>4, <1>5, <1>11, <1>12, OthersFit
<1>14. threads' = [threads EXCEPT ![t] = x]
  BY DEF Reach, Goes, ThreadsOK
<1> HIDE DEF x
<1>15. ThreadsOK'
  BY <1>8, <1>9, <1>10, <1>13, <1>14, OneMoves
<1> QED BY <1>6, <1>7, <1>15

LEMMA RecordStep ==
  ASSUME Inv, NEW t \in Thread, Record(t)
  PROVE  Inv'
<1> USE DEF Inv
<1> DEFINE c == threads[t].call
           x == [threads[t] EXCEPT !.at = "settle"]
<1>1. threads[t] \in Receiving /\ Fits(threads[t], held, calls, files, billed)
  BY DEF Record, ThreadsOK, State, Waiting, Inserting, Sending, Receiving
<1>2. UNCHANGED <<day, held, files, sent, billed>> /\ calls' = [calls EXCEPT ![c].status = threads[t].status]
  BY DEF Record, provider
<1>3. threads[t].at = "record" /\ c \in DOMAIN calls /\ c \in DOMAIN held /\ c \in Call
      /\ calls[c].request = threads[t].request /\ threads[t].status \in Status
  BY <1>1 DEF Record, Receiving, Fits, Unsettled, Open
<1>4. calls[c] \in [request : Request, status : Status]
  BY <1>3 DEF TablesOK
<1>5. /\ DOMAIN calls' = DOMAIN calls
      /\ calls'[c] \in [request : Request, status : Status] /\ calls'[c].request = threads[t].request
      /\ \A d \in DOMAIN calls : d # c => calls'[d] = calls[d]
  BY <1>2, <1>3, <1>4
<1>6. TablesOK' /\ BillsAreCharged'
  BY <1>2, <1>5, SameBills DEF TablesOK
<1>7. x \in State /\ x.at = "settle" /\ x.request = threads[t].request /\ x.call = c /\ x.cost = threads[t].cost
  BY <1>1 DEF State, Receiving
<1>8. Fits(x, held', calls', files', billed')
  BY <1>1, <1>2, <1>3, <1>5, <1>7 DEF Fits, Unsettled, Open
<1>9. \A u \in Thread \ {t} : Apart(x, threads[u])
  BY <1>3, <1>7, StaysApart DEF Unsettled
<1>10. \A u \in Thread \ {t} : threads[u].at \in Unsettled => threads[u].call # c
  BY <1>3 DEF ThreadsOK, Apart, Unsettled
<1>11. \A u \in Thread \ {t} : Fits(threads[u], held', calls', files', billed')
  <2>1. UNCHANGED <<held, files, billed>>
    BY <1>2
  <2> QED BY <2>1, <1>3, <1>5, <1>10, OthersFit
<1>12. threads' = [threads EXCEPT ![t] = x]
  BY DEF Record, Goes, ThreadsOK
<1> HIDE DEF x
<1>13. ThreadsOK'
  BY <1>7, <1>8, <1>9, <1>11, <1>12, OneMoves
<1> QED BY <1>6, <1>13

LEMMA SettleStep ==
  ASSUME Inv, NEW t \in Thread, Settle(t)
  PROVE  Inv'
<1> USE DEF Inv
<1> DEFINE c == threads[t].call
           y == [threads[t] EXCEPT !.at = "file"]
<1>1. threads[t] \in Receiving /\ Fits(threads[t], held, calls, files, billed)
  BY DEF Settle, ThreadsOK, State, Waiting, Inserting, Sending, Receiving
<1>2. UNCHANGED <<day, calls, files, sent, billed>> /\ held' = [held EXCEPT ![c].settled = threads[t].cost]
  BY DEF Settle, provider
<1>3. threads[t].at = "settle" /\ c \in DOMAIN held /\ c \in DOMAIN calls /\ c \in Call /\ threads[t].cost \in Nat
      /\ (threads[t].cost = Reserve \/ threads[t].cost = billed[c])
  BY <1>1 DEF Settle, Receiving, Fits, Unsettled
<1>4. held[c] \in [day : 0 .. day, reserved : {Reserve}, settled : Nat \cup {None}]
  BY <1>3 DEF TablesOK
<1>5. /\ DOMAIN held' = DOMAIN held
      /\ held'[c] \in [day : 0 .. day, reserved : {Reserve}, settled : Nat \cup {None}]
      /\ held'[c].settled = threads[t].cost
      /\ \A d \in DOMAIN held : d # c => held'[d] = held[d]
  BY <1>2, <1>3, <1>4
<1>6. TablesOK'
  BY <1>2, <1>5 DEF TablesOK
<1>7. BillsAreCharged'
  <2> SUFFICES ASSUME NEW d \in sent
               PROVE  Min({billed[d], held'[d].reserved}) <=
                        IF held'[d].settled = None THEN held'[d].reserved ELSE held'[d].settled
    BY <1>2 DEF BillsAreCharged, Charged
  <2>1. CASE d = c
    <3>1. held'[c].reserved = Reserve /\ Reserve \in Nat /\ billed[c] \in Nat
      BY <1>3, <1>5, CallsAssumption DEF TablesOK
    <3>2. threads[t].cost # None
      BY <1>3, CallsAssumption
    <3>3. Min({billed[c], Reserve}) <= billed[c] /\ Min({billed[c], Reserve}) <= Reserve
      BY <3>1, MinOfTwo
    <3> QED BY <1>3, <1>5, <2>1, <3>1, <3>2, <3>3
  <2>2. CASE d # c
    <3>1. d \in DOMAIN held /\ held'[d] = held[d]
      BY <1>5, <2>2 DEF TablesOK
    <3> QED BY <3>1 DEF BillsAreCharged, Charged
  <2> QED BY <2>1, <2>2
<1>8. \A u \in Thread \ {t} : threads[u].at \in Unsettled => threads[u].call # c
  BY <1>3 DEF ThreadsOK, Apart, Unsettled
<1>9. \A u \in Thread \ {t} : Fits(threads[u], held', calls', files', billed')
  <2> SUFFICES ASSUME NEW u \in Thread \ {t} PROVE Fits(threads[u], held', calls, files, billed)
    BY <1>2
  <2>1. Fits(threads[u], held, calls, files, billed)
    BY DEF ThreadsOK
  <2> QED BY <1>5, <1>8, <2>1 DEF Fits
<1>11. CASE threads' = [threads EXCEPT ![t] = y]
  <2>1. y \in State /\ y.at = "file" /\ y.request = threads[t].request
    BY <1>1 DEF State, Receiving
  <2>2. Fits(y, held', calls', files', billed')
    BY <1>1, <1>2, <1>3, <2>1 DEF Fits, Unsettled, Open
  <2>3. \A u \in Thread \ {t} : Apart(y, threads[u])
    BY <1>3, <2>1, StaysApart DEF Unsettled
  <2> HIDE DEF y
  <2>4. ThreadsOK'
    BY <1>9, <1>11, <2>1, <2>2, <2>3, OneMoves
  <2> QED BY <1>6, <1>7, <2>4
<1>12. CASE threads' = [threads EXCEPT ![t] = Idle]
  <2>1. Idle \in State /\ Idle.at = "idle" /\ Fits(Idle, held', calls', files', billed')
    BY DEF Idle, State, Waiting, Fits, Unsettled, Open
  <2>2. \A u \in Thread \ {t} : Apart(Idle, threads[u])
    BY <2>1, StaysApart
  <2>3. ThreadsOK'
    BY <1>9, <1>12, <2>1, <2>2, OneMoves
  <2> QED BY <1>6, <1>7, <2>3
<1>13. [threads EXCEPT ![t].at = "file"] = [threads EXCEPT ![t] = y]
  BY DEF ThreadsOK
<1> QED BY <1>11, <1>12, <1>13 DEF Settle, Goes, Ends

LEMMA WriteFileStep ==
  ASSUME Inv, NEW t \in Thread, WriteFile(t)
  PROVE  Inv'
<1> USE DEF Inv
<1>1. UNCHANGED <<day, held, calls, sent, billed>> /\ files' = files \cup {threads[t].request}
      /\ threads' = [threads EXCEPT ![t] = Idle]
  BY DEF WriteFile, provider, Ends
<1>2. threads[t].at = "file" /\ threads[t].request \in Request
  BY DEF WriteFile, ThreadsOK, Fits
<1>3. TablesOK' /\ BillsAreCharged'
  BY <1>1, <1>2, SameBills DEF TablesOK
<1>4. Idle \in State /\ Idle.at = "idle" /\ Fits(Idle, held', calls', files', billed')
  BY DEF Idle, State, Waiting, Fits, Unsettled, Open
<1>5. \A u \in Thread \ {t} : Apart(Idle, threads[u])
  BY <1>4, StaysApart
<1>6. \A u \in Thread \ {t} : Fits(threads[u], held', calls', files', billed')
  <2> SUFFICES ASSUME NEW u \in Thread \ {t} PROVE Fits(threads[u], held, calls, files', billed)
    BY <1>1
  <2>1. Fits(threads[u], held, calls, files, billed) /\ Apart(threads[t], threads[u])
    BY DEF ThreadsOK
  <2>2. threads[u].at # "idle" => threads[u].request # threads[t].request
    BY <1>2, <2>1 DEF Apart
  <2> QED BY <1>1, <2>1, <2>2 DEF Fits, Unsettled
<1>7. ThreadsOK'
  BY <1>1, <1>4, <1>5, <1>6, OneMoves
<1> QED BY <1>3, <1>7

LEMMA WorldStep ==
  ASSUME Inv, Midnight \/ Crash
  PROVE  Inv'
<1> USE DEF Inv
<1>1. UNCHANGED <<held, calls, files, sent, billed>>
  BY DEF Midnight, Crash, tables, provider
<1>2. day' \in 0 .. MaxDay /\ day <= day'
  BY CallsAssumption DEF Midnight, Crash, TablesOK
<1>3. TablesOK' /\ BillsAreCharged'
  BY <1>1, <1>2, SameBills DEF TablesOK
<1>4. CASE Midnight
  BY <1>1, <1>3, <1>4 DEF Midnight, ThreadsOK
<1>5. CASE Crash
  <2>1. threads' \in [Thread -> State] /\ \A t \in Thread : threads'[t] = Idle
    BY <1>5 DEF Crash, Idle, State, Waiting
  <2>2. Fits(Idle, held', calls', files', billed') /\ Apart(Idle, Idle)
    BY DEF Idle, Fits, Apart, Unsettled, Open
  <2>3. ThreadsOK'
    BY <2>1, <2>2 DEF ThreadsOK
  <2> QED BY <1>3, <2>3
<1> QED BY <1>4, <1>5

LEMMA Inductive == Inv /\ [Next]_vars => Inv'
<1> SUFFICES ASSUME Inv, [Next]_vars PROVE Inv'
  OBVIOUS
<1>1. CASE UNCHANGED vars
  BY <1>1 DEF vars, Inv, TablesOK, ThreadsOK, BillsAreCharged, Charged
<1>2. ASSUME NEW t \in Thread, Queue(t) \/ Prepare(t) \/ Post(t) \/ Finish(t) PROVE Inv'
  BY <1>2, QuietSteps, BeginStep, InsertStep, ReachStep, RecordStep, SettleStep, WriteFileStep
     DEF Prepare, Post, Finish
<1>3. CASE Midnight \/ Crash
  BY <1>3, WorldStep
<1> QED BY <1>1, <1>2, <1>3 DEF Next

LEMMA Invariant == Spec => []Inv
BY Initially, Inductive, PTL DEF Spec

LEMMA InvGivesTypes == Inv => TypeOK
<1> SUFFICES ASSUME Inv PROVE TypeOK
  OBVIOUS
<1>1. \A t \in Thread : threads[t] \in State /\ Fits(threads[t], held, calls, files, billed)
  BY DEF Inv, ThreadsOK
<1>2. \A t \in Thread : threads[t].request \in Request \cup {None}
  BY <1>1 DEF State, Waiting, Inserting, Sending, Receiving
<1>3. \A t \in Thread :
        threads[t].at \in {"send", "await", "record"} =>
          calls[threads[t].call] = [request |-> threads[t].request, status |-> "usage_not_received"]
  BY <1>1 DEF Fits, Open
<1> QED BY <1>2, <1>3 DEF Inv, TablesOK, TypeOK

(* What a request that reaches the provider meets: no answer in the cache,  *)
(* and no other call of it without an outcome.                              *)
LEMMA SendsAlone ==
  ASSUME Inv, [Next]_vars
  PROVE  \A c \in sent' \ sent :
           /\ calls[c].request \notin files
           /\ \A d \in CallsOf(calls[c].request) \ {c} : calls[d].status # "usage_not_received"
<1> SUFFICES ASSUME NEW c \in sent' \ sent
             PROVE  /\ calls[c].request \notin files
                    /\ \A d \in CallsOf(calls[c].request) \ {c} : calls[d].status # "usage_not_received"
  OBVIOUS
<1>1. PICK t \in Thread : Reach(t)
  <2>1. sent' # sent
    OBVIOUS
  <2> QED BY <2>1 DEF Next, vars, provider, tables, Queue, Ask, Slot, Expire, Prepare, Look, Begin, Booked, Insert, Post,
            Unreachable, Lose, Reject, Nonsense, Answer, Finish, Record, Settle, WriteFile, Midnight, Crash
<1>2. threads[t].at = "send" /\ c = threads[t].call
  BY <1>1 DEF Reach
<1>3. Fits(threads[t], held, calls, files, billed)
  BY DEF Inv, ThreadsOK
<1> QED BY <1>2, <1>3 DEF Fits, Open, Unsettled, CallsOf

(* The day's sum is over a finite set of naturals. *)
LEMMA DaysAreSums ==
  ASSUME TablesOK
  PROVE  /\ \A d : IsFiniteSet(OfDay(d)) /\ OfDay(d) \subseteq DOMAIN held
         /\ \A c \in DOMAIN held : Charges[c] \in Nat /\ Charges[c] = Charged(c)
<1>1. IsFiniteSet(Call)
  BY CallsAssumption, FS_Interval DEF Call
<1>2. \A d : OfDay(d) \subseteq DOMAIN held /\ OfDay(d) \in SUBSET Call
  BY DEF TablesOK, OfDay
<1>3. \A d : IsFiniteSet(OfDay(d))
  BY <1>1, <1>2, FS_Subset
<1>4. ASSUME NEW c \in DOMAIN held PROVE Charged(c) \in Nat
  <2>1. held[c].reserved = Reserve /\ held[c].settled \in Nat \cup {None}
    BY DEF TablesOK
  <2> QED BY <2>1, CallsAssumption DEF Charged
<1> QED BY <1>2, <1>3, <1>4 DEF Charges

(* A day on which nothing was booked or settled is as it was. *)
LEMMA SameDay ==
  ASSUME TablesOK, TablesOK', WithinLimit, NEW d \in 0 .. MaxDay, OfDay(d)' = OfDay(d),
         \A c \in OfDay(d) : held'[c] = held[c]
  PROVE  DayTotal(d)' > Limit => \E c \in OfDay(d)' : Charged(c)' > held'[c].reserved
<1>1. \A c \in OfDay(d) : c \in DOMAIN held /\ c \in DOMAIN held'
  BY DaysAreSums DEF OfDay
<1>2. \A c \in OfDay(d) : Charged(c)' = Charged(c)
  BY DEF Charged
<1>3. \A c \in OfDay(d) : Charges'[c] = Charges[c]
  BY <1>1, <1>2 DEF Charges
<1>4. DayTotal(d)' = DayTotal(d)
  <2>1. SumFunctionOnSet(Charges, OfDay(d)) = SumFunctionOnSet(Charges', OfDay(d))
    BY <1>3, DaysAreSums, SumOfSame
  <2> QED BY <2>1 DEF DayTotal
<1> QED BY <1>2, <1>4 DEF WithinLimit

(* A reservation fits the day it is booked on. *)
LEMMA BookingFits ==
  ASSUME TablesOK, TablesOK', WithinLimit, ~ Exhausted,
         NEW c \in Call \ Drawn, held' = Booked(c)
  PROVE  WithinLimit'
<1>1. c \notin DOMAIN held /\ DOMAIN held' = DOMAIN held \cup {c}
      /\ held'[c] = [day |-> day, reserved |-> Reserve, settled |-> None]
      /\ \A d \in DOMAIN held : held'[d] = held[d]
  BY DEF Booked, Drawn
<1> SUFFICES ASSUME NEW d \in 0 .. MaxDay
             PROVE  DayTotal(d)' > Limit => \E e \in OfDay(d)' : Charged(e)' > held'[e].reserved
  BY DEF WithinLimit
<1>2. CASE d # day
  <2>1. OfDay(d)' = OfDay(d)
    BY <1>1, <1>2 DEF OfDay
  <2>2. \A e \in OfDay(d) : held'[e] = held[e]
    BY <1>1 DEF OfDay
  <2> QED BY <2>1, <2>2, SameDay
<1>3. CASE d = day
  <2>1. OfDay(d)' = OfDay(d) \cup {c} /\ c \notin OfDay(d)
    BY <1>1, <1>3 DEF OfDay
  <2>2. \A e \in OfDay(d) : Charges'[e] = Charges[e]
    BY <1>1 DEF OfDay, Charges, Charged
  <2>3. Charges'[c] = Reserve
    BY <1>1 DEF Charges, Charged
  <2>4. \A e \in OfDay(d) \cup {c} : Charges'[e] \in Nat
    BY <2>2, <2>3, DaysAreSums, CallsAssumption
  <2>5. SumFunctionOnSet(Charges', OfDay(d) \cup {c}) = Reserve + SumFunctionOnSet(Charges', OfDay(d))
    BY <2>1, <2>3, <2>4, DaysAreSums, SumWithOne
  <2>6. SumFunctionOnSet(Charges, OfDay(d)) = SumFunctionOnSet(Charges', OfDay(d))
    BY <2>2, DaysAreSums, SumOfSame
  <2>7. SumFunctionOnSet(Charges, OfDay(d)) \in Nat
    BY DaysAreSums, SumInNat
  <2>8. DayTotal(d)' = Reserve + DayTotal(d) /\ DayTotal(d) \in Nat
    BY <2>1, <2>5, <2>6, <2>7 DEF DayTotal
  <2>9. ~ (DayTotal(d)' > Limit)
    BY <1>3, <2>8, CallsAssumption DEF Exhausted
  <2> QED BY <2>9
<1> QED BY <1>2, <1>3

(* A settlement raises the day's sum only by a bill above the reservation. *)
LEMMA SettlingFits ==
  ASSUME TablesOK, TablesOK', WithinLimit,
         NEW c \in DOMAIN held, held[c].settled = None, NEW cost \in Nat,
         held' = [held EXCEPT ![c].settled = cost]
  PROVE  WithinLimit'
<1>1. held[c].reserved = Reserve /\ held[c].day \in 0 .. day
  BY DEF TablesOK
<1>2. DOMAIN held' = DOMAIN held /\ held'[c].settled = cost /\ held'[c].reserved = Reserve /\ held'[c].day = held[c].day
      /\ \A e \in DOMAIN held : e # c => held'[e] = held[e]
  <2>1. held[c] \in [day : 0 .. day, reserved : {Reserve}, settled : Nat \cup {None}]
    BY DEF TablesOK
  <2> QED BY <1>1, <2>1
<1> SUFFICES ASSUME NEW d \in 0 .. MaxDay
             PROVE  DayTotal(d)' > Limit => \E e \in OfDay(d)' : Charged(e)' > held'[e].reserved
  BY DEF WithinLimit
<1>3. OfDay(d)' = OfDay(d)
  BY <1>2 DEF OfDay
<1>4. CASE c \notin OfDay(d)
  <2>1. \A e \in OfDay(d) : held'[e] = held[e]
    BY <1>2, <1>4 DEF OfDay
  <2> QED BY <1>3, <2>1, SameDay
<1>5. CASE c \in OfDay(d)
  <2>1. Charged(c) = Reserve /\ Charged(c)' = cost
    BY <1>1, <1>2, CallsAssumption DEF Charged
  <2>2. \A e \in OfDay(d) \ {c} : Charged(e)' = Charged(e) /\ held'[e].reserved = held[e].reserved
    BY <1>2 DEF OfDay, Charged
  <2>3. Charges[c] = Reserve /\ Charges'[c] = cost /\ \A e \in OfDay(d) \ {c} : Charges[e] = Charges'[e]
    BY <1>2, <2>1, <2>2 DEF OfDay, Charges
  <2>4. \A e \in OfDay(d) : Charges[e] \in Nat /\ Charges'[e] \in Nat
    BY <2>3, DaysAreSums
  <2>5. SumFunctionOnSet(Charges', OfDay(d)) + Charges[c] = SumFunctionOnSet(Charges, OfDay(d)) + Charges'[c]
    BY <1>5, <2>3, <2>4, DaysAreSums, SumWithChange
  <2>6. SumFunctionOnSet(Charges, OfDay(d)) \in Nat /\ SumFunctionOnSet(Charges', OfDay(d)) \in Nat
    BY <2>4, DaysAreSums, SumInNat
  <2>7. DayTotal(d)' + Reserve = DayTotal(d) + cost /\ DayTotal(d) \in Nat /\ DayTotal(d)' \in Nat
    BY <1>3, <2>3, <2>5, <2>6 DEF DayTotal
  <2>8. CASE cost > Reserve
    BY <1>2, <1>3, <1>5, <2>1, <2>8
  <2>9. CASE cost <= Reserve
    <3> SUFFICES ASSUME DayTotal(d)' > Limit
                 PROVE  \E e \in OfDay(d)' : Charged(e)' > held'[e].reserved
      OBVIOUS
    <3>1. DayTotal(d) > Limit
      BY <2>7, <2>9, CallsAssumption
    <3>2. PICK e \in OfDay(d) : Charged(e) > held[e].reserved
      BY <3>1 DEF WithinLimit
    <3>3. e # c
      BY <1>1, <2>1, <3>2, CallsAssumption
    <3> QED BY <1>3, <2>2, <3>2, <3>3
  <2> QED BY <2>8, <2>9, CallsAssumption
<1> QED BY <1>4, <1>5

LEMMA LimitInductive == Inv /\ Inv' /\ WithinLimit /\ [Next]_vars => WithinLimit'
<1> SUFFICES ASSUME Inv, Inv', WithinLimit, [Next]_vars PROVE WithinLimit'
  OBVIOUS
<1> USE DEF Inv
<1>1. CASE UNCHANGED held
  BY <1>1 DEF WithinLimit, DayTotal, OfDay, Charges, Charged
<1>2. ASSUME NEW t \in Thread, Begin(t), held' # held PROVE WithinLimit'
  BY <1>2, BookingFits DEF Begin
<1>3. ASSUME NEW t \in Thread, Settle(t) PROVE WithinLimit'
  <2>1. threads[t] \in Receiving /\ Fits(threads[t], held, calls, files, billed) /\ threads[t].at = "settle"
    BY <1>3 DEF Settle, ThreadsOK, State, Waiting, Inserting, Sending, Receiving
  <2>2. threads[t].call \in DOMAIN held /\ held[threads[t].call].settled = None /\ threads[t].cost \in Nat
    BY <2>1 DEF Receiving, Fits, Unsettled
  <2>3. held' = [held EXCEPT ![threads[t].call].settled = threads[t].cost]
    BY <1>3 DEF Settle
  <2> QED BY <2>2, <2>3, SettlingFits
<1>4. UNCHANGED held \/ \E t \in Thread : (Begin(t) /\ held' # held) \/ Settle(t)
  BY DEF Next, vars, provider, tables, Queue, Ask, Slot, Expire, Prepare, Look, Insert, Post, Unreachable, Reach, Lose,
         Reject, Nonsense, Answer, Finish, Record, WriteFile, Midnight, Crash
<1> QED BY <1>1, <1>2, <1>3, <1>4

LEMMA LimitInitially == Init => WithinLimit
<1> SUFFICES ASSUME Init, NEW d \in 0 .. MaxDay PROVE ~ (DayTotal(d) > Limit)
  BY DEF WithinLimit
<1>1. OfDay(d) = {}
  BY DEF Init, OfDay
<1>2. DayTotal(d) = 0
  BY <1>1, FS_EmptySet, SumUnfolds DEF DayTotal
<1> QED BY <1>2, CallsAssumption

(* Every reachable state of the tables and threads is well typed, for every *)
(* number of threads, requests, calls, locks and prices (ApiText, DailyBudget). *)
THEOREM CallTypes == Spec => []TypeOK
BY Invariant, InvGivesTypes, PTL

(* A call whose outcome was not recorded is never sent again: not by another *)
(* thread, nor after any crash (providers.py:131-135).                      *)
THEOREM NoResend == Spec => NeverResent
<1>1. Inv /\ [Next]_vars =>
        [\A c \in sent' \ sent : \A d \in CallsOf(calls[c].request) \ {c} : calls[d].status # "usage_not_received"]_vars
  BY SendsAlone
<1> QED BY <1>1, Invariant, PTL DEF Spec, NeverResent

(* An answer in the cache is not paid for again (providers.py:73-74).       *)
THEOREM CachedOnce == Spec => AnsweredOnce
<1>1. Inv /\ [Next]_vars => [\A c \in sent' \ sent : calls[c].request \notin files]_vars
  BY SendsAlone
<1> QED BY <1>1, Invariant, PTL DEF Spec, AnsweredOnce

(* No crash, loss, refusal or settlement frees budget that a provider's bill *)
(* may have used, up to the reservation (providers.py:157, budget.py:84-97). *)
THEOREM NothingFreed == Spec => []BillsAreCharged
BY Invariant, PTL DEF Inv

(* A day is charged more than its limit only when a provider billed more    *)
(* than the worst case that was reserved, for every limit, any number of    *)
(* calls, and over crashes and midnights (budget.py:66-97).                 *)
THEOREM DayWithinLimit == Spec => []WithinLimit
<1>1. Init => Inv /\ WithinLimit
  BY Initially, LimitInitially
<1>2. Inv /\ WithinLimit /\ [Next]_vars => (Inv /\ WithinLimit)'
  BY Inductive, LimitInductive
<1> QED BY <1>1, <1>2, PTL DEF Spec
=============================================================================
