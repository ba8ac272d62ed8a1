-------------------------- MODULE Acquisition_proofs --------------------------
(***************************************************************************)
(* Proofs about Acquisition: the two downloaders of a model never meet,    *)
(* the download quota of an admission is kept, and the part file holds a   *)
(* prefix of the model, for any budget, chunks, connections and history.   *)
(***************************************************************************)
EXTENDS Acquisition, SequenceTheorems, TLAPS

Place == {"off", "wait", "check", "renew", "enter", "get", "ready", "failed"}

PlacesOK ==
  /\ at \in [Downloader -> Place] /\ held \in BOOLEAN
  /\ at["prefetch"] # "wait" /\ at["attempt"] \notin {"ready", "failed"}

(* Who works on the model is alone: an attempt that is past its wait has   *)
(* no living prefetch beside it, and nothing living is let go of.          *)
Apart ==
  /\ PlacesOK
  /\ ~ held => ~ Alive
  /\ at["attempt"] \in {"check", "renew", "enter", "get"} => ~ Alive

Busy == {"check", "renew", "enter", "get"}

-----------------------------------------------------------------------------
(* A step of one downloader that stays alive, or ends. *)
LEMMA Endings ==
  ASSUME Apart, NEW d \in Downloader, NEW error, Ends(d, error), UNCHANGED held, at[d] \in Busy
  PROVE  Apart'
<1>1. CASE d = "attempt"
  <2>1. at' = [at EXCEPT !["attempt"] = "off"]
    BY <1>1 DEF Ends, Defer
  <2> QED BY <2>1 DEF Apart, PlacesOK, Alive, Downloader, Place
<1>2. CASE d = "prefetch"
  <2>1. at' = [at EXCEPT !["prefetch"] = "failed"]
    BY <1>2 DEF Ends
  <2> QED BY <2>1 DEF Apart, PlacesOK, Alive, Downloader, Place
<1> QED BY <1>1, <1>2 DEF Downloader

LEMMA Advances ==
  ASSUME Apart, NEW d \in Downloader, NEW to \in Busy, UNCHANGED held, at[d] \in Busy, at' = [at EXCEPT ![d] = to]
  PROVE  Apart'
BY DEF Apart, PlacesOK, Alive, Downloader, Place, Busy

LEMMA ApartSteps ==
  ASSUME Apart, [Next]_vars
  PROVE  Apart'
<1>1. CASE StartPrefetch
  <2>1. CASE UNCHANGED <<at, held>>
    BY <2>1 DEF Apart, PlacesOK, Alive
  <2>2. CASE at' = [at EXCEPT !["prefetch"] = "check"] /\ held' = TRUE
    <3>1. at["attempt"] = "off"
      BY <1>1 DEF StartPrefetch
    <3> QED BY <2>2, <3>1 DEF Apart, PlacesOK, Alive, Downloader, Place
  <2> QED BY <1>1, <2>1, <2>2 DEF StartPrefetch
<1>2. CASE Dispatch
  <2>1. CASE Finished /\ Dropped("check")
    BY <2>1 DEF Dropped, Finished, Apart, PlacesOK, Alive, Downloader, Place
  <2>2. CASE at' = [at EXCEPT !["attempt"] = IF held THEN "wait" ELSE "check"] /\ UNCHANGED held
    BY <2>2 DEF Apart, PlacesOK, Alive, Downloader, Place
  <2> QED BY <1>2, <2>1, <2>2 DEF Dispatch
<1>3. CASE Wait
  <2>0. UNCHANGED held /\ at["attempt"] = "wait"
    BY <1>3 DEF Wait
  <2>1. CASE at["prefetch"] = "ready" /\ at' = [at EXCEPT !["attempt"] = "check"]
    BY <2>0, <2>1 DEF Apart, PlacesOK, Alive, Downloader, Place
  <2>2. CASE at' = [at EXCEPT !["attempt"] = "off"]
    BY <2>0, <2>2 DEF Apart, PlacesOK, Alive, Downloader, Place
  <2> QED BY <1>3, <2>1, <2>2 DEF Wait, Defer
<1>4. ASSUME NEW d \in Downloader, Check(d)
      PROVE  Apart'
  <2>1. at[d] = "check" /\ at[d] \in Busy /\ "renew" \in Busy
    BY <1>4 DEF Check, Busy
  <2>2. CASE \E error \in {"remote", "local"} : Ends(d, error) /\ UNCHANGED held
    BY <2>1, <2>2, Endings
  <2>3. CASE d = "attempt" /\ Dropped("renew")
    BY <2>1, <2>3 DEF Dropped, Apart, PlacesOK, Alive, Downloader, Place
  <2>4. CASE at' = [at EXCEPT ![d] = "renew"] /\ UNCHANGED held
    BY <2>1, <2>4, Advances
  <2> QED BY <1>4, <2>2, <2>3, <2>4 DEF Check
<1>5. ASSUME NEW d \in Downloader, Renew(d)
      PROVE  Apart'
  <2>1. at[d] \in Busy /\ "enter" \in Busy /\ UNCHANGED held
    BY <1>5 DEF Renew, Busy
  <2> QED BY <1>5, <2>1, Endings, Advances DEF Renew
<1>6. ASSUME NEW d \in Downloader, Enter(d)
      PROVE  Apart'
  <2>1. at[d] \in Busy /\ "get" \in Busy /\ UNCHANGED held
    BY <1>6 DEF Enter, Busy
  <2> QED BY <1>6, <2>1, Endings, Advances DEF Enter
<1>7. ASSUME NEW d \in Downloader, Abandon(d)
      PROVE  Apart'
  <2>1. at[d] \in Busy /\ UNCHANGED held
    BY <1>7 DEF Abandon, Busy
  <2> QED BY <1>7, <2>1, Endings DEF Abandon
<1>8. ASSUME NEW d \in Downloader, Verify(d)
      PROVE  Apart'
  <2>1. at[d] = "get" /\ at[d] \in Busy /\ UNCHANGED held
    BY <1>8 DEF Verify, Busy
  <2>2. CASE Ends(d, "remote")
    BY <2>1, <2>2, Endings
  <2>3. CASE at' = [at EXCEPT ![d] = IF d = "prefetch" THEN "ready" ELSE "off"]
    BY <2>1, <2>3 DEF Apart, PlacesOK, Alive, Downloader, Place
  <2> QED BY <1>8, <2>2, <2>3 DEF Verify
<1>9. CASE Reply \/ Append1 \/ Tick \/ NextWindow \/ UNCHANGED vars
  <2>1. UNCHANGED <<at, held>>
    BY <1>9 DEF Reply, Append1, Tick, NextWindow, vars, threads
  <2> QED BY <2>1 DEF Apart, PlacesOK, Alive
<1>10. CASE Crash
  BY <1>10 DEF Crash, Apart, PlacesOK, Alive, Downloader, Place
<1> QED BY <1>1, <1>2, <1>3, <1>4, <1>5, <1>6, <1>7, <1>8, <1>9, <1>10 DEF Next

LEMMA ApartInitially == Init => Apart
BY DEF Init, Apart, PlacesOK, Alive, Downloader, Place

(* Two downloaders never meet at the budget lock, whatever is stopped,     *)
(* kept, dropped or crashed.                                               *)
THEOREM DownloadersApart == Spec => []OneDownloader
<1>1. Apart /\ [Next]_vars => Apart'
  BY ApartSteps
<1>2. Apart => OneDownloader
  BY DEF Apart, OneDownloader
<1> QED BY <1>1, <1>2, ApartInitially, PTL DEF Spec

-----------------------------------------------------------------------------
(* The download time that one admission may still take. *)
Left == (Budget - record.charged) + (lease.reserved - lease.spent)

(* What was taken and what may still be taken is never more than a budget  *)
(* for the admission in the record and one for each before it.             *)
Ceiling == total + Left <= Budget * (1 + record.block)

LeaseOK ==
  IF lease.by = "none" THEN lease.used = 0 /\ lease.reserved = 0 /\ lease.spent = 0
  ELSE lease.used + lease.reserved = Budget /\ record.charged = Budget

Accounts ==
  /\ total \in Nat /\ block \in Nat
  /\ at \in [Downloader -> Place]
  /\ entry \in [Downloader -> [window : Nat, block : Nat]] /\ window \in Nat
  /\ record \in [charged : 0 .. Budget, block : Nat]
  /\ lease \in [by : Downloader \cup {"none"}, used : Nat, reserved : Nat, spent : Nat]
  /\ record.block <= block /\ (\A d \in Downloader : entry[d].block <= block)
  /\ \A d \in Downloader : at[d] = "get" => lease.by = d
  /\ lease.spent <= lease.reserved
  /\ LeaseOK /\ Ceiling

LEMMA MoreAdmissions ==
  ASSUME NEW b \in Nat, NEW m \in Nat, NEW n \in Nat, m < n
  PROVE  b * (1 + m) + b <= b * (1 + n)
<1>1. PICK k \in Nat : n = m + 1 + k
  BY n - m - 1 \in Nat
<1>2. b * (1 + n) = b * (1 + m) + b + b * k
  BY <1>1
<1>3. b * k \in Nat /\ b * (1 + m) \in Nat
  OBVIOUS
<1> QED BY <1>2, <1>3

(* Nobody gets the lock, and nothing of the accounts changes. *)
LEMMA AccountsKept ==
  ASSUME Accounts, UNCHANGED <<record, lease, total>>, at' \in [Downloader -> Place],
         \A d \in Downloader : at'[d] = "get" => at[d] = "get",
         entry' \in [Downloader -> [window : Nat, block : Nat]], window' \in Nat,
         block' \in Nat, block <= block', \A d \in Downloader : entry'[d].block <= block'
  PROVE  Accounts'
BY DEF Accounts, LeaseOK, Ceiling, Left

(* The holder gives back what it did not spend. *)
LEMMA AccountsClosed ==
  ASSUME AcquisitionAssumption, Accounts, NEW d \in Downloader, at[d] = "get", Exit, UNCHANGED <<total, entry, window, block>>,
         at' \in [Downloader -> Place], \A e \in Downloader : at'[e] = "get" => at[e] = "get" /\ e # d
  PROVE  Accounts'
<1>1. lease.by = d /\ d # "none"
  BY DEF Accounts, Downloader
<1>2. lease.used + lease.reserved = Budget /\ lease.spent <= lease.reserved /\ record.charged = Budget
  BY <1>1 DEF Accounts, LeaseOK
<1>3. record' = [charged |-> lease.used + lease.spent, block |-> record.block] /\ lease' = NoLease
  BY DEF Exit
<1>4. \A e \in Downloader : at'[e] # "get"
  BY <1>1 DEF Accounts
<1>5. Budget \in Nat /\ record'.charged \in 0 .. Budget /\ record' \in [charged : 0 .. Budget, block : Nat] /\ record'.block = record.block
  BY <1>2, <1>3 DEF Accounts, AcquisitionAssumption
<1>6. LeaseOK' /\ lease' \in [by : Downloader \cup {"none"}, used : Nat, reserved : Nat, spent : Nat] /\ lease'.spent <= lease'.reserved
  BY <1>3 DEF LeaseOK, NoLease
<1>7. Left' = Left
  BY <1>2, <1>3, <1>5 DEF Left, NoLease, Accounts
<1>8. Ceiling'
  BY <1>5, <1>7 DEF Ceiling, Accounts
<1> QED BY <1>4, <1>5, <1>6, <1>8 DEF Accounts

(* Where a step of one downloader leaves both. *)
LEMMA EndsPlaces ==
  ASSUME Apart, Accounts, NEW d \in Downloader, NEW error, Ends(d, error)
  PROVE  /\ at' \in [Downloader -> Place]
         /\ \A e \in Downloader : at'[e] = "get" => at[e] = "get" /\ e # d
<1>1. \E p \in {"off", "failed"} : at' = [at EXCEPT ![d] = p]
  BY DEF Ends, Defer
<1> QED BY <1>1 DEF Accounts, Place

LEMMA AccountsSteps ==
  ASSUME AcquisitionAssumption, Apart, Accounts, [Next]_vars
  PROVE  Accounts'
<1>0. at \in [Downloader -> Place] /\ entry \in [Downloader -> [window : Nat, block : Nat]] /\ window \in Nat /\ block \in Nat
      /\ \A d \in Downloader : entry[d].block <= block
  BY DEF Accounts
<1>1. CASE StartPrefetch
  <2>1. UNCHANGED <<record, lease, total, window, block>>
    BY <1>1 DEF StartPrefetch, queued, download
  <2>2. CASE UNCHANGED <<at, entry>>
    BY <1>0, <2>1, <2>2, AccountsKept
  <2>3. CASE /\ at' = [at EXCEPT !["prefetch"] = "check"]
             /\ entry' = [entry EXCEPT !["prefetch"] = [window |-> window, block |-> block]]
    <3>1. at' \in [Downloader -> Place] /\ \A d \in Downloader : at'[d] = "get" => at[d] = "get"
      BY <1>0, <2>3 DEF Place, Downloader
    <3>2. entry' \in [Downloader -> [window : Nat, block : Nat]] /\ \A d \in Downloader : entry'[d].block <= block
      BY <1>0, <2>3 DEF Downloader
    <3> QED BY <1>0, <2>1, <3>1, <3>2, AccountsKept
  <2> QED BY <1>1, <2>2, <2>3 DEF StartPrefetch
<1>2. CASE Dispatch
  <2>1. UNCHANGED <<record, lease, total, window, block>>
    BY <1>2 DEF Dispatch, queued, download
  <2>2. entry' = [entry EXCEPT !["attempt"] = [window |-> window, block |-> block]]
    BY <1>2 DEF Dispatch
  <2>3. at' \in [Downloader -> Place] /\ \A d \in Downloader : at'[d] = "get" => at[d] = "get"
    <3>1. CASE Dropped("check")
      BY <1>0, <3>1 DEF Dropped, Downloader, Place
    <3>2. CASE at' = [at EXCEPT !["attempt"] = IF held THEN "wait" ELSE "check"]
      BY <1>0, <3>2 DEF Downloader, Place
    <3> QED BY <1>2, <3>1, <3>2 DEF Dispatch
  <2>4. entry' \in [Downloader -> [window : Nat, block : Nat]] /\ \A d \in Downloader : entry'[d].block <= block
    BY <1>0, <2>2 DEF Downloader
  <2> QED BY <1>0, <2>1, <2>3, <2>4, AccountsKept
<1>3. CASE Wait
  <2>1. UNCHANGED <<record, lease, total, window, block, entry>>
    BY <1>3 DEF Wait, download
  <2>2. \E p \in {"check", "off"} : at' = [at EXCEPT !["attempt"] = p]
    BY <1>3 DEF Wait, Defer
  <2>3. at' \in [Downloader -> Place] /\ \A d \in Downloader : at'[d] = "get" => at[d] = "get"
    BY <1>0, <2>2 DEF Downloader, Place
  <2> QED BY <1>0, <2>1, <2>3, AccountsKept
<1>4. ASSUME NEW d \in Downloader, Check(d)
      PROVE  Accounts'
  <2>1. UNCHANGED <<record, lease, total, window, block, entry>>
    BY <1>4 DEF Check, download
  <2>2. at' \in [Downloader -> Place] /\ \A e \in Downloader : at'[e] = "get" => at[e] = "get"
    <3>1. CASE \E error \in {"remote", "local"} : Ends(d, error)
      BY <3>1, EndsPlaces
    <3>2. CASE Dropped("renew")
      BY <1>0, <3>2 DEF Dropped, Downloader, Place
    <3>3. CASE at' = [at EXCEPT ![d] = "renew"]
      BY <1>0, <3>3 DEF Downloader, Place
    <3> QED BY <1>4, <3>1, <3>2, <3>3 DEF Check
  <2> QED BY <1>0, <2>1, <2>2, AccountsKept
<1>5. ASSUME NEW d \in Downloader, Renew(d)
      PROVE  Accounts'
  <2>1. UNCHANGED <<lease, total, window, block, entry>>
    BY <1>5 DEF Renew
  <2>2. CASE Ends(d, "local") /\ UNCHANGED record
    BY <1>0, <2>1, <2>2, EndsPlaces, AccountsKept
  <2>3. CASE /\ entry[d].block = 0 \/ lease.by = "none"
             /\ record' = IF Renews(entry[d].block) THEN [charged |-> 0, block |-> entry[d].block] ELSE record
             /\ at' = [at EXCEPT ![d] = "enter"]
    <3>1. at' \in [Downloader -> Place] /\ \A e \in Downloader : at'[e] = "get" => at[e] = "get"
      BY <1>0, <2>3 DEF Downloader, Place
    <3>2. CASE UNCHANGED record
      BY <1>0, <2>1, <3>1, <3>2, AccountsKept
    <3>3. CASE Renews(entry[d].block) /\ record' = [charged |-> 0, block |-> entry[d].block]
      <4>1. Budget \in Nat /\ entry[d].block \in Nat /\ record.block \in Nat /\ record.block < entry[d].block
        BY <1>0, <3>3 DEF Accounts, Renews, AcquisitionAssumption
      <4>2. lease.by = "none"
        BY <2>3, <4>1
      <4>3. lease.reserved = 0 /\ lease.spent = 0 /\ total \in Nat /\ record.charged \in 0 .. Budget
        BY <4>2 DEF Accounts, LeaseOK
      <4>4. total <= Budget * (1 + record.block)
        <5>1. total + Left <= Budget * (1 + record.block)
          BY DEF Accounts, Ceiling
        <5>2. Left \in Nat
          BY <4>1, <4>3 DEF Left
        <5>3. Budget * (1 + record.block) \in Nat
          BY <4>1
        <5> QED BY <4>3, <5>1, <5>2, <5>3
      <4>5. Budget * (1 + record.block) + Budget <= Budget * (1 + entry[d].block)
        BY <4>1, MoreAdmissions
      <4>6. Left' = Budget /\ record'.block = entry[d].block
        BY <2>1, <3>3, <4>1, <4>3 DEF Left
      <4>7. Budget * (1 + record.block) \in Nat /\ Budget * (1 + entry[d].block) \in Nat
        BY <4>1
      <4>8. total + Budget <= Budget * (1 + entry[d].block)
        BY <4>1, <4>3, <4>4, <4>5, <4>7
      <4>9. Ceiling'
        BY <2>1, <4>6, <4>8 DEF Ceiling
      <4>10. LeaseOK'
        BY <2>1, <4>2 DEF LeaseOK, Accounts
      <4>11. record' \in [charged : 0 .. Budget, block : Nat] /\ record'.block <= block
        BY <1>0, <3>3, <4>1
      <4> QED BY <1>0, <2>1, <3>1, <4>9, <4>10, <4>11 DEF Accounts
    <3> QED BY <2>3, <3>2, <3>3
  <2> QED BY <1>0, <1>5, <2>2, <2>3 DEF Renew
<1>6. ASSUME NEW d \in Downloader, Enter(d)
      PROVE  Accounts'
  <2>1. UNCHANGED <<total, window, block, entry>>
    BY <1>6 DEF Enter
  <2>2. CASE \E error \in {"local", "budget"} : Ends(d, error) /\ UNCHANGED <<record, lease>>
    BY <1>0, <2>1, <2>2, EndsPlaces, AccountsKept
  <2>3. CASE /\ lease.by = "none" /\ ~ record.charged >= Budget
             /\ lease' = [by |-> d, used |-> record.charged, reserved |-> Budget - record.charged, spent |-> 0]
             /\ record' = [charged |-> Budget, block |-> record.block]
             /\ at' = [at EXCEPT ![d] = "get"]
    <3>1. \A e \in Downloader : at[e] # "get"
      BY <2>3 DEF Accounts, Downloader
    <3>2. at' \in [Downloader -> Place] /\ \A e \in Downloader : at'[e] = "get" => e = d
      BY <1>0, <2>3, <3>1 DEF Place
    <3>3. Budget \in Nat /\ record.charged \in Nat /\ Budget - record.charged \in Nat
      BY <2>3 DEF Accounts, AcquisitionAssumption
    <3>4. lease' \in [by : Downloader \cup {"none"}, used : Nat, reserved : Nat, spent : Nat]
      BY <2>3, <3>3
    <3>5. record' \in [charged : 0 .. Budget, block : Nat] /\ record'.block = record.block
      BY <2>3, <3>3 DEF Accounts
    <3>6. LeaseOK' /\ lease'.spent <= lease'.reserved /\ lease'.by = d
      BY <2>3, <3>3 DEF LeaseOK, Downloader
    <3>7. Left' = Left
      BY <2>3, <3>3 DEF Left, LeaseOK, Accounts
    <3>8. Ceiling'
      BY <2>1, <3>5, <3>7 DEF Ceiling, Accounts
    <3> QED BY <1>0, <2>1, <3>2, <3>4, <3>5, <3>6, <3>8 DEF Accounts
  <2> QED BY <1>6, <2>2, <2>3 DEF Enter
<1>7. ASSUME NEW d \in Downloader, Abandon(d)
      PROVE  Accounts'
  <2>1. at[d] = "get" /\ Exit /\ UNCHANGED <<total, entry, window, block>>
    BY <1>7 DEF Abandon
  <2>2. Ends(d, "budget") \/ Ends(d, "remote") \/ Ends(d, "local")
    BY <1>7 DEF Abandon
  <2> QED BY <2>1, <2>2, EndsPlaces, AccountsClosed
<1>8. ASSUME NEW d \in Downloader, Verify(d)
      PROVE  Accounts'
  <2>1. at[d] = "get" /\ Exit /\ UNCHANGED <<total, entry, window, block>>
    BY <1>8 DEF Verify
  <2>2. CASE Ends(d, "remote")
    BY <2>1, <2>2, EndsPlaces, AccountsClosed
  <2>3. CASE at' = [at EXCEPT ![d] = IF d = "prefetch" THEN "ready" ELSE "off"]
    <3>1. at' \in [Downloader -> Place] /\ \A e \in Downloader : at'[e] = "get" => at[e] = "get" /\ e # d
      BY <1>0, <2>3 DEF Place
    <3> QED BY <2>1, <3>1, AccountsClosed
  <2> QED BY <1>8, <2>2, <2>3 DEF Verify
<1>9. CASE Reply \/ Append1 \/ UNCHANGED vars
  <2>1. UNCHANGED <<at, record, lease, total, window, block, entry>>
    BY <1>9 DEF Reply, Append1, vars, threads, queued, download
  <2> QED BY <1>0, <2>1, AccountsKept
<1>10. CASE NextWindow
  <2>1. UNCHANGED <<at, record, lease, total, entry>> /\ window' = window + 1
    BY <1>10 DEF NextWindow, threads, download
  <2>2. block' \in Nat /\ block <= block'
    BY <1>0, <1>10 DEF NextWindow
  <2>3. \A d \in Downloader : entry[d].block <= block'
    BY <1>0, <2>2
  <2> QED BY <1>0, <2>1, <2>2, <2>3, AccountsKept
<1>11. CASE Tick
  <2>1. /\ UNCHANGED <<at, record, window, block, entry>> /\ total' = total + 1
        /\ lease' = [by |-> lease.by, used |-> lease.used, reserved |-> lease.reserved, spent |-> lease.spent + 1]
        /\ lease.by # "none" /\ lease.spent < lease.reserved
    BY <1>11 DEF Tick, threads, queued
  <2>2. lease' \in [by : Downloader \cup {"none"}, used : Nat, reserved : Nat, spent : Nat] /\ lease'.by = lease.by /\ lease'.spent <= lease'.reserved
    BY <2>1 DEF Accounts
  <2>3. LeaseOK'
    BY <2>1 DEF LeaseOK, Accounts
  <2>4. total' + Left' = total + Left
    <3>1. {Budget, record.charged, lease.reserved, lease.spent, total} \subseteq Int
      BY DEF Accounts, AcquisitionAssumption
    <3>2. record' = record /\ lease'.reserved = lease.reserved /\ lease'.spent = lease.spent + 1
      BY <2>1
    <3> QED BY <2>1, <3>1, <3>2 DEF Left
  <2>5. Ceiling'
    BY <2>1, <2>4 DEF Ceiling, Accounts
  <2> QED BY <1>0, <2>1, <2>2, <2>3, <2>5 DEF Accounts
<1>12. CASE Crash
  <2>1. lease' = NoLease /\ at' = [d \in Downloader |-> "off"] /\ UNCHANGED <<record, total, window, block, entry>>
    BY <1>12 DEF Crash, queued
  <2>2. lease' \in [by : Downloader \cup {"none"}, used : Nat, reserved : Nat, spent : Nat] /\ LeaseOK' /\ lease'.spent <= lease'.reserved
    BY <2>1 DEF LeaseOK, NoLease
  <2>3. at' \in [Downloader -> Place] /\ \A d \in Downloader : at'[d] # "get"
    BY <2>1 DEF Place
  <2>4. Ceiling'
    <3>1. Left \in Int /\ Left' \in Int /\ Left' <= Left
      BY <2>1 DEF Left, NoLease, Accounts, AcquisitionAssumption
    <3>2. Budget * (1 + record.block) \in Int /\ total + Left <= Budget * (1 + record.block)
      BY DEF Accounts, Ceiling, AcquisitionAssumption
    <3>3. total + Left' <= Budget * (1 + record.block)
      BY <3>1, <3>2 DEF Accounts
    <3> QED BY <2>1, <3>3 DEF Ceiling
  <2> QED BY <1>0, <2>1, <2>2, <2>3, <2>4 DEF Accounts
<1> QED BY <1>1, <1>2, <1>3, <1>4, <1>5, <1>6, <1>7, <1>8, <1>9, <1>10, <1>11, <1>12 DEF Next

LEMMA AccountsInitially == AcquisitionAssumption /\ Init => Accounts
<1> SUFFICES ASSUME AcquisitionAssumption, Init PROVE Accounts
  OBVIOUS
<1>1. Budget \in Nat /\ lease = NoLease /\ record = [charged |-> 0, block |-> 0] /\ total = 0 /\ block = 0 /\ window = 0
  BY DEF Init, AcquisitionAssumption
<1>2. Ceiling /\ LeaseOK /\ lease.spent <= lease.reserved
  BY <1>1 DEF Ceiling, LeaseOK, Left, NoLease
<1>3. /\ at \in [Downloader -> Place] /\ \A d \in Downloader : at[d] # "get"
      /\ entry \in [Downloader -> [window : Nat, block : Nat]] /\ \A d \in Downloader : entry[d].block <= block
  BY <1>1 DEF Init, Place
<1> QED BY <1>1, <1>2, <1>3 DEF Accounts, NoLease

(* The accounts bound what was taken by one budget for each admission. *)
LEMMA AccountsBound == AcquisitionAssumption /\ Accounts => QuotaPerAdmission
<1> SUFFICES ASSUME AcquisitionAssumption, Accounts PROVE total <= Budget * (1 + block)
  BY DEF QuotaPerAdmission
<1>1. Budget \in Nat /\ record.block \in Nat /\ block \in Nat /\ record.block <= block /\ total \in Nat
  BY DEF Accounts, AcquisitionAssumption
<1>2. Left \in Nat
  BY <1>1 DEF Accounts, Left
<1>3. total <= Budget * (1 + record.block)
  BY <1>1, <1>2 DEF Accounts, Ceiling
<1>4. Budget * (1 + record.block) <= Budget * (1 + block)
  <2>1. CASE record.block = block
    BY <1>1, <2>1
  <2>2. CASE record.block < block
    BY <1>1, <2>2, MoreAdmissions
  <2> QED BY <1>1, <2>1, <2>2
<1> QED BY <1>1, <1>3, <1>4

(* However often the process dies with budget reserved, a model takes no   *)
(* more download time than one budget for each admission of its hotkey.    *)
THEOREM QuotaKept ==
  ASSUME AcquisitionAssumption
  PROVE  Spec => []QuotaPerAdmission
<1>1. Apart /\ Accounts /\ [Next]_vars => Apart' /\ Accounts'
  BY ApartSteps, AccountsSteps
<1>2. Init => Apart /\ Accounts
  BY ApartInitially, AccountsInitially
<1>3. Accounts => QuotaPerAdmission
  BY AccountsBound
<1> QED BY <1>1, <1>2, <1>3, PTL DEF Spec

-----------------------------------------------------------------------------
(* The requests in flight are for the chunks that follow the part file. *)
Request == [chunk : Nat, reply : {"none", "body", "failed"}]

Requests(q, offset) ==
  /\ q \in Seq(Request)
  /\ \A j \in 1 .. Len(q) : q[j].chunk = offset + j

PartOK ==
  /\ part \in Seq(Nat) /\ \A j \in 1 .. Len(part) : part[j] = j
  /\ Requests(queue, Len(part))

LEMMA FunctionAsSeq ==
  ASSUME NEW S, NEW n \in Nat, NEW f \in [1 .. n -> S]
  PROVE  f \in Seq(S) /\ Len(f) = n
<1>1. f \in Seq(S)
  BY SeqDef
<1>2. DOMAIN f = 1 .. n /\ DOMAIN f = 1 .. Len(f) /\ Len(f) \in Nat
  BY <1>1, LenProperties
<1> QED BY <1>1, <1>2

LEMMA FilledRequests ==
  ASSUME AcquisitionAssumption, NEW q, NEW offset \in Nat, Requests(q, offset)
  PROVE  Requests(Filled(q, offset), offset)
<1> DEFINE Last == IF offset + Connections < Chunks THEN offset + Connections ELSE Chunks
           New == Last - offset - Len(q)
           More == [ i \in 1 .. New |-> [chunk |-> offset + Len(q) + i, reply |-> "none"] ]
<1>1. Last \in Int /\ Len(q) \in Nat /\ New \in Int
  BY DEF AcquisitionAssumption, Requests
<1>2. CASE New < 0
  <2>1. More = <<>>
    BY <1>1, <1>2
  <2>2. Filled(q, offset) = q \o More
    BY DEF Filled
  <2> HIDE DEF More
  <2>3. Filled(q, offset) = q
    BY <2>1, <2>2, ConcatEmptySeq DEF Requests
  <2> QED BY <2>3
<1>3. CASE New >= 0
  <2>1. New \in Nat
    BY <1>1, <1>3
  <2>2. \A i \in 1 .. New : offset + Len(q) + i \in Nat
    BY <1>1, <2>1
  <2>3. More \in [1 .. New -> Request] /\ \A i \in 1 .. New : More[i].chunk = offset + Len(q) + i
    BY <2>2 DEF Request
  <2>4. Filled(q, offset) = q \o More
    BY DEF Filled
  <2> HIDE DEF More, New
  <2>5. More \in Seq(Request) /\ Len(More) = New
    BY <2>1, <2>3, FunctionAsSeq
  <2>6. q \in Seq(Request)
    BY DEF Requests
  <2>7. /\ q \o More \in Seq(Request) /\ Len(q \o More) = Len(q) + New
        /\ \A i \in 1 .. Len(q) + New : (q \o More)[i] = IF i <= Len(q) THEN q[i] ELSE More[i - Len(q)]
    BY <2>5, <2>6, ConcatProperties
  <2>8. ASSUME NEW i \in 1 .. Len(q) + New
        PROVE  (q \o More)[i].chunk = offset + i
    <3>1. CASE i <= Len(q)
      BY <1>1, <2>7, <3>1 DEF Requests
    <3>2. CASE ~ i <= Len(q)
      <4>1. i - Len(q) \in 1 .. New
        BY <1>1, <2>1, <3>2
      <4> QED BY <1>1, <2>1, <2>3, <2>7, <3>2, <4>1
    <3> QED BY <3>1, <3>2
  <2> QED BY <2>4, <2>7, <2>8 DEF Requests
<1> QED BY <1>1, <1>2, <1>3

LEMMA PartSteps ==
  ASSUME AcquisitionAssumption, PartOK, [Next]_vars
  PROVE  PartOK'
<1>0. part \in Seq(Nat) /\ Len(part) \in Nat /\ queue \in Seq(Request) /\ Len(queue) \in Nat
  BY DEF PartOK, Requests
<1>1. ASSUME queue' = <<>>, part' = part \/ part' = <<>>
      PROVE  PartOK'
  <2>1. part' \in Seq(Nat) /\ \A j \in 1 .. Len(part') : part'[j] = j
    <3>1. CASE part' = <<>>
      BY <3>1, EmptySeq
    <3> QED BY <1>1, <3>1 DEF PartOK
  <2>2. Requests(<<>>, Len(part'))
    BY EmptySeq DEF Requests
  <2> QED BY <1>1, <2>1, <2>2 DEF PartOK
<1>2. ASSUME NEW d \in Downloader, Enter(d)
      PROVE  PartOK'
  <2>1. CASE UNCHANGED <<queue, part>>
    BY <2>1 DEF PartOK, Requests
  <2>2. CASE queue' = Filled(<<>>, Len(part)) /\ part' = part
    <3>1. Requests(<<>>, Len(part))
      BY DEF Requests
    <3>2. Requests(queue', Len(part'))
      BY <1>0, <2>2, <3>1, FilledRequests
    <3> QED BY <2>2, <3>2 DEF PartOK
  <2> QED BY <1>2, <2>1, <2>2 DEF Enter
<1>3. ASSUME NEW d \in Downloader, Abandon(d) \/ Verify(d)
      PROVE  PartOK'
  BY <1>1, <1>3 DEF Abandon, Verify, Exit
<1>4. CASE Reply
  <2>1. PICK i \in DOMAIN queue, reply \in {"body", "failed"} :
          queue' = [queue EXCEPT ![i] = [chunk |-> queue[i].chunk, reply |-> reply]]
    BY <1>4 DEF Reply
  <2>2. part' = part
    BY <1>4 DEF Reply
  <2> DEFINE answered == [chunk |-> queue[i].chunk, reply |-> reply]
  <2>3. i \in 1 .. Len(queue) /\ queue[i] \in Request
    BY <1>0, LenProperties, ElementOfSeq
  <2>4. answered \in Request /\ answered.chunk = queue[i].chunk
    BY <2>3 DEF Request
  <2> HIDE DEF answered
  <2>5. queue' = [queue EXCEPT ![i] = answered]
    BY <2>1 DEF answered
  <2>6. /\ queue' \in Seq(Request) /\ Len(queue') = Len(queue)
        /\ \A j \in 1 .. Len(queue) : queue'[j] = IF j = i THEN answered ELSE queue[j]
    BY <1>0, <2>3, <2>4, <2>5, ExceptSeq
  <2>7. \A j \in 1 .. Len(queue) : queue'[j].chunk = queue[j].chunk
    BY <2>4, <2>6
  <2> QED BY <2>2, <2>6, <2>7 DEF PartOK, Requests
<1>5. CASE Append1
  <2> DEFINE Tail1 == [ j \in 1 .. Len(queue) - 1 |-> queue[j + 1] ]
  <2>1. 1 \in DOMAIN queue /\ part' = Append(part, queue[1].chunk) /\ queue' = Filled(Tail1, Len(part) + 1)
    <3>1. PICK i \in NextChunk :
            /\ part' = Append(part, queue[i].chunk)
            /\ queue' = Filled([ j \in 1 .. Len(queue) - 1 |-> queue[IF j < i THEN j ELSE j + 1] ], Len(part) + 1)
      BY <1>5 DEF Append1
    <3>2. i = 1 /\ 1 \in DOMAIN queue
      BY DEF NextChunk
    <3>3. \A j \in 1 .. Len(queue) - 1 : (IF j < i THEN j ELSE j + 1) = j + 1
      BY <1>0, <3>2
    <3>4. [ j \in 1 .. Len(queue) - 1 |-> queue[IF j < i THEN j ELSE j + 1] ] = Tail1
      BY <3>3
    <3> QED BY <3>1, <3>2, <3>4
  <2>2. queue[1].chunk = Len(part) + 1
    <3>1. 1 \in 1 .. Len(queue)
      BY <1>0, <2>1, LenProperties
    <3> QED BY <3>1 DEF PartOK, Requests
  <2>3. part' \in Seq(Nat) /\ Len(part') = Len(part) + 1 /\ \A j \in 1 .. Len(part') : part'[j] = j
    <3>1. part' = Append(part, Len(part) + 1) /\ Len(part) + 1 \in Nat
      BY <1>0, <2>1, <2>2
    <3>2. part' \in Seq(Nat) /\ Len(part') = Len(part) + 1
      BY <1>0, <3>1, AppendProperties
    <3>3. \A j \in 1 .. Len(part) : part'[j] = part[j]
      BY <1>0, <3>1, AppendProperties
    <3>4. part'[Len(part) + 1] = Len(part) + 1
      BY <1>0, <3>1, AppendProperties
    <3> QED BY <1>0, <3>2, <3>3, <3>4 DEF PartOK
  <2>4. Requests(Tail1, Len(part) + 1)
    <3>1. Len(queue) - 1 \in Nat
      BY <1>0, <2>1
    <3>2. Tail1 \in Seq(Request) /\ Len(Tail1) = Len(queue) - 1
      <4>1. \A j \in 1 .. Len(queue) - 1 : j + 1 \in 1 .. Len(queue)
        BY <1>0
      <4>2. \A j \in 1 .. Len(queue) : queue[j] \in Request
        BY <1>0, ElementOfSeq
      <4>3. Tail1 \in [1 .. Len(queue) - 1 -> Request]
        BY <4>1, <4>2
      <4> HIDE DEF Tail1
      <4> QED BY <3>1, <4>3, FunctionAsSeq
    <3>3. \A j \in 1 .. Len(Tail1) : Tail1[j].chunk = Len(part) + 1 + j
      <4> SUFFICES ASSUME NEW j \in 1 .. Len(queue) - 1 PROVE queue[j + 1].chunk = Len(part) + 1 + j
        BY <3>2
      <4>1. j + 1 \in 1 .. Len(queue)
        BY <1>0
      <4> QED BY <1>0, <4>1 DEF PartOK, Requests
    <3> HIDE DEF Tail1
    <3> QED BY <3>2, <3>3 DEF Requests
  <2> HIDE DEF Tail1
  <2>5. Requests(queue', Len(part'))
    BY <1>0, <2>1, <2>3, <2>4, FilledRequests
  <2> QED BY <2>3, <2>5 DEF PartOK
<1>6. CASE Crash
  <2>1. PICK n \in 0 .. Len(part) : part' = part \/ part' = SubSeq(part, 1, n)
    BY <1>6 DEF Crash
  <2>2. queue' = <<>>
    BY <1>6 DEF Crash
  <2>3. part' \in Seq(Nat) /\ \A j \in 1 .. Len(part') : part'[j] = j
    <3>1. CASE part' = SubSeq(part, 1, n)
      <4>1. \A j \in 1 .. n : j \in 1 .. Len(part)
        BY <1>0
      <4>2. part' \in Seq(Nat) /\ Len(part') = n /\ \A j \in 1 .. n : part'[j] = part[j]
        BY <1>0, <3>1, <4>1
      <4> QED BY <4>1, <4>2 DEF PartOK
    <3> QED BY <2>1, <3>1 DEF PartOK
  <2> QED BY <2>2, <2>3 DEF PartOK, Requests
<1>7. CASE UNCHANGED <<queue, part>>
  BY <1>7 DEF PartOK, Requests
<1>8. ASSUME NEW d \in Downloader, Check(d) \/ Renew(d)
      PROVE  UNCHANGED <<queue, part>>
  BY <1>8 DEF Check, Renew, download
<1>9. CASE StartPrefetch \/ Dispatch \/ Wait \/ Tick \/ NextWindow \/ UNCHANGED vars
  <2>1. UNCHANGED <<queue, part>>
    BY <1>9 DEF StartPrefetch, Dispatch, Wait, Tick, NextWindow, vars, download
  <2> QED BY <1>7, <2>1
<1> QED BY <1>2, <1>3, <1>4, <1>5, <1>6, <1>7, <1>8, <1>9 DEF Next

(* Over failed requests, restarts and lost tails, the part file holds the  *)
(* first chunks of the model in order.                                     *)
THEOREM PartContiguous ==
  ASSUME AcquisitionAssumption
  PROVE  Spec => []PartIsPrefix
<1>1. Init => PartOK
  BY DEF Init, PartOK, Requests
<1>2. PartOK /\ [Next]_vars => PartOK'
  BY PartSteps
<1>3. PartOK => PartIsPrefix
  BY DEF PartOK, PartIsPrefix
<1> QED BY <1>1, <1>2, <1>3, PTL DEF Spec
=============================================================================
