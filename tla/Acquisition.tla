------------------------------ MODULE Acquisition ------------------------------
(***************************************************************************)
(* How one challenger's model reaches the evaluator: the background        *)
(* prefetch while another model is measured, the attempt that measures     *)
(* this one, the download budget they share (download_budget.py), and the  *)
(* part file their chunks are appended to (p2p.py).  The process may die   *)
(* at any step; a readmission of the hotkey grants a new quota once.       *)
(***************************************************************************)
EXTENDS AcquisitionState

queued == <<window, block, admitted>>
threads == <<at, entry, held, slot>>
download == <<record, lease, queue, part, done, total>>
vars == <<queued, threads, download>>

NoSlot == [error |-> "none", stop |-> FALSE, raised |-> 0]
NoLease == [by |-> "none", used |-> 0, reserved |-> 0, spent |-> 0]

Init ==
  /\ window = 0 /\ block = 0 /\ admitted = TRUE
  /\ at = [d \in Downloader |-> "off"]
  /\ entry = [d \in Downloader |-> [window |-> 0, block |-> 0]]
  /\ held = FALSE /\ slot = NoSlot
  /\ record = [charged |-> 0, block |-> 0]
  /\ lease = NoLease /\ queue = <<>> /\ part = <<>> /\ done = FALSE /\ total = 0

-----------------------------------------------------------------------------
(* The kept prefetch (managed_evaluator.py). *)

(* Mistaken variant: a prefetch that was told to stop counts as ended. *)
FinishedOrStopped == at["prefetch"] \in {"ready", "failed"} \/ slot.stop

Finished == at["prefetch"] \in {"ready", "failed"}

(* The prefetch of another window is given up, once it has ended. *)
Outdated == held /\ (entry["prefetch"].window # window \/ ~ admitted)

(* The evaluator lets go of its prefetch. *)
Dropped(attempt) ==
  /\ held' = FALSE /\ slot' = NoSlot
  /\ at' = [ d \in Downloader |->
               IF d = "attempt" THEN attempt ELSE IF Alive THEN at["prefetch"] ELSE "off" ]

(* _start_prefetch while another model is measured: an outdated prefetch   *)
(* is told to stop and must have ended first; one of this window is kept.  *)
StartPrefetch ==
  /\ at["attempt"] = "off"
  /\ \/ /\ Alive /\ Outdated /\ ~ slot.stop
        /\ slot' = [slot EXCEPT !.stop = TRUE]
        /\ UNCHANGED <<at, entry, held>>
     \/ /\ ~ held \/ (Outdated /\ Finished)
        /\ admitted /\ ~ done
        /\ at' = [at EXCEPT !["prefetch"] = "check"]
        /\ entry' = [entry EXCEPT !["prefetch"] = [window |-> window, block |-> block]]
        /\ held' = TRUE /\ slot' = NoSlot
  /\ UNCHANGED <<queued, download>>

(* _attempt_checked of this model: it waits for whatever prefetch there is. *)
Dispatch ==
  /\ at["attempt"] = "off" /\ admitted /\ ~ done
  /\ entry' = [entry EXCEPT !["attempt"] = [window |-> window, block |-> block]]
  /\ IF Outdated /\ Finished
     THEN Dropped("check")
     ELSE /\ at' = [at EXCEPT !["attempt"] = IF held THEN "wait" ELSE "check"]
          /\ slot' = [slot EXCEPT !.stop = @ \/ Outdated]
          /\ UNCHANGED held
  /\ UNCHANGED <<queued, download>>

(* An attempt that fails stops the prefetch; a failure the miner answers   *)
(* for withdraws the model, unless the window has turned.                  *)
Defer(error) ==
  /\ at' = [at EXCEPT !["attempt"] = "off"]
  /\ admitted' = (admitted /\ (error = "local" \/ entry["attempt"].window # window))

Wait ==
  /\ at["attempt"] = "wait"
  /\ \/ at["prefetch"] = "ready" /\ at' = [at EXCEPT !["attempt"] = "check"] /\ UNCHANGED <<admitted, slot>>
     \/ /\ at["prefetch"] = "failed"
        /\ Defer(slot.error)
        /\ slot' = [slot EXCEPT !.raised = IF @ = 2 THEN 2 ELSE @ + 1, !.stop = TRUE]
     \/ Alive /\ Defer("local") /\ slot' = [slot EXCEPT !.stop = TRUE]    \* its deadline, or the window
  /\ UNCHANGED <<window, block, entry, held, download>>

-----------------------------------------------------------------------------
(* Both downloaders: preflight, renewal, budget. *)

Ends(d, error) ==
  IF d = "attempt"
  THEN Defer(error) /\ slot' = [slot EXCEPT !.stop = @ \/ held]
  ELSE /\ at' = [at EXCEPT ![d] = "failed"]
       /\ slot' = [slot EXCEPT !.error = error]
       /\ UNCHANGED admitted

(* The compression check; the attempt then lets go of a finished prefetch. *)
Check(d) ==
  /\ at[d] = "check"
  /\ \/ /\ IF d = "attempt" THEN Dropped("renew") ELSE at' = [at EXCEPT ![d] = "renew"] /\ UNCHANGED <<held, slot>>
        /\ UNCHANGED admitted
     \/ (\E error \in {"remote", "local"} : Ends(d, error)) /\ UNCHANGED held
  /\ UNCHANGED <<window, block, entry, download>>

(* Mistaken variant: the block that was granted already grants again. *)
RenewsAgain(b) == b > 0 /\ b >= record.block

Renews(b) == b > record.block

(* DownloadBudget.renew: needs the lock. *)
Renew(d) ==
  /\ at[d] = "renew"
  /\ IF entry[d].block > 0 /\ lease.by # "none"
     THEN Ends(d, "local") /\ UNCHANGED record
     ELSE /\ record' = IF Renews(entry[d].block) THEN [charged |-> 0, block |-> entry[d].block] ELSE record
          /\ at' = [at EXCEPT ![d] = "enter"]
          /\ UNCHANGED <<admitted, slot>>
  /\ UNCHANGED <<window, block, entry, held, lease, queue, part, done, total>>

(* As many chunks as there are connections are requested ahead. *)
Filled(q, offset) ==
  LET last == IF offset + Connections < Chunks THEN offset + Connections ELSE Chunks
  IN  q \o [ i \in 1 .. last - offset - Len(q) |-> [chunk |-> offset + Len(q) + i, reply |-> "none"] ]

(* All that is left is charged before the first byte. *)
Enter(d) ==
  /\ at[d] = "enter"
  /\ IF lease.by # "none" THEN Ends(d, "local") /\ UNCHANGED <<record, lease, queue>>
     ELSE IF record.charged >= Budget THEN Ends(d, "budget") /\ UNCHANGED <<record, lease, queue>>
     ELSE /\ lease' = [by |-> d, used |-> record.charged, reserved |-> Budget - record.charged, spent |-> 0]
          /\ record' = [charged |-> Budget, block |-> record.block]
          /\ queue' = Filled(<<>>, Len(part))
          /\ at' = [at EXCEPT ![d] = "get"]
          /\ UNCHANGED <<admitted, slot>>
  /\ UNCHANGED <<window, block, entry, held, part, done, total>>

(* What was not spent is given back. *)
Exit ==
  /\ record' = [charged |-> lease.used + lease.spent, block |-> record.block]
  /\ lease' = NoLease /\ queue' = <<>>

-----------------------------------------------------------------------------
(* _download: the chunks. *)

(* The two connections answer in any order. *)
Reply ==
  /\ \E i \in DOMAIN queue, reply \in {"body", "failed"} :
       /\ queue[i].reply = "none"
       /\ queue' = [queue EXCEPT ![i] = [chunk |-> queue[i].chunk, reply |-> reply]]
  /\ UNCHANGED <<queued, threads, record, lease, part, done, total>>

(* Mistaken variant: chunks are appended as they arrive. *)
NextAnswered == { i \in DOMAIN queue : queue[i].reply # "none" }

(* The chunk that is waited for. *)
NextChunk == { i \in DOMAIN queue : i = 1 /\ queue[i].reply # "none" }

Append1 ==
  /\ \E i \in NextChunk :
       /\ queue[i].reply = "body"
       /\ part' = Append(part, queue[i].chunk)
       /\ queue' = Filled([ j \in 1 .. Len(queue) - 1 |-> queue[IF j < i THEN j ELSE j + 1] ], Len(part) + 1)
  /\ UNCHANGED <<queued, threads, record, lease, done, total>>

(* A failed request, a cancellation, or the end of the budget. *)
Abandon(d) ==
  /\ at[d] = "get" /\ Len(part) < Chunks
  /\ \/ lease.spent = lease.reserved /\ Ends(d, "budget")
     \/ lease.spent < lease.reserved /\ (\E i \in NextChunk : queue[i].reply = "failed") /\ Ends(d, "remote")
     \/ /\ lease.spent < lease.reserved
        /\ Ends(d, "local")    \* its deadline, the window, stop
  /\ Exit
  /\ UNCHANGED <<window, block, entry, held, part, done, total>>

(* The digest of the file decides; a wrong file is dropped. *)
Verify(d) ==
  /\ at[d] = "get" /\ Len(part) = Chunks
  /\ \/ done' = TRUE /\ part' = part /\ at' = [at EXCEPT ![d] = IF d = "prefetch" THEN "ready" ELSE "off"]
        /\ UNCHANGED <<admitted, slot>>
     \/ ~ done /\ done' = FALSE /\ part' = <<>> /\ Ends(d, "remote")
  /\ Exit
  /\ UNCHANGED <<window, block, entry, held, total>>

Tick ==
  /\ lease.by # "none" /\ lease.spent < lease.reserved /\ total < MaxTime
  /\ lease' = [by |-> lease.by, used |-> lease.used, reserved |-> lease.reserved, spent |-> lease.spent + 1]
  /\ total' = total + 1
  /\ UNCHANGED <<queued, threads, record, queue, part, done>>

-----------------------------------------------------------------------------
(* The window turns; a withdrawn hotkey may be readmitted for it. *)
NextWindow ==
  /\ window < MaxWindow /\ ~ done
  /\ window' = window + 1
  /\ \/ UNCHANGED <<block, admitted>>
     \/ ~ admitted /\ block' = block + 1 /\ admitted' = TRUE
  /\ UNCHANGED <<threads, download>>

(* The charge stays; buffered bytes of the part may be lost. *)
Crash ==
  /\ \E n \in 0 .. Len(part) : part' = IF done THEN part ELSE SubSeq(part, 1, n)
  /\ at' = [d \in Downloader |-> "off"]
  /\ held' = FALSE /\ slot' = NoSlot /\ lease' = NoLease /\ queue' = <<>>
  /\ UNCHANGED <<queued, entry, record, done, total>>

Next ==
  \/ StartPrefetch \/ Dispatch \/ Wait
  \/ \E d \in Downloader : Check(d) \/ Renew(d) \/ Enter(d) \/ Abandon(d) \/ Verify(d)
  \/ Reply \/ Append1 \/ Tick \/ NextWindow \/ Crash

Spec == Init /\ [][Next]_vars

-----------------------------------------------------------------------------
(* The prefetch result is kept "until that model is dispatched", says      *)
(* _start_prefetch: one prefetch fails at most one attempt.                *)
DispatchedOnce == slot.raised <= 1
=============================================================================
