-------------------------------- MODULE GpuPod ---------------------------------
(***************************************************************************)
(* The rented GPU (gpu.py, RunPodGpu) and its watchdog (watchdog.py).      *)
(* Two threads of the validator, the worker and the budget guard, change   *)
(* one dictionary without a lock and write it through to gpu.json; a       *)
(* process of its own reads that file and may stop the pod.  A request to  *)
(* the provider may be refused, or lost with or without its effect.  Money *)
(* and time are abstracted: that the day's cap is reached, that a pod is   *)
(* idle or past its start-up deadline, are facts that come true some time. *)
(***************************************************************************)
EXTENDS Integers, FiniteSets

CONSTANTS
  Pod, None,
  Volume,       \* a network volume is configured
  MaxFailures, MaxCrashes, MaxMidnights   \* bounds

ASSUME PodAssumption ==
  /\ None \notin Pod
  /\ Volume \in BOOLEAN
  /\ {MaxFailures, MaxCrashes, MaxMidnights} \subseteq Nat

VARIABLES
  pods,       \* the provider: what each pod is doing
  state,      \* RunPodGpu.state and gpu.json: pod, running_since, network volume
  offer,      \* a pod the provider has just created, not in state yet
  orphans,    \* pods whose creation was lost before state named them
  old,        \* created_unix lies further back than ready_timeout_s
  capped,     \* spend_today() has reached the cap
  latch,      \* gpu-watchdog-stop.json exists
  alive,      \* the validator: runs, its heartbeat stands still, is down
  worker,     \* where the worker is
  guard,      \* where the budget guard is
  watchdog,   \* where the watchdog is, and the pod it read
  failures, crashes, midnights      \* bounds

provider == <<pods, orphans>>
process == <<alive, crashes, midnights>>
vars == <<provider, state, offer, old, capped, latch, worker, guard, watchdog, failures, process>>

Empty == [pod |-> None, clock |-> FALSE, volume |-> FALSE]
Resting == [at |-> "idle", pod |-> None]

Init ==
  /\ pods = [p \in Pod |-> "absent"]
  /\ orphans = {}
  /\ state = Empty /\ offer = None
  /\ old = FALSE /\ capped = FALSE /\ latch = FALSE
  /\ alive = "yes"
  /\ worker = "idle" /\ guard = "idle" /\ watchdog = Resting
  /\ failures = 0 /\ crashes = 0 /\ midnights = 0

-----------------------------------------------------------------------------
(* A request about a pod: it has its effect and is answered, or it fails,  *)
(* and then nobody knows.                                                  *)

Status(p) == IF p = None THEN "absent" ELSE pods[p]
Known(p) == Status(p) # "absent"

Answered(effect) == pods' = effect /\ UNCHANGED failures
Failed(effect) ==
  /\ failures < MaxFailures
  /\ failures' = failures + 1
  /\ pods' \in {pods, effect}

(* About a pod the provider does not know, or state no longer names. *)
Refused(p) == ~ Known(p) /\ UNCHANGED <<pods, failures>>

Stopped(p) == IF Status(p) = "running" THEN [pods EXCEPT ![p] = "stopped"] ELSE pods
Started(p) == IF Status(p) = "stopped" THEN [pods EXCEPT ![p] = "running"] ELSE pods
Gone(p) == IF Known(p) THEN [pods EXCEPT ![p] = "absent"] ELSE pods

-----------------------------------------------------------------------------
(* stop_if_idle, enforce_budget: the two threads share these steps. *)

Running == alive # "no"
At(t) == IF t = "worker" THEN worker ELSE guard
Go(t, at) ==
  IF t = "worker" THEN worker' = at /\ UNCHANGED guard ELSE guard' = at /\ UNCHANGED worker

CapReached == state.clock /\ state.pod # None /\ capped

(* POST stop; for a pod without a price the clock never ran. *)
PostStop(t) ==
  /\ Running /\ At(t) \in {"stop", "unpriced"}
  /\ \/ /\ Known(state.pod)
        /\ Answered(Stopped(state.pod))
        /\ Go(t, IF At(t) = "stop" THEN "clock" ELSE "idle")
     \/ (Refused(state.pod) \/ Failed(Stopped(state.pod))) /\ Go(t, "idle")
  /\ UNCHANGED <<orphans, state, offer, old, capped, latch, watchdog, process>>

(* A failed stop keeps the clock; only an answered one settles it. *)
StopClock(t) ==
  /\ Running /\ At(t) = "clock"
  /\ state' = [state EXCEPT !.clock = FALSE]
  /\ Go(t, "idle")
  /\ UNCHANGED <<provider, offer, old, capped, latch, watchdog, failures, process>>

Guard ==
  /\ Running /\ guard = "idle"
  /\ CapReached
  /\ guard' = "stop"
  /\ UNCHANGED <<provider, state, offer, old, capped, latch, worker, watchdog, failures, process>>

(* The worker's steps that only move it. *)
Becomes(at) ==
  /\ worker' = at
  /\ UNCHANGED <<provider, state, offer, old, capped, latch, guard, watchdog, failures, process>>

(* With nothing to do the worker stops what has been idle for long; a       *)
(* fallback pod away from the volume is deleted.                            *)
StopIfIdle ==
  /\ Running /\ worker = "idle" /\ state.clock
  /\ Becomes(IF Volume /\ ~ state.volume /\ ~ CapReached THEN "delete" ELSE "stop")

-----------------------------------------------------------------------------
(* ensure, discard. *)

(* A job needs the GPU; under the latch, or at the cap, it is put off. *)
Ensure ==
  /\ Running /\ worker = "idle" /\ ~ latch
  /\ Becomes(CASE CapReached               -> "stop"
               [] capped /\ ~ CapReached   -> "idle"
               [] ~ capped /\ state.pod = None -> "create"
               [] OTHER                    -> "get")

(* A forgotten pod leaves its clock as it was. *)
Forgotten == [state EXCEPT !.pod = None, !.volume = FALSE]

Get ==
  /\ Running /\ worker = "get"
  /\ \/ /\ Known(state.pod)
        /\ worker' = (IF Status(state.pod) = "running" THEN "ready" ELSE "start")
        /\ UNCHANGED <<pods, failures, state>>
     \/ Refused(state.pod) /\ state' = Forgotten /\ worker' = "create"
     \/ Failed(pods) /\ worker' = "idle" /\ UNCHANGED state
  /\ UNCHANGED <<orphans, offer, old, capped, latch, guard, watchdog, process>>

(* A pod that cannot be started is replaced: its host may be full; but not *)
(* one of whose start there is no answer at all, an error of the transport. *)
PostStart ==
  /\ Running /\ worker = "start"
  /\ \/ Known(state.pod) /\ Answered(Started(state.pod)) /\ worker' = "ready"
     \/ Known(state.pod) /\ Answered(pods) /\ worker' = "replace"
     \/ Refused(state.pod) /\ worker' = "replace"
     \/ Failed(Started(state.pod)) /\ worker' \in {"replace", "idle"}
  /\ UNCHANGED <<orphans, state, offer, old, capped, latch, guard, watchdog, process>>

(* Mistaken variant: the pod is forgotten before the provider has confirmed. *)
UnconfirmedForgotten == state' = Empty

(* What a DELETE that failed does to state. *)
Unconfirmed == UNCHANGED state

(* DELETE, then the clock is settled and the pod forgotten. *)
Delete ==
  /\ Running /\ worker \in {"delete", "replace"}
  /\ \/ /\ Known(state.pod)
        /\ Answered(Gone(state.pod)) /\ state' = Empty
        /\ worker' = (IF worker = "replace" THEN "create" ELSE "idle")
     \/ (Refused(state.pod) \/ Failed(Gone(state.pod))) /\ Unconfirmed /\ worker' = "idle"
  /\ UNCHANGED <<orphans, offer, old, capped, latch, guard, watchdog, process>>

(* POST /pods: a pod; no room anywhere; or a pod nobody hears of, and then  *)
(* an exception, or an error that reads as "no room" and the next placement. *)
Create ==
  /\ Running /\ worker = "create"
  /\ \/ \E p \in Pod :
          /\ pods[p] = "absent"
          /\ pods' = [pods EXCEPT ![p] = "running"]
          /\ \/ worker' = "record" /\ offer' = p /\ UNCHANGED <<orphans, failures>>
             \/ /\ failures < MaxFailures /\ failures' = failures + 1
                /\ worker' \in {"create", "idle"}
                /\ orphans' = orphans \cup {p} /\ UNCHANGED offer
     \/ worker' = "idle" /\ UNCHANGED <<provider, offer, failures>>
  /\ UNCHANGED <<state, old, capped, latch, guard, watchdog, process>>

Record ==
  /\ Running /\ worker = "record"
  /\ \E v \in {FALSE, Volume} : state' = [state EXCEPT !.pod = offer, !.volume = v]
  /\ offer' = None /\ old' = FALSE
  /\ worker' = "ready"
  /\ UNCHANGED <<provider, capped, latch, guard, watchdog, failures, process>>

(* The loop of ensure: latch, GET, and the first sight of the pod running   *)
(* starts its clock, once its price is known.                               *)
Ready ==
  /\ Running /\ worker = "ready"
  /\ \/ latch /\ worker' = "idle" /\ UNCHANGED <<pods, failures, state>>
     \/ /\ ~ latch /\ Status(state.pod) = "running"
        /\ \/ worker' = "check" /\ state' = [state EXCEPT !.clock = TRUE]
              /\ UNCHANGED failures
           \/ /\ ~ state.clock /\ worker' = "unpriced" /\ UNCHANGED state
              /\ failures < MaxFailures /\ failures' = failures + 1
        /\ UNCHANGED pods
     \/ ~ latch /\ (Refused(state.pod) \/ Failed(pods)) /\ worker' = "idle" /\ UNCHANGED state
  /\ UNCHANGED <<orphans, offer, old, capped, latch, guard, watchdog, process>>

(* enforce_budget, then the host is tried. *)
Check ==
  /\ Running /\ worker = "check"
  /\ \/ CapReached /\ Becomes("stop")
     \/ capped /\ ~ CapReached /\ Becomes("idle")
     \/ ~ capped /\ Becomes("busy")
     \/ ~ capped /\ Becomes("ready")

(* ready_timeout_s has passed. *)
NotReady == Running /\ worker = "ready" /\ Becomes("idle")

(* The job ends; a GPU it found broken is discarded. *)
EndJob ==
  /\ Running /\ worker = "busy"
  /\ \/ Becomes("idle")
     \/ state.pod # None /\ Becomes("delete")

-----------------------------------------------------------------------------
(* watchdog.inspect with --stop, again and again. *)

(* Mistaken variants: no start-up deadline, no heartbeat. *)
ReasonWithoutDeadline == alive # "yes" \/ (state.clock /\ capped)
ReasonWithoutHeartbeat == IF state.clock THEN capped ELSE old

Reason == alive # "yes" \/ IF state.clock THEN capped ELSE old

Look ==
  /\ watchdog.at = "idle"
  /\ state.pod # None /\ Reason
  /\ watchdog' = [at |-> "latch", pod |-> state.pod]
  /\ UNCHANGED <<provider, state, offer, old, capped, latch, worker, guard, failures, process>>

(* The latch is written before the provider is asked. *)
Latch ==
  /\ watchdog.at = "latch"
  /\ latch' = TRUE
  /\ watchdog' = [watchdog EXCEPT !.at = "get"]
  /\ UNCHANGED <<provider, state, offer, old, capped, worker, guard, failures, process>>

Inspect ==
  /\ watchdog.at = "get"
  /\ \/ Status(watchdog.pod) = "running" /\ watchdog' = [watchdog EXCEPT !.at = "stop"]
        /\ UNCHANGED <<pods, failures>>
     \/ Status(watchdog.pod) = "stopped" /\ watchdog' = Resting /\ UNCHANGED <<pods, failures>>
     \/ (Refused(watchdog.pod) \/ Failed(pods)) /\ watchdog' = Resting
  /\ UNCHANGED <<orphans, state, offer, old, capped, latch, worker, guard, process>>

(* The answer is noted in the latch file. *)
Stop ==
  /\ watchdog.at = "stop"
  /\ \/ /\ Known(watchdog.pod)
        /\ Answered(Stopped(watchdog.pod)) /\ latch' = TRUE
     \/ (Refused(watchdog.pod) \/ Failed(Stopped(watchdog.pod))) /\ UNCHANGED latch
  /\ watchdog' = Resting
  /\ UNCHANGED <<orphans, state, offer, old, capped, worker, guard, process>>

-----------------------------------------------------------------------------
(* What happens around them. *)

Tick(c, o, d) ==
  /\ capped' = c /\ old' = o /\ midnights' = d
  /\ UNCHANGED <<provider, state, offer, latch, alive, worker, guard, watchdog, failures, crashes>>

(* Spending grows only while the clock runs; a day has a cap to itself. *)
Spend == state.clock /\ ~ capped /\ midnights < MaxMidnights /\ Tick(TRUE, old, midnights)
Midnight == capped /\ Tick(FALSE, old, midnights + 1)
Age == state.pod # None /\ ~ old /\ Tick(capped, TRUE, midnights)

(* Somebody else stops or deletes the pod. *)
Outside ==
  /\ failures < MaxFailures /\ failures' = failures + 1
  /\ Known(state.pod)
  /\ pods' \in {Stopped(state.pod), Gone(state.pod)}
  /\ UNCHANGED <<orphans, state, offer, old, capped, latch, worker, guard, watchdog, process>>

(* The chain thread hangs and no longer beats, or recovers. *)
Hang ==
  /\ \/ alive = "yes" /\ alive' = "hung" /\ crashes < MaxCrashes /\ crashes' = crashes + 1
     \/ alive = "hung" /\ alive' = "yes" /\ UNCHANGED crashes
  /\ UNCHANGED <<provider, state, offer, old, capped, latch, worker, guard, watchdog, failures, midnights>>

Crash ==
  /\ Running /\ crashes < MaxCrashes
  /\ alive' = "no" /\ crashes' = crashes + 1
  /\ worker' = "idle" /\ guard' = "idle"
  /\ offer' = None
  /\ orphans' = orphans \cup ({offer} \ {None})
  /\ UNCHANGED <<pods, state, old, capped, latch, watchdog, failures, midnights>>

Restart ==
  /\ alive = "no" /\ alive' = "yes"
  /\ UNCHANGED <<provider, state, offer, old, capped, latch, worker, guard, watchdog, failures, crashes, midnights>>

(* With the validator down and the pod not running the operator settles the *)
(* accounts and clears the latch.                                           *)
Reconcile ==
  /\ latch /\ alive = "no" /\ Status(state.pod) # "running"
  /\ latch' = FALSE
  /\ state' = [state EXCEPT !.clock = FALSE]
  /\ UNCHANGED <<provider, offer, old, capped, worker, guard, watchdog, failures, process>>

Steps ==
  \/ PostStop("worker") \/ StopClock("worker")
  \/ Get \/ PostStart \/ Delete \/ Create \/ Record \/ Ready \/ Check \/ EndJob
Guarding == Guard \/ PostStop("guard") \/ StopClock("guard")
Watching == Look \/ Latch \/ Inspect \/ Stop
World == Spend \/ Midnight \/ Age \/ Outside \/ Hang \/ Crash \/ Restart \/ Reconcile

Next == Ensure \/ StopIfIdle \/ NotReady \/ Steps \/ Guarding \/ Watching \/ World

(* Both threads loop for ever, as does the watchdog, which is supervised;   *)
(* deadlines pass, and a job does not last for ever.  Nothing else is owed: *)
(* no job need arrive, nobody need restart or reconcile anything.           *)
Spec == Init /\ [][Next]_vars
FairSpec ==
  /\ Spec
  /\ WF_vars(Steps) /\ WF_vars(NotReady) /\ WF_vars(StopIfIdle)
  /\ WF_vars(Guarding) /\ WF_vars(Watching) /\ WF_vars(Age)

-----------------------------------------------------------------------------
(* Properties. *)

(* Types; what state says of a pod is said of one it names.                 *)
TypeOK ==
  /\ pods \in [Pod -> {"absent", "running", "stopped"}]
  /\ state \in [pod : Pod \cup {None}, clock : BOOLEAN, volume : BOOLEAN]
  /\ state.pod = None => ~ state.volume
  /\ offer \in Pod \cup {None} /\ (offer # None <=> worker = "record")
  /\ orphans \subseteq Pod
  /\ old \in BOOLEAN /\ capped \in BOOLEAN /\ latch \in BOOLEAN
  /\ alive \in {"yes", "hung", "no"}
  /\ worker \in {"idle", "stop", "clock", "unpriced", "get", "start", "replace", "delete",
                 "create", "record", "ready", "check", "busy"}
  /\ guard \in {"idle", "stop", "clock"}
  /\ watchdog \in [at : {"idle", "latch", "get", "stop"}, pod : Pod \cup {None}]

(* One pod at a time: nothing is rented but the pod that state names, the   *)
(* one being written down, and pods whose creation was lost.                *)
OnePod == \A p \in Pod : pods[p] # "absent" => p \in {state.pod, offer} \cup orphans

Quiet == Status(state.pod) # "running"

(* "Stop owned running compute at its cap even when the queue is nonempty": *)
(* jobs may arrive for ever, stops may fail, the validator may die or hang, *)
(* the guard may settle a clock another thread needs.                       *)
CapStops == capped ~> (~ capped \/ Quiet)

(* "Failed requests remain visible and retryable": once the watchdog has    *)
(* latched, or the validator is down, the pod stops; a start that was past  *)
(* the latch already does not keep it running.                              *)
LatchStops == (latch \/ alive = "no") ~> ((alive = "yes" /\ ~ latch) \/ Quiet)

(* "A pod started when work arrives and stopped after idle_stop_s without   *)
(* jobs" (gpu.py:9): a pod that was stopped because it was idle is no case  *)
(* for the watchdog, whose latch would keep the next job from starting it.  *)
WorkStartsPod == [][ Look /\ ~ latch => Status(state.pod) # "stopped" ]_vars
=============================================================================
