---------------------------- MODULE GpuPod_proofs -----------------------------
(***************************************************************************)
(* Proofs about GpuPod: types, and that no pod is rented which nobody can  *)
(* name.  The liveness properties stay with the model checker.             *)
(***************************************************************************)
EXTENDS GpuPod, TLAPS

(* A new pod is asked for only when none is named any more. *)
NoneNamed == worker \in {"create", "record"} => state.pod = None

Inv == TypeOK /\ OnePod /\ NoneNamed

(* A request whose answer may be lost makes at most the change it asks for. *)
LEMMA Effects ==
  ASSUME TypeOK, NEW p \in Pod \cup {None}
  PROVE  /\ Stopped(p) \in [Pod -> {"absent", "running", "stopped"}]
         /\ Started(p) \in [Pod -> {"absent", "running", "stopped"}]
         /\ Gone(p) \in [Pod -> {"absent", "running", "stopped"}]
         /\ \A q \in Pod : pods[q] = "absent" =>
              Stopped(p)[q] = "absent" /\ Started(p)[q] = "absent" /\ Gone(p)[q] = "absent"
         /\ p # None => Gone(p)[p] = "absent"
BY PodAssumption DEF TypeOK, Stopped, Started, Gone, Status, Known

LEMMA Initially == Init => Inv
<1> SUFFICES ASSUME Init PROVE Inv
  OBVIOUS
<1>1. state \in [pod : Pod \cup {None}, clock : BOOLEAN, volume : BOOLEAN] /\ state.pod = None /\ ~ state.volume
  BY DEF Init, Empty
<1>2. watchdog \in [at : {"idle", "latch", "get", "stop"}, pod : Pod \cup {None}]
  BY DEF Init, Resting
<1>3. pods \in [Pod -> {"absent", "running", "stopped"}] /\ orphans \subseteq Pod
  BY DEF Init
<1>4. old \in BOOLEAN /\ capped \in BOOLEAN /\ latch \in BOOLEAN
  BY DEF Init
<1>5. TypeOK
  BY <1>1, <1>2, <1>3, <1>4 DEF Init, TypeOK
<1>6. OnePod /\ NoneNamed
  BY DEF Init, OnePod, NoneNamed
<1> QED BY <1>5, <1>6 DEF Inv

(* Steps after which the provider rents nothing it did not rent before,     *)
(* while state keeps its pod and no offer is lost.                          *)
LEMMA NothingNew ==
  ASSUME Inv, TypeOK', UNCHANGED <<offer, orphans>>, state'.pod = state.pod,
         \A q \in Pod : pods[q] = "absent" => pods'[q] = "absent",
         worker' \in {"create", "record"} => worker' = worker \/ state.pod = None
  PROVE  Inv'
BY DEF Inv, OnePod, NoneNamed

LEMMA StoppingSteps ==
  ASSUME Inv, NEW t \in {"worker", "guard"}, PostStop(t) \/ StopClock(t)
  PROVE  Inv'
<1>1. state.pod \in Pod \cup {None} /\ TypeOK
  BY DEF Inv, TypeOK
<1>2. CASE PostStop(t)
  <2>1. pods' \in {pods, Stopped(state.pod)}
    BY <1>2 DEF PostStop, Answered, Failed, Refused
  <2>2. pods' \in [Pod -> {"absent", "running", "stopped"}] /\ \A q \in Pod : pods[q] = "absent" => pods'[q] = "absent"
    BY <2>1, <1>1, Effects DEF TypeOK
  <2>3. TypeOK'
    BY <1>1, <1>2, <2>2 DEF PostStop, Go, At, TypeOK, process
  <2> QED BY <1>2, <2>2, <2>3, NothingNew DEF PostStop, Go, At, process
<1>3. CASE StopClock(t)
  <2> DEFINE T == [pod : Pod \cup {None}, clock : BOOLEAN, volume : BOOLEAN]
  <2>0. state' \in T /\ state'.pod = state.pod /\ state'.volume = state.volume
    <3>1. state \in T /\ state' = [state EXCEPT !.clock = FALSE]
      BY <1>1, <1>3 DEF StopClock, TypeOK
    <3> QED BY <3>1
  <2>1. TypeOK'
    BY <2>0, <1>1, <1>3 DEF StopClock, Go, At, TypeOK, process, provider
  <2> QED BY <1>1, <1>3, <2>1, NothingNew DEF StopClock, Go, At, process, provider, TypeOK
<1> QED BY <1>2, <1>3

LEMMA WatchdogSteps ==
  ASSUME Inv, Watching
  PROVE  Inv'
<1>1. state.pod \in Pod \cup {None} /\ watchdog.pod \in Pod \cup {None} /\ TypeOK
  BY DEF Inv, TypeOK
<1>2. pods' \in {pods, Stopped(watchdog.pod)}
  BY DEF Watching, Look, Latch, Inspect, Stop, Answered, Failed, Refused, provider
<1>3. pods' \in [Pod -> {"absent", "running", "stopped"}] /\ \A q \in Pod : pods[q] = "absent" => pods'[q] = "absent"
  BY <1>1, <1>2, Effects DEF TypeOK
<1>4. TypeOK'
  <2> DEFINE W == [at : {"idle", "latch", "get", "stop"}, pod : Pod \cup {None}]
  <2>1. watchdog' \in W
    <3>1. watchdog \in W
      BY <1>1 DEF TypeOK
    <3> QED BY <1>1, <3>1 DEF Watching, Look, Latch, Inspect, Stop, Resting
  <2>2. latch' \in BOOLEAN
    BY <1>1 DEF Watching, Look, Latch, Inspect, Stop, TypeOK
  <2>3. UNCHANGED <<state, offer, orphans, old, capped, alive, worker, guard>>
    BY DEF Watching, Look, Latch, Inspect, Stop, provider, process
  <2> QED BY <1>1, <1>3, <2>1, <2>2, <2>3 DEF TypeOK
<1> QED BY <1>3, <1>4, NothingNew DEF Watching, Look, Latch, Inspect, Stop, process, provider

Place == {"idle", "stop", "clock", "unpriced", "get", "start", "replace", "delete",
          "create", "record", "ready", "check", "busy"}
PodStatus == {"absent", "running", "stopped"}
StateType == [pod : Pod \cup {None}, clock : BOOLEAN, volume : BOOLEAN]

LEMMA WorkerTypes ==
  ASSUME TypeOK, pods' \in [Pod -> PodStatus], orphans' \subseteq Pod,
         state' \in StateType, state'.pod = None => ~ state'.volume,
         offer' \in Pod \cup {None}, worker' \in Place, offer' # None <=> worker' = "record",
         old' \in BOOLEAN, UNCHANGED <<capped, latch, alive, guard, watchdog>>
  PROVE  TypeOK'
BY DEF TypeOK, Place, PodStatus, StateType

(* The worker's steps that neither create nor name a pod.                   *)
LEMMA PlainSteps ==
  ASSUME Inv, StopIfIdle \/ Ensure \/ PostStart \/ Ready \/ Check \/ NotReady \/ EndJob
  PROVE  Inv'
<1>1. TypeOK /\ state \in StateType /\ state.pod \in Pod \cup {None} /\ offer = None
  BY DEF Inv, TypeOK, StateType, StopIfIdle, Ensure, PostStart, Ready, Check, NotReady, EndJob
<1>2. UNCHANGED <<orphans, offer, old, capped, latch, alive, guard, watchdog>>
  BY DEF StopIfIdle, Ensure, PostStart, Ready, Check, NotReady, EndJob, Becomes, process, provider
<1>3. pods' \in {pods, Started(state.pod)}
  BY DEF StopIfIdle, Ensure, PostStart, Ready, Check, NotReady, EndJob, Becomes, provider, Answered, Failed, Refused
<1>4. pods' \in [Pod -> PodStatus] /\ \A q \in Pod : pods[q] = "absent" => pods'[q] = "absent"
  BY <1>1, <1>3, Effects DEF TypeOK, PodStatus
<1>5. state' \in StateType /\ state'.pod = state.pod /\ state'.volume = state.volume
  BY <1>1 DEF StopIfIdle, Ensure, PostStart, Ready, Check, NotReady, EndJob, Becomes, StateType
<1>6. worker' \in Place \ {"record"} /\ (worker' = "create" => state.pod = None)
  BY DEF StopIfIdle, Ensure, PostStart, Ready, Check, NotReady, EndJob, Becomes, Place
<1>7. TypeOK'
  BY <1>1, <1>2, <1>4, <1>5, <1>6, WorkerTypes DEF TypeOK
<1> QED BY <1>2, <1>4, <1>5, <1>6, <1>7, NothingNew

(* A pod is forgotten only when the provider no longer knows it.            *)
LEMMA ForgettingSteps ==
  ASSUME Inv, Get \/ Delete
  PROVE  Inv'
<1>1. TypeOK /\ state \in StateType /\ state.pod \in Pod \cup {None} /\ offer = None
  BY DEF Inv, TypeOK, StateType, Get, Delete
<1>2. UNCHANGED <<orphans, offer, old, capped, latch, alive, guard, watchdog>>
  BY DEF Get, Delete, process
<1>3. pods' \in {pods, Gone(state.pod)}
  BY DEF Get, Delete, Answered, Failed, Refused
<1>4. pods' \in [Pod -> PodStatus] /\ \A q \in Pod : pods[q] = "absent" => pods'[q] = "absent"
  BY <1>1, <1>3, Effects DEF TypeOK, PodStatus
<1>5. worker' \in Place \ {"record"}
  BY DEF Get, Delete, Place
<1>6. CASE UNCHANGED state /\ worker' # "create"
  <2>1. TypeOK'
    BY <1>1, <1>2, <1>4, <1>5, <1>6, WorkerTypes DEF TypeOK
  <2> QED BY <1>2, <1>4, <1>5, <1>6, <2>1, NothingNew
<1>7. CASE state' \in {Forgotten, Empty} /\ (state.pod # None => pods'[state.pod] = "absent")
  <2>1. state' \in StateType /\ state'.pod = None /\ ~ state'.volume
    <3>1. CASE state' = Forgotten
      BY <1>1, <3>1 DEF Forgotten, StateType
    <3>2. CASE state' = Empty
      BY <3>2 DEF Empty, StateType
    <3> QED BY <1>7, <3>1, <3>2
  <2>2. TypeOK'
    BY <1>1, <1>2, <1>4, <1>5, <2>1, WorkerTypes DEF TypeOK
  <2>3. OnePod'
    BY <1>1, <1>2, <1>4, <1>7, <2>1 DEF Inv, OnePod
  <2> QED BY <2>1, <2>2, <2>3 DEF Inv, NoneNamed
<1>8. CASE Get
  BY <1>6, <1>7, <1>8 DEF Get, Refused, Known, Status
<1>9. CASE Delete
  <2>1. CASE Answered(Gone(state.pod)) /\ state' = Empty
    <3>1. state.pod # None => pods'[state.pod] = "absent"
      BY <1>1, <2>1, Effects DEF Answered
    <3> QED BY <1>7, <2>1, <3>1
  <2>2. CASE Unconfirmed /\ worker' = "idle"
    BY <1>6, <2>2 DEF Unconfirmed
  <2> QED BY <1>9, <2>1, <2>2 DEF Delete
<1> QED BY <1>8, <1>9

LEMMA CreateStep ==
  ASSUME Inv, Create
  PROVE  Inv'
<1>1. TypeOK /\ state \in StateType /\ state.pod = None /\ offer = None
  BY DEF Inv, TypeOK, StateType, Create, NoneNamed
<1>2. UNCHANGED <<state, old, capped, latch, alive, guard, watchdog>>
  BY DEF Create, process
<1>3. CASE worker' = "idle" /\ UNCHANGED <<provider, offer, failures>>
  <2>1. TypeOK'
    BY <1>1, <1>2, <1>3, WorkerTypes DEF TypeOK, Place, PodStatus, provider
  <2> QED BY <1>2, <1>3, <2>1, NothingNew DEF provider
<1>4. ASSUME NEW p \in Pod, pods[p] = "absent", pods' = [pods EXCEPT ![p] = "running"],
             \/ worker' = "record" /\ offer' = p /\ UNCHANGED orphans
             \/ worker' \in {"create", "idle"} /\ orphans' = orphans \cup {p} /\ UNCHANGED offer
      PROVE  Inv'
  <2>1. pods' \in [Pod -> PodStatus] /\ \A q \in Pod \ {p} : pods'[q] = pods[q]
    BY <1>1, <1>4 DEF TypeOK, PodStatus
  <2>2. orphans' \subseteq Pod /\ offer' \in Pod \cup {None} /\ worker' \in Place
        /\ (offer' # None <=> worker' = "record")
    BY <1>1, <1>4, PodAssumption DEF TypeOK, Place
  <2>3. TypeOK'
    BY <1>1, <1>2, <2>1, <2>2, WorkerTypes DEF TypeOK
  <2>4. OnePod'
    BY <1>1, <1>2, <1>4, <2>1 DEF Inv, OnePod
  <2> QED BY <1>1, <1>2, <2>3, <2>4 DEF Inv, NoneNamed
<1> QED BY <1>3, <1>4 DEF Create

LEMMA RecordStep ==
  ASSUME Inv, Record
  PROVE  Inv'
<1>1. TypeOK /\ state \in StateType /\ state.pod = None /\ offer \in Pod
  BY DEF Inv, TypeOK, StateType, Record, NoneNamed
<1>2. UNCHANGED <<pods, orphans, capped, latch, alive, guard, watchdog>> /\ offer' = None /\ old' = FALSE /\ worker' = "ready"
  BY DEF Record, process, provider
<1>3. PICK v \in {FALSE, Volume} : state' = [state EXCEPT !.pod = offer, !.volume = v]
  BY DEF Record
<1>4. state' \in StateType /\ state'.pod = offer /\ offer # None
  BY <1>1, <1>3, PodAssumption DEF StateType
<1>5. TypeOK'
  BY <1>1, <1>2, <1>4, WorkerTypes DEF TypeOK, Place, PodStatus
<1>6. OnePod'
  BY <1>1, <1>2, <1>4 DEF Inv, OnePod
<1> QED BY <1>2, <1>5, <1>6 DEF Inv, NoneNamed

LEMMA GuardStep ==
  ASSUME Inv, Guard
  PROVE  Inv'
<1>1. TypeOK'
  BY DEF Inv, TypeOK, Guard, process, provider
<1> QED BY <1>1, NothingNew DEF Guard, process, provider

LEMMA WorldSteps ==
  ASSUME Inv, World
  PROVE  Inv'
<1>1. TypeOK
  BY DEF Inv
<1>2. CASE Spend \/ Midnight \/ Age \/ Hang \/ Restart
  <2>1. UNCHANGED <<pods, orphans, state, offer, latch, worker, guard, watchdog>>
    BY <1>2 DEF Spend, Midnight, Age, Tick, Hang, Restart, provider
  <2>2. old' \in BOOLEAN /\ capped' \in BOOLEAN /\ alive' \in {"yes", "hung", "no"}
    BY <1>1, <1>2 DEF Spend, Midnight, Age, Tick, Hang, Restart, TypeOK
  <2>3. TypeOK'
    BY <1>1, <2>1, <2>2 DEF TypeOK
  <2> QED BY <2>1, <2>3, NothingNew
<1>3. CASE Outside
  <2>1. state.pod \in Pod \cup {None} /\ pods' \in {Stopped(state.pod), Gone(state.pod)}
    BY <1>1, <1>3 DEF Outside, TypeOK
  <2>2. pods' \in [Pod -> PodStatus] /\ \A q \in Pod : pods[q] = "absent" => pods'[q] = "absent"
    BY <1>1, <2>1, Effects DEF PodStatus
  <2>3. TypeOK'
    BY <1>1, <1>3, <2>2 DEF Outside, TypeOK, PodStatus, process
  <2> QED BY <1>3, <2>2, <2>3, NothingNew DEF Outside
<1>4. CASE Crash
  <2>1. UNCHANGED <<pods, state, old, capped, latch, watchdog>> /\ worker' = "idle" /\ guard' = "idle" /\ offer' = None
        /\ alive' = "no" /\ orphans' = orphans \cup ({offer} \ {None})
    BY <1>4 DEF Crash
  <2>2. orphans' \subseteq Pod
    BY <1>1, <2>1 DEF TypeOK
  <2>3. TypeOK'
    BY <1>1, <2>1, <2>2 DEF TypeOK
  <2>4. OnePod'
    BY <2>1, PodAssumption DEF Inv, OnePod
  <2> QED BY <2>1, <2>3, <2>4 DEF Inv, NoneNamed
<1>5. CASE Reconcile
  <2>1. UNCHANGED <<pods, orphans, offer, old, capped, alive, worker, guard, watchdog>> /\ latch' = FALSE
    BY <1>5 DEF Reconcile, provider, process
  <2>2. state' \in StateType /\ state'.pod = state.pod /\ state'.volume = state.volume
    <3>1. state \in StateType
      BY <1>1 DEF TypeOK, StateType
    <3> QED BY <1>5, <3>1 DEF Reconcile, StateType
  <2>3. TypeOK'
    <3>1. latch' \in BOOLEAN /\ (state'.pod = None => ~ state'.volume)
      BY <1>1, <2>1, <2>2 DEF TypeOK
    <3>2. state' \in [pod : Pod \cup {None}, clock : BOOLEAN, volume : BOOLEAN]
      BY <2>2 DEF StateType
    <3> QED BY <1>1, <2>1, <3>1, <3>2 DEF TypeOK
  <2> QED BY <2>1, <2>2, <2>3, NothingNew
<1> QED BY <1>2, <1>3, <1>4, <1>5 DEF World

LEMMA Inductive == Inv /\ [Next]_vars => Inv'
<1> SUFFICES ASSUME Inv, [Next]_vars PROVE Inv'
  OBVIOUS
<1>1. CASE UNCHANGED vars
  BY <1>1 DEF vars, provider, process, Inv, TypeOK, OnePod, NoneNamed
<1>2. CASE Steps
  BY <1>2, StoppingSteps, ForgettingSteps, PlainSteps, CreateStep, RecordStep DEF Steps
<1>3. CASE Guarding
  BY <1>3, StoppingSteps, GuardStep DEF Guarding
<1> QED BY <1>1, <1>2, <1>3, PlainSteps, WatchdogSteps, WorldSteps DEF Next

LEMMA Invariant == Spec => []Inv
BY Initially, Inductive, PTL DEF Spec

(* gpu.json, the latch and the threads are well typed in every reachable    *)
(* state, for every number of pods, failures, crashes and days.             *)
THEOREM PodTypes == Spec => []TypeOK
BY Invariant, PTL DEF Inv

(* Nothing is rented but the named pod, the one being written down and      *)
(* those whose creation was lost (RunPodGpu._create, _delete, _forget).     *)
THEOREM NoStrayPod == Spec => []OnePod
BY Invariant, PTL DEF Inv
=============================================================================
