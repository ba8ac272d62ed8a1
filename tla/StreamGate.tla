------------------------------ MODULE StreamGate ------------------------------
(***************************************************************************)
(* One challenger measured on the clips of a window:                       *)
(* Evaluator._stream_evaluate over PodRunner, _run_job and the supervisor  *)
(* on the GPU.  The supervisor answers clip after clip into an output      *)
(* file, a watcher thread keeps each answer and hands it to a pool of      *)
(* judges, and before the first clip past the gate the supervisor waits    *)
(* for a file that says whether to go on.  Clips are numbered in the order *)
(* of the draw, so that a number of grades is a prefix of the draw.        *)
(***************************************************************************)
EXTENDS GateState, FiniteSets, Sequences, FiniteSetsExt

GateAssumption ==
  /\ {Clips, PerVideo, Gate, MaxAttempts} \subseteq Nat \ {0}
  /\ Clips % PerVideo = 0 /\ Gate % PerVideo = 0 /\ Gate < Clips

Clip == 1 .. Clips

files == <<kept, progress, score, attempts>>
memory == <<worker, graded, judge, watcher>>
vars == <<files, memory, job, clock>>

Resting == [at |-> "idle", first |-> 0, gated |-> FALSE, look |-> "none", error |-> "none"]
NoJob == [ at |-> "off", tasks |-> <<>>, pause |-> 0, rows |-> 0, ran |-> 0, code |-> 0,
           cancel |-> FALSE, continue |-> "none" ]

NoWatch == [at |-> "off", seen |-> 0]
Unjudged == [c \in Clip |-> "none"]

Init ==
  /\ kept = {} /\ progress = 0 /\ score = "none" /\ attempts = 0
  /\ worker = Resting /\ graded = 0 /\ judge = Unjudged /\ watcher = NoWatch
  /\ job = NoJob /\ clock = "open"

Cancelled == clock # "open"

(* The attempt is over, with or without an error: what was in memory goes. *)
Over ==
  /\ worker' = Resting /\ graded' = 0 /\ judge' = Unjudged /\ watcher' = NoWatch
  /\ job' = NoJob /\ clock' = "open"

-----------------------------------------------------------------------------
(* The evaluation thread, up to the job. *)

(* Without a score, or to turn an early stop into a full measurement. *)
Begin ==
  /\ worker.at = "idle" /\ score # "full" /\ attempts < MaxAttempts
  /\ attempts' = attempts + 1
  /\ graded' = progress
  /\ worker' = [Resting EXCEPT !.at = "cached", !.first = progress,
                               !.gated = score = "none" /\ progress < Gate]
  /\ UNCHANGED <<kept, progress, score, judge, watcher, job, clock>>

(* drain takes the grades in draw order up to the first that is missing,   *)
(* and saves them at complete videos.                                      *)
Drained(pool) == Max({ k \in graded .. Clips : \A c \in graded + 1 .. k : pool[c] = "graded" })
Saved(k) == Max({progress, k - (k % PerVideo)})
Graded(pool, k) == judge' = pool /\ graded' = k /\ progress' = Saved(k)
Drain(pool) == Graded(pool, Drained(pool))

(* The grade drain meets next: nothing, at work, or an exception. *)
NextGrade(pool) == IF Drained(pool) = Clips THEN "none" ELSE pool[Drained(pool) + 1]

(* Where a drain that waits for the judges may meet the cancellation. *)
Undrained == { k \in graded .. Drained(judge) : k < Clips /\ judge[k + 1] # "none" }
Stopped == Cancelled /\ Undrained # {}

(* completed, of the evaluator: the answer goes to the pool of judges. *)
Handed(c) ==
  IF Cancelled THEN UNCHANGED <<judge, graded, progress>> ELSE Drain([judge EXCEPT ![c] = "judging"])
Refused(c) == Cancelled \/ NextGrade([judge EXCEPT ![c] = "judging"]) = "failed"

(* Mistaken variant: every ungraded clip is asked again. *)
RequestedAgain == worker.first + 1 .. Clips

(* The clips of a set in the order of the draw. *)
InOrder(clips) ==
  LET place == [ c \in clips |-> Cardinality({ d \in clips : d <= c }) ]
  IN  [ i \in 1 .. Cardinality(clips) |-> CHOOSE c \in clips : place[c] = i ]

Wanted == worker.first + 1 .. Clips
Requested == Wanted \ kept

(* Mistaken variant: answers that are kept already count for the pause. *)
PauseOfFresh == IF worker.gated THEN Gate - worker.first ELSE 0

(* Fresh rows to the gate; 0: no pause. *)
Pause ==
  IF worker.gated THEN Gate - worker.first - Cardinality(kept \cap (worker.first + 1 .. Gate)) ELSE 0

(* Answers kept by earlier attempts come first, in draw order. *)
DeliverCached ==
  /\ worker.at = "cached"
  /\ \E c \in Wanted \cap kept :
       /\ judge[c] = "none" /\ \A d \in Wanted \cap kept : judge[d] = "none" => c <= d
       /\ Handed(c)
       /\ worker' = IF Refused(c) THEN [worker EXCEPT !.at = "fail", !.error = "refused"] ELSE worker
  /\ UNCHANGED <<kept, score, attempts, watcher, job, clock>>

(* No clip is left to ask: only the judges are waited for. *)
StartJob ==
  /\ worker.at = "cached" /\ \A c \in Wanted \cap kept : judge[c] # "none"
  /\ IF Cancelled THEN worker' = [worker EXCEPT !.at = "fail", !.error = "cancelled"] /\ UNCHANGED <<job, watcher>>
     ELSE IF Requested = {} THEN worker' = [worker EXCEPT !.at = "drain"] /\ UNCHANGED <<job, watcher>>
     ELSE /\ worker' = [worker EXCEPT !.at = "run"]
          /\ job' = [NoJob EXCEPT !.at = "run", !.tasks = InOrder(Requested), !.pause = Pause]
          /\ watcher' = [at |-> "poll", seen |-> 0]
  /\ UNCHANGED <<files, graded, judge, clock>>

-----------------------------------------------------------------------------
(* _run_job: rows are delivered by the watcher while the job runs, and by  *)
(* the evaluation thread once the watcher has ended.                       *)

(* Nothing is delivered after an error; one of the watcher asks the        *)
(* supervisor to stop, if it can.                                          *)
Raises(error) ==
  /\ watcher' = [watcher EXCEPT !.at = "off"]
  /\ IF worker.at = "rest"
     THEN worker' = [worker EXCEPT !.at = "fail", !.error = error] /\ UNCHANGED job
     ELSE /\ worker' = [worker EXCEPT !.error = error]
          /\ \E touched \in BOOLEAN : job' = [job EXCEPT !.cancel = @ \/ touched]

(* The answer is kept before it is judged. *)
Deliver ==
  /\ watcher.at = "poll" /\ watcher.seen < job.rows
  /\ LET c == job.tasks[watcher.seen + 1]
     IN  /\ kept' = kept \cup {c}
         /\ Handed(c)
         /\ IF Refused(c) THEN Raises("refused")
            ELSE /\ watcher' = [ at |-> IF watcher.seen + 1 = job.pause THEN "look" ELSE "poll",
                                 seen |-> watcher.seen + 1 ]
                 /\ UNCHANGED <<worker, job>>
  /\ UNCHANGED <<score, attempts, clock>>

(* continuation: all judges of the prefix are waited for, then the look. *)
Look ==
  /\ watcher.at = "look"
  /\ \/ /\ Stopped
        /\ \E k \in Undrained : Graded(judge, k)
        /\ Raises("refused")
     \/ /\ ~ Stopped /\ NextGrade(judge) # "judging"
        /\ Drain(judge)
        /\ CASE NextGrade(judge) = "failed" -> Raises("refused")
             [] NextGrade(judge) = "none" /\ graded' # Gate -> Raises("early_stop_prefix_incomplete")
             [] OTHER -> /\ \E look \in {"go", "stop"} : worker' = [worker EXCEPT !.look = look]
                         /\ watcher' = [watcher EXCEPT !.at = "answer"]
                         /\ UNCHANGED job
  /\ UNCHANGED <<kept, score, attempts, clock>>

Answer ==
  /\ watcher.at = "answer"
  /\ \/ /\ job' = [job EXCEPT !.continue = worker.look]
        /\ watcher' = [watcher EXCEPT !.at = "poll"]
        /\ UNCHANGED worker
     \/ Raises("not_written")
  /\ UNCHANGED <<files, graded, judge, clock>>

(* The watcher sees the cancellation between two deliveries. *)
Notice ==
  /\ worker.at = "run" /\ watcher.at = "poll" /\ Cancelled
  /\ watcher' = [watcher EXCEPT !.at = "off"]
  /\ \E touched \in BOOLEAN : job' = [job EXCEPT !.cancel = @ \/ touched]
  /\ UNCHANGED <<files, worker, graded, judge, clock>>

Watch == Deliver \/ Look \/ Answer \/ Notice

(* The command has returned; the watcher is joined, an error of it raised. *)
Join ==
  /\ worker.at = "run" /\ job.at = "exited" /\ watcher.at \in {"off", "poll"}
  /\ IF worker.error = "none"
     THEN worker' = [worker EXCEPT !.at = "rest"] /\ watcher' = [watcher EXCEPT !.at = "poll"]
     ELSE worker' = [worker EXCEPT !.at = "fail"] /\ UNCHANGED watcher
  /\ UNCHANGED <<files, graded, judge, job, clock>>

(* Exit 0: attempted; 2: the weights cannot be loaded; else infrastructure. *)
Status ==
  /\ worker.at = "rest" /\ watcher.at = "poll" /\ watcher.seen = job.rows
  /\ \/ worker' = [worker EXCEPT !.at = "fail", !.error = "gpu"]
     \/ /\ job.code \in {0, 2} /\ ~ Cancelled
        /\ worker' = [worker EXCEPT !.at = "drain"]
  /\ UNCHANGED <<files, graded, judge, watcher, job, clock>>

(* The rows of a failed job are kept, if its output can be read. *)
Fail ==
  /\ worker.at = "fail"
  /\ \E readable \in BOOLEAN :
       kept' = IF readable THEN kept \cup { job.tasks[i] : i \in 1 .. job.rows } ELSE kept
  /\ Over
  /\ UNCHANGED <<progress, score, attempts>>

(* The last drain, and the result. *)
Settle ==
  /\ worker.at = "drain"
  /\ \/ /\ Stopped
        /\ \E k \in Undrained : progress' = Saved(k)
        /\ UNCHANGED score
     \/ /\ ~ Stopped /\ NextGrade(judge) # "judging"
        /\ progress' = Saved(Drained(judge))
        /\ score' = CASE NextGrade(judge) = "failed" -> score
                      [] worker.look = "stop"        -> "early"
                      [] OTHER -> IF Drained(judge) = Clips THEN "full" ELSE score
  /\ Over
  /\ UNCHANGED <<kept, attempts>>

Evaluate == DeliverCached \/ StartJob \/ Join \/ Status \/ Fail \/ Settle

-----------------------------------------------------------------------------
(* The pool of judges, and the supervisor of the job on the GPU. *)

Judge(c) ==
  /\ judge[c] = "judging"
  /\ \E grade \in {"graded", "failed"} : judge' = [judge EXCEPT ![c] = grade]
  /\ UNCHANGED <<files, worker, graded, watcher, job, clock>>

AtGate == job.pause > 0 /\ job.rows = job.pause /\ job.continue # "go"
Left == job.rows < Len(job.tasks)

PastGate == Left /\ ~ AtGate

(* Mistaken variant: nothing interrupts the wait at the gate. *)
InterruptedAtWork == ~ AtGate /\ (clock = "late" \/ job.cancel)

(* Its own deadline, also while it waits, or the file that cancels. *)
Interrupted == clock = "late" \/ job.cancel

Exit(code, rows) == job' = [job EXCEPT !.at = "exited", !.code = code, !.rows = rows]

Supervise ==
  /\ job.at = "run"
  /\ \/ PastGate /\ job' = [job EXCEPT !.rows = @ + 1, !.ran = @ + 1]
     \/ PastGate /\ Exit(2, Len(job.tasks))    \* a load fails: the rest is invalid
     \/ PastGate /\ Exit(3, job.rows)
     \/ (~ Left \/ (AtGate /\ job.continue = "stop")) /\ Exit(0, job.rows)
     \/ Interrupted /\ Exit(75, job.rows)
  /\ UNCHANGED <<files, memory, clock>>

-----------------------------------------------------------------------------
(* The window closes, time passes, the process dies. *)

CloseWindow == worker.at # "idle" /\ clock = "open" /\ clock' = "closed" /\ UNCHANGED <<files, memory, job>>

Deadline == worker.at # "idle" /\ clock # "late" /\ clock' = "late" /\ UNCHANGED <<files, memory, job>>

(* Nothing reads the output of a job after a crash. *)
Crash == worker.at # "idle" /\ Over /\ UNCHANGED files

Next == Begin \/ Evaluate \/ Watch \/ (\E c \in Clip : Judge(c)) \/ Supervise \/ CloseWindow \/ Deadline \/ Crash

Fairness ==
  /\ WF_vars(Evaluate) /\ WF_vars(Watch) /\ WF_vars(Supervise) /\ WF_vars(Deadline)
  /\ \A c \in Clip : WF_vars(Judge(c))

Spec == Init /\ [][Next]_vars /\ Fairness

-----------------------------------------------------------------------------
(* Every attempt ends, with the threads waiting for each other: the        *)
(* supervisor for the file, the watcher for the judges, the evaluation for *)
(* the supervisor and the watcher.                                         *)
AttemptEnds == worker.at # "idle" ~> worker.at = "idle"
=============================================================================
