------------------------------ MODULE WindowBatch ------------------------------
(***************************************************************************)
(* The private clips of one window: window_batch and build_pool of pool.py *)
(* and the cache Evaluator._batch keeps of their answer.  The draw and the *)
(* order of the reserve follow from a seed; videos whose media are invalid *)
(* are rejected and replaced, until a batch is complete and locked.        *)
(* Videos are numbered: the draw first, then the reserve in its order.     *)
(***************************************************************************)
EXTENDS BatchState, SequencesExt, FiniteSetsExt

files == <<rejected, rows, locked, batch>>
vars == <<files, stage, selected, served>>

(* Earlier windows may have rejected videos already. *)
Init ==
  /\ rejected \in { S \in SUBSET Video : Cardinality(S) <= 1 }
  /\ rows = <<>> /\ locked = <<>> /\ batch = <<>>
  /\ stage = "idle" /\ selected = <<>> /\ served = {}

Places(videos) == { selected[i] : i \in DOMAIN selected } \cap videos
Cut(status) == { rows[i].video : i \in { j \in DOMAIN rows : rows[j].status = status } }

(* An error: the next attempt starts over from the files. *)
Error == stage' = "idle" /\ selected' = <<>>

Start ==
  /\ stage = "idle" /\ batch = <<>>
  /\ selected' = IF locked # <<>> THEN locked ELSE Draw
  /\ stage' = "check"
  /\ UNCHANGED <<files, served>>

(* Complete videos of the batch and invalid ones are not cut again. *)
Check ==
  /\ stage = "check"
  /\ IF Places(rejected) = {}
     THEN /\ stage' = "build"
          /\ rows' = SelectSeq(rows, LAMBDA row :
                        row.status = "invalid" \/ (row.status = "ok" /\ row.video \in Places(Video)))
     ELSE stage' = "replace" /\ UNCHANGED rows
  /\ UNCHANGED <<rejected, locked, batch, selected, served>>

(* Four threads cut; a transient failure does not speak of the media. *)
CutVideo ==
  /\ stage = "build"
  /\ \E video \in Places(Video) \ UNION { Cut(s) : s \in {"ok", "invalid", "failed"} },
        status \in {"ok", "invalid", "failed"} :
       rows' = Append(rows, [video |-> video, status |-> status])
  /\ UNCHANGED <<rejected, locked, batch, stage, selected, served>>

Built ==
  /\ stage = "build" /\ Places(Video) \subseteq UNION { Cut(s) : s \in {"ok", "invalid", "failed"} }
  /\ rejected' = rejected \cup Places(Cut("invalid"))
  /\ stage' = IF Places(Cut("invalid")) = {} THEN "load" ELSE "replace"
  /\ UNCHANGED <<rows, locked, batch, selected, served>>

(* A replacement takes the place of the video it replaces. *)
Filled(bad, fresh) ==
  [ i \in DOMAIN selected |->
      IF selected[i] \in bad THEN fresh[Cardinality({ j \in 1 .. i : selected[j] \in bad })] ELSE selected[i] ]

(* A locked batch may have been scored: it is never amended. *)
Replace ==
  /\ stage = "replace"
  /\ LET bad == Places(rejected)
         available == (Reserve \ rejected) \ Places(Video)
     IN  \/ Error    \* cancelled
         \/ locked # <<>> /\ Error
         \/ Cardinality(available) < Cardinality(bad) /\ Error
         \/ /\ locked = <<>> /\ Cardinality(available) >= Cardinality(bad)
            /\ selected' = Filled(bad, SetToSortSeq(available, <))
            /\ stage' = "check"
  /\ UNCHANGED <<files, served>>

(* store_immutable takes only the same again. *)
Storable(file, value) == file \in {<<>>, value}

(* load_pool, and the lock. *)
Load ==
  /\ stage = "load"
  /\ IF Places(Video) \subseteq Cut("ok") /\ Storable(locked, selected)
     THEN locked' = selected /\ stage' = "serve" /\ UNCHANGED selected
     ELSE Error /\ UNCHANGED locked
  /\ UNCHANGED <<rejected, rows, batch, served>>

(* Mistaken variant: the clips keep the order in which they were cut. *)
OrderedAsCut ==
  LET oks == SelectSeq(rows, LAMBDA row : row.status = "ok" /\ row.video \in Places(Video))
  IN  [ i \in DOMAIN oks |-> oks[i].video ]

(* Completion order depends on the content; the answer follows the draw. *)
Ordered == selected

(* _batch hands the answer to the controls, which may fail, and keeps it. *)
Serve ==
  /\ stage = "serve"
  /\ served' = served \cup {Ordered}
  /\ \/ batch' = Ordered
     \/ UNCHANGED batch
  /\ Error
  /\ UNCHANGED <<rejected, rows, locked>>

ServeKept ==
  /\ stage = "idle" /\ batch # <<>>
  /\ served' = served \cup {batch}
  /\ UNCHANGED <<files, stage, selected>>

(* clips.jsonl is rewritten in place: a crash may cut it short. *)
Crash ==
  /\ stage # "idle" /\ Error
  /\ \E n \in 0 .. Len(rows) : rows' = SubSeq(rows, 1, n)
  /\ UNCHANGED <<rejected, locked, batch, served>>

Next == Start \/ Check \/ CutVideo \/ Built \/ Replace \/ Load \/ Serve \/ ServeKept \/ Crash

Spec == Init /\ [][Next]_vars

=============================================================================
