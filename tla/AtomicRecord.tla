----------------------------- MODULE AtomicRecord -----------------------------
(***************************************************************************)
(* What the validator expects of a private record (witness/storage.py):    *)
(* a reader sees a whole value or none, at every moment and after a power  *)
(* loss, and a write that returned is undone by one only together with the *)
(* directory it is in, while nobody has seen to that.                      *)
(***************************************************************************)
CONSTANTS Thread, Value, NoValue

VARIABLES
  record,   \* what a reader sees
  safe,     \* what a reader may see after a power loss
  owed,     \* writers whose value is in place but not yet safe
  rooted    \* the directory itself outlives a power loss

Init == record = NoValue /\ safe = {NoValue} /\ owed = {} /\ rooted \in BOOLEAN

Put(w, v) ==
  record' = v /\ safe' = safe \cup {v} /\ owed' = owed \cup {w} /\ UNCHANGED rooted

(* The writer returns: nothing older than the record comes back. *)
Settle(w) ==
  w \in owed /\ safe' = {record} /\ owed' = owed \ {w} /\ UNCHANGED <<record, rooted>>

(* It raises instead, and promises nothing. *)
Raise(w) == owed' = owed \ {w} /\ UNCHANGED <<record, safe, rooted>>

Crash == owed' = {} /\ UNCHANGED <<record, safe, rooted>>

(* The directory reaches the disk, some time. *)
Root == rooted' /\ UNCHANGED <<record, safe, owed>>

(* The record is in the directory that is found again, or gone with it. *)
PowerLoss ==
  /\ \/ rooted' /\ record' \in safe
     \/ ~ rooted /\ ~ rooted' /\ record' = NoValue
  /\ safe' = {record'} /\ owed' = {}

Next ==
  \/ \E w \in Thread : (\E v \in Value : Put(w, v)) \/ Settle(w) \/ Raise(w)
  \/ Crash \/ Root \/ PowerLoss

Spec == Init /\ [][Next]_<<record, safe, owed, rooted>>
=============================================================================
