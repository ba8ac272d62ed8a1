-------------------------------- MODULE Replay ---------------------------------
(***************************************************************************)
(* Validator.step reads every block of the finalized chain, but not every  *)
(* snapshot: registrations and stakes are kept in snapshot_cache and read  *)
(* again only where the ledger may use them.  Another follower, or the     *)
(* same one after a restart, reads them at other blocks.  All of them must *)
(* rebuild the same ledger.                                                *)
(***************************************************************************)
EXTENDS Ledger

VARIABLES
  truth,    \* the chain's own snapshot of the last ingested block
  cache     \* Validator.snapshot_cache

replayVars == <<vars, truth, cache>>

(* Mistaken variant: the window is still taken for open in its end epoch. *)
BoundaryMissed(frame) == active = None \/ frame.epoch > active.end_epoch

(* The block may open a window. *)
Boundary(frame) == active = None \/ frame.epoch >= active.end_epoch

Refreshed(frame, rows) == IF cache = None \/ rows # <<>> \/ Boundary(frame) THEN frame ELSE cache

(* {**snapshot_cache, **frame}: number and epoch are always the block's own. *)
Merged(cached, frame) ==
  [ block |-> frame.block, epoch |-> frame.epoch,
    uids |-> cached.uids, validators |-> cached.validators ]

ReplayInit == Init /\ truth = snapshot /\ cache = None

ReplayBlock(frame, rows) ==
  /\ truth' = frame
  /\ cache' = Refreshed(frame, rows)
  /\ Ingest(Merged(cache', frame), rows)

(* A restart, at any block, loses the cache; the ledger is durable. *)
Restart ==
  /\ cache # None
  /\ cache' = None
  /\ UNCHANGED <<vars, truth>>

ReplayNext ==
  \/ /\ snapshot.block < MaxBlock
     /\ \E epoch \in {snapshot.epoch, snapshot.epoch + 1}, uids \in Registrations, validators \in Stakes :
          LET frame == [block |-> snapshot.block + 1, epoch |-> epoch,
                        uids |-> uids, validators |-> validators]
          IN  /\ epoch <= MaxEpoch
              /\ \E rows \in BlockRows(frame) : ReplayBlock(frame, rows)
  \/ Restart

ReplaySpec == ReplayInit /\ [][ReplayNext]_replayVars

-----------------------------------------------------------------------------
(* Followers agree: whatever was cached, lost or read again on the way, the *)
(* block changes every table exactly as its own snapshot would have.        *)
FollowersAgree ==
  [][ truth' # truth =>
        Transaction(truth', SubSeq(commitments', Len(commitments) + 1, Len(commitments'))) ]_replayVars
=============================================================================
