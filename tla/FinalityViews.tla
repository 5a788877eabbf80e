--------------------------- MODULE FinalityViews ----------------------------
(***************************************************************************)
(* What a node derives from its view: the active chain (block[h] is the    *)
(* block at height h) and the tracker's state, as both are read in one     *)
(* hold of cs_main.  A validator set is its own hash, a FinalizedBlock its *)
(* own digest, and the block in it stands for the withdrawal root as well. *)
(***************************************************************************)
EXTENDS FinalitySchedule

CONSTANT Views   \* the chains the node may follow, with their state

OnChain(v, height, block) ==
    height \in DOMAIN v.block /\ v.block[height] = block

EpochAt(v, height) == EpochOfHeight(v.state.epoch_starts, height)

\* ExpectedFinalizedBlock can be formed.
Expectable(v, epoch, height) ==
    /\ height \in DOMAIN v.block
    /\ SuccessorHashForEpoch(v.state, epoch) # NoSet

\* The same, and a set is there to sign it.
Derivable(v, epoch, height) ==
    /\ Expectable(v, epoch, height)
    /\ SetForEpoch(v.state, epoch) # NoSet

ExpectedFinalizedBlock(v, epoch, height) ==
    [height |-> height, block |-> v.block[height],
     validator_set_hash |-> SuccessorHashForEpoch(v.state, epoch),
     epoch |-> epoch]
=============================================================================
