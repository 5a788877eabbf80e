--------------------------- MODULE FinalityEpochs ---------------------------
(***************************************************************************)
(* The epoch state of a chain as a function of its blocks: bootstrap at    *)
(* ModernStart, handover-gated rotation, lineage break, and the effect of  *)
(* an included certificate (the const half of node::FinalityTracker).      *)
(*                                                                         *)
(* A chain is a sequence of blocks; it starts just above the legacy        *)
(* boundary H = 0, so chain[h] is the block at height h and the blocks     *)
(* below ModernStart are the corridor.  A block is its hash, the           *)
(* certificate its coinbase carries (if any) and the stake/binding         *)
(* registry as of that block, from which validator sets are cut.           *)
(***************************************************************************)
EXTENDS FinalitySchedule

NoCert == [height |-> -1, block |-> 0, epoch |-> NoEpoch,
           successor |-> NoSet, signers |-> {}]
NoFinalized == [height |-> -1, block |-> 0, epoch |-> NoEpoch,
                certified_at |-> -1]

\* FinalityTracker::State{}
InitialState ==
    [bootstrapped |-> FALSE, epoch |-> 0, epoch_starts |-> <<>>,
     bootstrap |-> NoSet, previous |-> NoSet, current |-> NoSet,
     next |-> NoSet, handover_certified |-> FALSE, lineage_broken |-> FALSE,
     finalized |-> NoFinalized]

-----------------------------------------------------------------------------
(* Snapshots and the projection of the state to the next height.           *)

\* ValidatorSetSnapshot::BuildAt; an empty or oversized one does not exist,
\* and one below the floor is not used.
SnapshotAt(reg, epoch) == [epoch |-> epoch, weights |-> reg]
MeetsFloor(reg) == Cardinality(DOMAIN reg) \in MinFinalitySet..MaxFinalitySet

\* Mutant: the carried-over set keeps the stamp of the epoch before.
SuccessorSetUnstamped(s, reg) ==
    IF MeetsFloor(reg) THEN SnapshotAt(reg, s.epoch + 1) ELSE s.current

\* Set_{e+1}: the boundary snapshot, or Set_e carried over with a new stamp.
SuccessorSet(s, reg) ==
    IF MeetsFloor(reg) THEN SnapshotAt(reg, s.epoch + 1)
                       ELSE WithEpoch(s.current, s.epoch + 1)

\* Epoch 0 opens at M on Snapshot(M - 1), if that meets the floor.
Bootstrap(reg) ==
    LET opened == [InitialState EXCEPT !.epoch_starts = <<ModernStart>>]
        set_0 == SnapshotAt(reg, 0)
    IN  IF MeetsFloor(reg)
        THEN [opened EXCEPT !.bootstrapped = TRUE, !.bootstrap = set_0,
                            !.current = set_0, !.next = WithEpoch(set_0, 1)]
        ELSE opened

EpochStart(s) == s.epoch_starts[Len(s.epoch_starts)]

\* Mutant: reaching the nominal boundary is enough.
RotationUngated(s, height) == height >= EpochStart(s) + EpochBlocks

RotationFires(s, height) ==
    s.handover_certified /\ height >= EpochStart(s) + EpochBlocks

Rotate(s, height, reg) ==
    LET rotated == [s EXCEPT !.previous = s.current, !.current = s.next,
                             !.epoch = @ + 1,
                             !.epoch_starts = Append(@, height),
                             !.handover_certified = FALSE]
    IN  [rotated EXCEPT !.next = SuccessorSet(rotated, reg)]

\* Mutant: an epoch may be extended for ever.
NeverBreakLineage(s, height) == s

\* Extension exhausted: no further certificate is valid.
BreakLineage(s, height) ==
    [s EXCEPT !.lineage_broken =
        @ \/ /\ ~s.handover_certified
             /\ height - EpochStart(s) >= EpochBlocks + MaxEpochExtension]

\* FinalityTracker::Projected, on a state as of height - 1.
Projected(s, height, reg) ==
    IF height < ModernStart THEN s
    ELSE IF height = ModernStart THEN Bootstrap(reg)
    ELSE IF ~s.bootstrapped \/ s.epoch_starts = <<>> THEN s
    ELSE BreakLineage(IF RotationFires(s, height) THEN Rotate(s, height, reg)
                                                  ELSE s, height)

\* FinalityTracker::SetInForceAt, the cheap form block production reads.
SetInForceAt(s, height, reg) ==
    IF height < ModernStart THEN NoSet
    ELSE IF height = ModernStart THEN Projected(s, height, reg).current
    ELSE IF ~s.bootstrapped \/ s.epoch_starts = <<>> THEN NoSet
    ELSE IF RotationFires(s, height) THEN s.next
    ELSE s.current

-----------------------------------------------------------------------------
(* One modern block applied to the state.                                  *)

\* State::SetSize resolves the bitmap width for these epochs only.
SetSizeKnown(s, epoch) ==
    s.bootstrapped /\ epoch >= 0 /\ epoch \in {s.epoch, s.epoch - 1}

\* JudgeCoinbaseCertificate: no certificate, or a valid one for a known set.
JudgeCoinbaseCertificate(cert, height, projected, block_at) ==
    \/ cert = NoCert
    \/ /\ SetSizeKnown(projected, cert.epoch)
       /\ JudgeFinalityCertificate(cert, height, projected, block_at)

\* The state ApplyModern leaves once the certificate is judged valid.
ApplyModern(s, height, reg, cert) ==
    LET p == Projected(s, height, reg)
    IN  IF cert = NoCert THEN p
        ELSE [p EXCEPT !.finalized = [height |-> cert.height,
                                      block |-> cert.block,
                                      epoch |-> cert.epoch,
                                      certified_at |-> height],
                       !.handover_certified = @ \/ cert.epoch = p.epoch]

\* The registry as of a height; `boundary' is the one as of H.
RegistryOf(chain, boundary, height) ==
    IF height = 0 THEN boundary ELSE chain[height].registry

\* The state as of `height' on a chain, given the state s as of `base': every
\* block in between is applied in order.
StateFrom(chain, boundary, base, s, height) ==
    LET walk[h \in base..height] ==
            IF h = base THEN s
            ELSE IF h < ModernStart THEN walk[h - 1]
            ELSE ApplyModern(walk[h - 1], h,
                             RegistryOf(chain, boundary, h - 1), chain[h].cert)
    IN  walk[height]
=============================================================================
