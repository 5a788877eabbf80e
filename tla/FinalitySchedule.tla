-------------------------- MODULE FinalitySchedule --------------------------
(***************************************************************************)
(* The pure rules of the finality gadget: checkpoint schedule, burial      *)
(* depth, epoch of a height, double quorum, and the judgement of one       *)
(* certificate against an epoch state (modern/finality_schedule.h,         *)
(* modern/finality_certificate.h).                                         *)
(*                                                                         *)
(* Abstractions.  A hash stands for what it commits to: the hash of a      *)
(* validator set is the set, stamped with its epoch; the block named by a  *)
(* certificate stands for block hash and withdrawal root together, both of *)
(* which are functions of the chain below it.  Certificates carry the set  *)
(* of validators whose signatures they aggregate; the aggregate BLS check  *)
(* is taken to accept exactly the genuine ones.                            *)
(***************************************************************************)
EXTENDS Integers, Sequences, FiniteSets, FiniteSetsExt

CONSTANTS
    ModernStart,        \* M, the first modern proof-of-stake height
    EpochBlocks,        \* E, nominal length of an epoch
    CheckpointInterval, \* a checkpoint every so many blocks from M on
    CheckpointDepth,    \* burial before a checkpoint may be certified
    MaxEpochExtension,  \* blocks an epoch may run past E without handover
    MinFinalitySet,     \* bootstrap floor on the size of a set
    MaxFinalitySet      \* MAX_FINALITY_SET, a larger snapshot does not exist

\* ModernPosParams::Valid(), the part about finality.
ASSUME ModernPosParamsValid ==
    /\ ModernStart \in Nat \ {0}
    /\ EpochBlocks \in Nat \ {0}
    /\ CheckpointInterval \in 1..EpochBlocks
    /\ CheckpointDepth \in 0..(EpochBlocks - 1)
    /\ MaxEpochExtension \in Nat /\ MaxEpochExtension >= EpochBlocks
    /\ MinFinalitySet \in Nat \ {0} /\ MaxFinalitySet \in Nat

NoEpoch == -1

\* epoch_starts[e + 1] is the first height of epoch e: as many epochs as there
\* are leading starts at or below the height, counted from 0 (NoEpoch: none).
EpochOfHeight(epoch_starts, height) ==
    Cardinality({i \in DOMAIN epoch_starts :
                    \A j \in 1..i : height >= epoch_starts[j]}) - 1

IsCheckpointHeight(height) ==
    height >= ModernStart /\ (height - ModernStart) % CheckpointInterval = 0

CheckpointDepthSatisfied(checkpoint_height, including_height, depth) ==
    /\ including_height >= checkpoint_height
    /\ including_height - checkpoint_height >= depth

-----------------------------------------------------------------------------
(* Validator sets: the epoch stamp and the weight of every member.         *)

NoSet == [epoch |-> NoEpoch, weights |-> <<>>]
Members(set) == DOMAIN set.weights
WithEpoch(set, epoch) == [set EXCEPT !.epoch = epoch]

SignedWeight(set, signers) ==
    MapThenSumSet(LAMBDA m : set.weights[m], signers \cap Members(set))

QuorumWeight(set) == (2 * SignedWeight(set, Members(set))) \div 3 + 1
FinalityHeadcountQuorum(set) == (2 * Cardinality(Members(set))) \div 3 + 1

\* VerifyFinalityCertificate: bitmap over this very set, committed successor,
\* stake quorum and headcount quorum.
VerifyFinalityCertificate(cert, set, successor) ==
    /\ Members(set) # {}
    /\ cert.signers \subseteq Members(set)
    /\ cert.successor = successor
    /\ cert.signers # {}
    /\ SignedWeight(set, cert.signers) >= QuorumWeight(set)
    /\ Cardinality(cert.signers) >= FinalityHeadcountQuorum(set)

-----------------------------------------------------------------------------
(* The judgement of a certificate included at a height.  `state' is the    *)
(* epoch state projected for that height, block_at[h] the block below it.  *)

\* The signing set of an epoch: only the current and the previous one.
SetForEpoch(state, epoch) ==
    IF ~state.bootstrapped \/ state.lineage_broken THEN NoSet
    ELSE IF epoch = state.epoch THEN state.current
    ELSE IF state.epoch >= 1 /\ epoch = state.epoch - 1 THEN state.previous
    ELSE NoSet

SuccessorHashForEpoch(state, epoch) ==
    IF epoch = state.epoch THEN state.next
    ELSE IF state.epoch >= 1 /\ epoch = state.epoch - 1 THEN state.current
    ELSE NoSet

\* FINALITY_REGRESSION is anything at or below the finalized height.
AdvancesFinality(cert, state) == cert.height > state.finalized.height

CheckCertificatePlacement(cert, including_height, state, block_at) ==
    /\ state.epoch_starts # <<>> /\ Members(state.current) # {}
    /\ ~state.lineage_broken
    /\ cert.height <= including_height
    /\ IsCheckpointHeight(cert.height)
    /\ CheckpointDepthSatisfied(cert.height, including_height,
                                CheckpointDepth)
    /\ \/ cert.epoch = state.epoch
       \/ /\ state.epoch >= 1
          /\ cert.epoch = state.epoch - 1
          /\ state.previous # NoSet
    /\ EpochOfHeight(state.epoch_starts, cert.height) = cert.epoch
    /\ cert.height \in DOMAIN block_at /\ block_at[cert.height] = cert.block
    /\ AdvancesFinality(cert, state)

JudgeFinalityCertificate(cert, including_height, state, block_at) ==
    /\ CheckCertificatePlacement(cert, including_height, state, block_at)
    /\ LET delayed == cert.epoch # state.epoch
           signing_set == IF delayed THEN state.previous ELSE state.current
           successor == IF delayed THEN state.current ELSE state.next
       IN  VerifyFinalityCertificate(cert, signing_set, successor)
=============================================================================
