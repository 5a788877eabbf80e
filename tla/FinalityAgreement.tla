-------------------------- MODULE FinalityAgreement -------------------------
(***************************************************************************)
(* The network of validators: every one follows whatever branch it likes,  *)
(* signs checkpoints by the rules of its journal, and any node may include *)
(* a certificate for a checkpoint that a quorum has signed.  The question  *)
(* is the one the gadget exists for: can two incompatible checkpoints both *)
(* gather a certificate?                                                   *)
(*                                                                         *)
(* A journal is reduced to what it promises (FinalitySigner): the last     *)
(* vote and the ancestry lock, both durable before the vote is seen.  The  *)
(* tree of blocks that may be produced is a constant; what certificate a   *)
(* block carries is decided when it is.  Faulty validators, among which    *)
(* count those whose lock was moved by a trusted recovery, have signed     *)
(* everything.                                                             *)
(***************************************************************************)
EXTENDS FinalitySchedule

CONSTANTS
    Validators,
    Faulty,
    Blocks,
    Ancestors,    \* the blocks of the chain that ends in a block
    HeightOf,
    SetOf,        \* Set_e, for the epoch e that a block lies in
    SuccessorOf,  \* Set_{e+1} as derived on the block's chain
    NoBlock

EpochOf(b) == SetOf[b].epoch

\* A tree of chains; the epoch rises along a chain, one by one, to the
\* successor committed before.
ASSUME ChainAssumption ==
    /\ Ancestors \in [Blocks -> SUBSET Blocks]
    /\ HeightOf \in [Blocks -> Nat]
    /\ NoBlock \notin Blocks
    /\ \A b \in Blocks :
          /\ b \in Ancestors[b]
          /\ \A a \in Ancestors[b] :
                /\ Ancestors[a] \subseteq Ancestors[b]
                /\ a # b => HeightOf[a] < HeightOf[b]
                /\ \A c \in Ancestors[b] :
                      HeightOf[c] <= HeightOf[a] => c \in Ancestors[a]

ASSUME SetAssumption ==
    /\ Faulty \subseteq Validators
    /\ DOMAIN SetOf = Blocks /\ DOMAIN SuccessorOf = Blocks
    /\ \A b \in Blocks :
          /\ EpochOf(b) \in Nat
          /\ IsFiniteSet(Members(SetOf[b]))
          /\ Members(SetOf[b]) \subseteq Validators
          /\ SuccessorOf[b].epoch = EpochOf(b) + 1
          /\ \A a \in Ancestors[b] :
                /\ EpochOf(a) <= EpochOf(b)
                /\ EpochOf(a) = EpochOf(b) => SetOf[a] = SetOf[b]

\* Fewer than a third of the members of every set are faulty.
FaultBound ==
    \A b \in Blocks :
        3 * Cardinality(Faulty \cap Members(SetOf[b]))
            < Cardinality(Members(SetOf[b]))

VARIABLES
    mined,    \* the blocks produced so far
    carried,  \* the checkpoint whose certificate a block carries, if any
    last,     \* last_signed of every journal
    lock,     \* the ancestry lock of every journal
    votes     \* the checkpoints every validator has signed

vars == <<mined, carried, last, lock, votes>>

-----------------------------------------------------------------------------
(* Certificates.                                                           *)

Signs(v, b) == v \in Faulty \/ b \in votes[v]

\* Mutant: two thirds, rounded down, are a quorum.
TwoThirdsSigned(b, signers) ==
    /\ signers # {}
    /\ SignedWeight(SetOf[b], signers) >= QuorumWeight(SetOf[b]) - 1
    /\ Cardinality(signers) >= FinalityHeadcountQuorum(SetOf[b]) - 1

\* The double quorum over the very set of the checkpoint's epoch.
QuorumSigned(b, signers) ==
    VerifyFinalityCertificate(
        [signers |-> signers, successor |-> SuccessorOf[b]],
        SetOf[b], SuccessorOf[b])

Signers(b) == {v \in Members(SetOf[b]) : Signs(v, b)}
Certified(b) == \E signers \in SUBSET Signers(b) : QuorumSigned(b, signers)
CertifiedBlocks == {b \in Blocks : Certified(b)}

\* The certificates included on the chain that ends in a block.
Included(tip) == {carried[d] : d \in Ancestors[tip]} \ {NoBlock}

\* One that a new block may carry: an ancestor, buried, of the current or the
\* previous epoch, above what is final on this chain.
MayCarry(b, tip) ==
    /\ b \in Ancestors[tip]
    /\ IsCheckpointHeight(HeightOf[b])
    /\ CheckpointDepthSatisfied(HeightOf[b], HeightOf[tip], CheckpointDepth)
    /\ EpochOf(b) \in {EpochOf(tip), EpochOf(tip) - 1}
    /\ \A c \in Included(tip) : HeightOf[b] > HeightOf[c]
    /\ Certified(b)

\* Rotation: every earlier epoch of the chain has a certificate below.
HandedOver(tip) ==
    \A a \in Ancestors[tip] :
        EpochOf(a) < EpochOf(tip) =>
            \E c \in Included(tip) : EpochOf(c) = EpochOf(a)

\* A block is produced, with the certificate or without.
Produce(tip, c) ==
    /\ tip \notin mined
    /\ Ancestors[tip] \ {tip} \subseteq mined
    /\ HandedOver(tip)
    /\ c # NoBlock => MayCarry(c, tip)
    /\ mined' = mined \cup {tip}
    /\ carried' = [carried EXCEPT ![tip] = c]
    /\ UNCHANGED <<last, lock, votes>>

-----------------------------------------------------------------------------
(* Validators.                                                             *)

Above(b, known) == known # NoBlock => HeightOf[b] > HeightOf[known]

\* Mutant: a lock whose height the chain has passed no longer binds.
LockPassed(v, tip) == lock[v] # NoBlock => HeightOf[lock[v]] < HeightOf[tip]

LockOnChain(v, tip) == lock[v] # NoBlock => lock[v] \in Ancestors[tip]

\* The set of the vote is the lock's, or the successor the lock committed to.
FollowsLineage(b, known) ==
    known # NoBlock => SetOf[b] \in {SetOf[known], SuccessorOf[known]}

\* Mutant: the watermark is the finalized checkpoint alone.
AboveFinalized(v, b, tip) == \A c \in Included(tip) : HeightOf[b] > HeightOf[c]

AboveWatermark(v, b, tip) ==
    /\ Above(b, last[v]) /\ Above(b, lock[v])
    /\ \A c \in Included(tip) : HeightOf[b] > HeightOf[c]

\* MaybeSign on the chain that ends in tip.
Vote(v, b, tip) ==
    /\ tip \in mined
    /\ b \in Ancestors[tip]
    /\ IsCheckpointHeight(HeightOf[b])
    /\ CheckpointDepthSatisfied(HeightOf[b], HeightOf[tip], CheckpointDepth)
    /\ EpochOf(b) \in {EpochOf(tip), EpochOf(tip) - 1}
    /\ v \in Members(SetOf[b])
    /\ LockOnChain(v, tip)
    /\ AboveWatermark(v, b, tip)
    /\ FollowsLineage(b, lock[v])
    /\ last' = [last EXCEPT ![v] = b]
    /\ lock' = [lock EXCEPT ![v] = b]
    /\ votes' = [votes EXCEPT ![v] = @ \cup {b}]
    /\ UNCHANGED <<mined, carried>>

\* The sole unlock proof: a strictly newer certificate of the very same set.
Unlocks(c, known) ==
    /\ HeightOf[c] > HeightOf[known]
    /\ SetOf[c] = SetOf[known]

\* The voted branch is gone from the chain, the lock moves to its finalized
\* checkpoint; the last vote stays.
UnlockByCertificate(v, c, tip) ==
    /\ tip \in mined
    /\ lock[v] # NoBlock /\ ~LockOnChain(v, tip)
    /\ c \in Included(tip)
    /\ \A d \in Included(tip) : HeightOf[d] <= HeightOf[c]
    /\ EpochOf(c) \in {EpochOf(tip), EpochOf(tip) - 1}
    /\ Unlocks(c, lock[v])
    /\ lock' = [lock EXCEPT ![v] = c]
    /\ UNCHANGED <<mined, carried, last, votes>>

-----------------------------------------------------------------------------
Init ==
    /\ mined = {b \in Blocks : Ancestors[b] = {b}}
    /\ carried = [b \in Blocks |-> NoBlock]
    /\ last = [v \in Validators |-> NoBlock]
    /\ lock = [v \in Validators |-> NoBlock]
    /\ votes = [v \in Validators |-> {}]

Next ==
    \/ \E tip \in Blocks : \E c \in Blocks \cup {NoBlock} : Produce(tip, c)
    \/ \E v \in Validators \ Faulty, b, tip \in Blocks :
          Vote(v, b, tip) \/ UnlockByCertificate(v, b, tip)

Spec == Init /\ [][Next]_vars

-----------------------------------------------------------------------------
(* Properties.                                                             *)

TypeOK ==
    /\ mined \subseteq Blocks
    /\ carried \in [Blocks -> Blocks \cup {NoBlock}]
    /\ last \in [Validators -> Blocks \cup {NoBlock}]
    /\ lock \in [Validators -> Blocks \cup {NoBlock}]
    /\ votes \in [Validators -> SUBSET Blocks]
    /\ \A v \in Validators : \A b \in votes[v] :
          /\ v \in Members(SetOf[b])
          /\ last[v] # NoBlock /\ HeightOf[b] <= HeightOf[last[v]]

Compatible(a, b) == a \in Ancestors[b] \/ b \in Ancestors[a]

(* "Quorum intersection then makes a second conflicting certificate
   impossible under the protocol fault bound": two checkpoints certified by
   one validator set lie on one chain, whatever forks the validators follow
   and however their locks move. *)
Agreement ==
    \A a, b \in CertifiedBlocks : SetOf[a] = SetOf[b] => Compatible(a, b)

(* A checkpoint that conflicts with a certified one of its set, no higher
   than that, can never be certified any more: a quorum has passed it
   without voting for it, and no journal votes below its watermark. *)
HasPassed(v, b) ==
    /\ b \notin votes[v]
    /\ last[v] # NoBlock /\ HeightOf[b] <= HeightOf[last[v]]

Passers(b) == {v \in Members(SetOf[b]) : v \in Faulty \/ HasPassed(v, b)}
Passed(b) == \E signers \in SUBSET Passers(b) : QuorumSigned(b, signers)

ConflictsPassed ==
    \A c \in CertifiedBlocks : \A b \in Blocks \ Ancestors[c] :
        SetOf[b] = SetOf[c] /\ HeightOf[b] <= HeightOf[c] => Passed(b)

(* "No conflicting certificate possible without Byzantine >= W/3": the same,
   across validator sets. *)
AgreementAcrossSets ==
    \A a, b \in CertifiedBlocks : Compatible(a, b)
=============================================================================
