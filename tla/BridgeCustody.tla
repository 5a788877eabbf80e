---------------------------- MODULE BridgeCustody ----------------------------
(***************************************************************************)
(* Both ends of the bridge: the B3 chain that mints deposits, admits burns *)
(* and certifies its blocks, the Ethereum verifier that follows its        *)
(* validator-set lineage, the vault that holds the tokens, and relayers    *)
(* that submit any certificate at any time, in any order, or not at all.   *)
(*                                                                         *)
(* Of the B3 side this module takes from FinalityAgreement that one set    *)
(* never certifies two branches (different sets may), and from BridgeState *)
(* that a deposit is minted at most once per branch and that the           *)
(* withdrawal root of a block is the sequence of the burns below it.       *)
(* Ethereum is its finalized chain.  A block's hash is the chain up to it, *)
(* and a certificate carries a proof that verifies against its signers;    *)
(* nothing on Ethereum compares the blocks of two certificates.            *)
(***************************************************************************)
EXTENDS Naturals, Sequences, FiniteSets, SequencesExt

CONSTANTS
    EpochBlocks,          \* E, the length of an epoch in B3 blocks
    MaxEpochExtension,    \* how long an uncertified epoch may go on
    CheckpointInterval,   \* a block in so many may be certified
    CheckpointDepth,      \* once so many blocks are on top of it
    BridgeActivation,     \* BRIDGE_ACTIVATION_HEIGHT
    WithdrawalStart,      \* the outbound height W
    MinEpochDuration, MaxEpochLag, MaxCertificateAge,
    MinDepositExitWindow, BootstrapDeadline,  \* the verifier's DeploymentConfig
    Amounts,              \* amounts of deposits and burns
    ValidatorSets,        \* what a snapshot of the registry may contain
    Qualified,            \* those that meet the pinned bridge thresholds
    MinForkHeight,        \* bound: branches share the blocks up to it
    MaxCertificates,      \* bound: certificates
    MaxHeight,            \* bound: the B3 chain
    MaxTime,              \* bound: Ethereum's clock
    MaxDeposits,          \* bound: deposits
    MaxWithdrawals        \* bound: burns on a branch

ASSUME CustodyAssumption ==
    /\ EpochBlocks \in Nat \ {0} /\ MaxEpochExtension \in Nat
    /\ CheckpointInterval \in Nat \ {0} /\ CheckpointDepth \in Nat
    /\ BridgeActivation \in Nat \ {0}
    /\ WithdrawalStart \in Nat /\ WithdrawalStart >= BridgeActivation
    /\ MinEpochDuration \in Nat \ {0} /\ MinEpochDuration <= MaxEpochLag
    /\ MaxCertificateAge \in 1 .. MaxEpochLag - 1
    /\ MinDepositExitWindow \in 1 .. MaxEpochLag - 1
    /\ Amounts \subseteq Nat \ {0}
    /\ Qualified \subseteq ValidatorSets

VARIABLES
    b3,        \* the active B3 chain from M: the state after each block
    certs,     \* certificates that exist, on a chain or in a relayer's hands
    accepted,  \* history: the certificates the verifier has accepted
    verifier,  \* B3FinalityVerifier's storage
    vault,     \* B3StakerBridge's storage
    now        \* block.timestamp of Ethereum

vars == << b3, certs, accepted, verifier, vault, now >>

SetHeader(epoch, members) == [epoch |-> epoch, members |-> members]

BridgeThresholdMet(set) == set.members \in Qualified

-----------------------------------------------------------------------------
(* The B3 chain. *)

\* The state as of M-1: Set_0 = Set_1, nothing finalized, minted or burned.
Genesis(members) ==
    [epoch |-> 0, start |-> 1, broken |-> FALSE, handover |-> FALSE,
     current |-> SetHeader(0, members), next |-> SetHeader(1, members),
     finalized |-> 0, minted |-> {}, tree |-> << >>]

B3At(height) == b3[height + 1]
B3Height == Len(b3) - 1

\* One of two blocks is an ancestor of the other, or they are the same.
Compatible(a, b) == IsPrefix(a, b) \/ IsPrefix(b, a)

\* The state a block at `height' starts from; `members' is the snapshot that
\* becomes the successor if the epoch rotates there.
Projected(s, height, members) ==
    LET rotates == s.handover /\ height >= s.start + EpochBlocks
        r == IF rotates
             THEN [s EXCEPT !.epoch = @ + 1, !.start = height, !.handover = FALSE,
                            !.current = s.next, !.next = SetHeader(s.epoch + 2, members)]
             ELSE s
    IN  [r EXCEPT !.broken = @ \/ /\ ~r.handover
                                  /\ height - r.start >= EpochBlocks + MaxEpochExtension]

\* The mutant looks only at the set in force.
CurrentSetReady(projected) ==
    ~projected.broken /\ BridgeThresholdMet(projected.current)

\* BridgeWithdrawalValidatorSetsReady
ValidatorSetsReady(projected) ==
    /\ ~projected.broken
    /\ BridgeThresholdMet(projected.current) /\ BridgeThresholdMet(projected.next)

\* The sum of a sequence of amounts.
TotalOf(amounts) ==
    LET sum[i \in 0 .. Len(amounts)] == IF i = 0 THEN 0 ELSE sum[i - 1] + amounts[i]
    IN  sum[Len(amounts)]

\* The bUSD in circulation after a B3 state.
Supply(s, deposits) ==
    TotalOf([d \in DOMAIN deposits |-> IF d \in s.minted THEN deposits[d] ELSE 0])
        - TotalOf([i \in DOMAIN s.tree |-> s.tree[i].amount])

-----------------------------------------------------------------------------
Init ==
    /\ \E members \in ValidatorSets : b3 = << Genesis(members) >>
    /\ certs = {} /\ accepted = {}
    /\ verifier = [initialized |-> FALSE, genesis_time |-> 0, epoch |-> 0,
                   current |-> {}, next |-> {}, height |-> 0, root |-> {},
                   last_certificate |-> 0, last_rotation |-> 0,
                   bridge_height |-> 0, bridge_root |-> {}]
    /\ vault = [deposits |-> << >>, locked |-> 0, released |-> {}]
    /\ now = 1

\* A scheduled checkpoint, buried below a block at height `top'.
BuriedCheckpoint(height, top) ==
    (height - 1) % CheckpointInterval = 0 /\ top - height >= CheckpointDepth

\* JudgeCoinbaseCertificate, on the state the block starts from: a certificate
\* of this epoch or the one before, of an ancestor above the finalized one.
MayCarry(projected, c) ==
    /\ BuriedCheckpoint(c.height, B3Height + 1)
    /\ ~projected.broken
    /\ c.epoch = projected.epoch \/ c.epoch + 1 = projected.epoch
    /\ c.height > projected.finalized
    /\ IsPrefix(c.block, b3)

\* A block that mints deposits of Ethereum's finalized chain, admits a burn or
\* none, and carries a certificate or none.
B3Block(mints, burns, carried, members) ==
    LET height == B3Height + 1
        p      == Projected(Last(b3), height, members)
        minted == [p EXCEPT !.minted = @ \union mints]
        burned == [minted EXCEPT !.tree =
                      @ \o [i \in DOMAIN burns |-> [amount |-> burns[i], height |-> height]]]
    IN  /\ height <= MaxHeight
        /\ Len(p.tree) + Len(burns) <= MaxWithdrawals
        /\ mints # {} => height >= BridgeActivation
        /\ mints \intersect p.minted = {}
        /\ burns # << >> => /\ height >= WithdrawalStart /\ ValidatorSetsReady(p)
                            /\ TotalOf(burns) <= Supply(minted, vault.deposits)
        /\ \A c \in carried : MayCarry(p, c)
        /\ \E finalized \in IF carried = {} THEN {p.finalized} ELSE {c.height : c \in carried} :
               b3' = Append(b3, [burned EXCEPT
                         !.finalized = finalized,
                         !.handover = @ \/ \E c \in carried : c.epoch = p.epoch])
        /\ UNCHANGED << certs, accepted, verifier, vault, now >>

\* Blocks are replaced by another branch.  A node's pin forbids this below the
\* certificates its own blocks carry; other nodes may have carried others, and
\* a certificate in a relayer's hands pins nothing.
Reorganise(height) ==
    /\ height \in MinForkHeight .. B3Height - 1
    /\ b3' = SubSeq(b3, 1, height + 1)
    /\ UNCHANGED << certs, accepted, verifier, vault, now >>

\* What FinalityAgreement establishes of the sets of this chain: a set that has
\* certified a block certifies no block of another branch.
SetAgrees(set, block) ==
    \A c \in certs : c.signers = set => Compatible(c.block, block)

\* The set of an epoch certifies one of its blocks: FinalizedBlock.
Certify(height) ==
    LET block == SubSeq(b3, 1, height + 1)
        s     == B3At(height)
    IN  /\ Cardinality(certs) < MaxCertificates
        /\ height \in Last(b3).finalized + 1 .. B3Height
        /\ BuriedCheckpoint(height, B3Height)
        /\ ~Last(b3).broken
        /\ Last(b3).epoch <= s.epoch + 1
        /\ SetAgrees(s.current, block)
        /\ certs' = certs \union
               {[block |-> block, height |-> height, epoch |-> s.epoch,
                 root |-> IF height < BridgeActivation THEN {} ELSE {s.tree},
                 signers |-> s.current, successor |-> s.next]}
        /\ UNCHANGED << b3, accepted, verifier, vault, now >>

-----------------------------------------------------------------------------
(* The verifier. *)

Tick ==
    /\ now < MaxTime /\ now' = now + 1
    /\ UNCHANGED << b3, certs, accepted, verifier, vault >>

EpochTimeValid(v, epoch, time) ==
    /\ time >= v.genesis_time + epoch * MinEpochDuration
    /\ time <= v.genesis_time + (epoch + 1) * MaxEpochLag

\* Three of the four bootstrap keys attest B3's Set_0.
Initialize ==
    /\ ~verifier.initialized /\ now <= BootstrapDeadline
    /\ verifier' = [verifier EXCEPT !.initialized = TRUE, !.genesis_time = now,
                                    !.current = {B3At(0).current},
                                    !.last_rotation = now]
    /\ UNCHANGED << b3, certs, accepted, vault, now >>

\* A certificate of the next epoch, once that epoch's set is known.
IsTransition(v, c) == c.epoch = v.epoch + 1 /\ v.next # {}

CertificateAccepted(v, c) ==
    /\ v.initialized
    /\ c.epoch = v.epoch \/ IsTransition(v, c)
    /\ now - v.last_rotation <= MaxEpochLag
    /\ IsTransition(v, c) => now - v.last_rotation >= MinEpochDuration
    /\ EpochTimeValid(v, c.epoch, now)
    /\ c.height > v.height
    /\ c.height < BridgeActivation <=> c.root = {}
    /\ c.successor.epoch = c.epoch + 1
    \* prover.verify: a quorum of the set the verifier holds has signed.
    /\ {c.signers} = IF IsTransition(v, c) THEN v.next ELSE v.current
    /\ IsTransition(v, c) \/ v.next \in {{}, {c.successor}}

\* The mutant rotates without advancing the epoch it accepts.
RotatedInPlace(v, c) == [v EXCEPT !.current = v.next, !.next = {c.successor}, !.last_rotation = now]

Rotated(v, c) == [v EXCEPT !.epoch = @ + 1, !.current = v.next,
                           !.next = {c.successor}, !.last_rotation = now]

\* submitCertificate, for an accepted certificate.
Certified(v, c) ==
    LET rotates   == IsTransition(v, c)
        signers   == IF rotates THEN v.next ELSE v.current
        qualified == c.height >= BridgeActivation /\ \E set \in signers : BridgeThresholdMet(set)
        advanced  == IF rotates THEN Rotated(v, c) ELSE [v EXCEPT !.next = {c.successor}]
    IN  [advanced EXCEPT
            !.bridge_height = IF qualified THEN c.height ELSE @,
            !.bridge_root = IF qualified THEN c.root ELSE @,
            !.height = c.height, !.root = c.root, !.last_certificate = now]

SubmitCertificate(c) ==
    /\ CertificateAccepted(verifier, c)
    /\ verifier' = Certified(verifier, c)
    /\ accepted' = accepted \union {c}
    /\ UNCHANGED << b3, certs, vault, now >>

BridgeReady(v) ==
    /\ v.initialized /\ v.last_certificate # 0
    /\ EpochTimeValid(v, v.epoch, now)
    /\ now - v.last_certificate <= MaxCertificateAge
    /\ now - v.last_rotation < MaxEpochLag - MinDepositExitWindow
    /\ \E set \in v.current : BridgeThresholdMet(set)
    /\ \E set \in v.next : BridgeThresholdMet(set)
    /\ v.bridge_height >= BridgeActivation

\* The mutant releases only while the bridge is live.
ReleaseWhileReady(v) == BridgeReady(v)

ReleaseReady(v) == v.initialized /\ v.bridge_height >= BridgeActivation

-----------------------------------------------------------------------------
(* The vault. *)

Deposit(amount) ==
    /\ Len(vault.deposits) < MaxDeposits
    /\ BridgeReady(verifier)
    /\ vault' = [vault EXCEPT !.deposits = Append(@, amount), !.locked = @ + amount]
    /\ UNCHANGED << b3, certs, accepted, verifier, now >>

\* The mutant pays without remembering the withdrawal.
PaidOnly(v, id, amount) == [v EXCEPT !.locked = @ - amount]

Paid(v, id, amount) ==
    [v EXCEPT !.released = @ \union {id}, !.locked = @ - amount]

\* A withdrawal whose path leads to the bridge root; id is its leaf's position.
Release(id) ==
    /\ ReleaseReady(verifier)
    /\ id \notin vault.released
    /\ \E tree \in verifier.bridge_root :
           /\ id \in DOMAIN tree
           /\ tree[id].height >= BridgeActivation
           /\ verifier.bridge_height >= tree[id].height
           /\ tree[id].amount <= vault.locked
           /\ vault' = Paid(vault, id, tree[id].amount)
    /\ UNCHANGED << b3, certs, accepted, verifier, now >>

Next ==
    \/ \E mints \in SUBSET DOMAIN vault.deposits,
          burns \in {<< >>} \union {<< amount >> : amount \in Amounts},
          carried \in {{}} \union {{c} : c \in certs},
          members \in ValidatorSets : B3Block(mints, burns, carried, members)
    \/ \E amount \in Amounts : Deposit(amount)
    \/ \E height \in 0 .. MaxHeight : Reorganise(height) \/ Certify(height)
    \/ Initialize \/ Tick
    \/ \E c \in certs : SubmitCertificate(c)
    \/ \E id \in 1 .. MaxWithdrawals : Release(id)

(* Anyone may call release, so a recipient whose call keeps succeeding when
   made makes it. *)
Fairness == \A id \in 1 .. MaxWithdrawals : WF_vars(Release(id))

Spec == Init /\ [][Next]_vars /\ Fairness

-----------------------------------------------------------------------------
Leaves(root) == IF root = {} THEN << >> ELSE CHOOSE tree \in root : TRUE

\* Certificates the verifier accepted were for blocks of one chain, and of this one.
OneBranch == \A c, d \in accepted : Compatible(c.block, d.block)
AcceptedOnChain == \A c \in accepted : IsPrefix(c.block, b3)

(* While the blocks whose certificates Ethereum accepted are on the active chain,
   every token in the vault is accounted for there, whatever else is reorganised,
   relayed late, replayed or out of order: it is a deposit not yet minted, bUSD in
   circulation, or a burn not yet released; and a released withdrawal is a burn of
   that chain with that position.  deposit, release, VerifyMint and
   VerifyBridgeBurn together. *)
CustodyBalanced ==
    LET s == Last(b3)
        unminted   == TotalOf([d \in DOMAIN vault.deposits |->
                          IF d \in s.minted THEN 0 ELSE vault.deposits[d]])
        unreleased == TotalOf([i \in DOMAIN s.tree |->
                          IF i \in vault.released THEN 0 ELSE s.tree[i].amount])
    IN  AcceptedOnChain =>
            /\ vault.released \subseteq DOMAIN s.tree
            /\ vault.locked = unminted + Supply(s, vault.deposits) + unreleased

(* Whichever branch one looks at, the active one or one a certificate speaks of,
   the verifier holds the set that branch has for the verifier's epoch, and its
   next set is the one that branch rotates to and the one every certificate of the
   epoch hands over to, whichever certificates were relayed and in whichever
   order: no relayer can take submitCertificate to a set another branch disowns. *)
VerifierFollowsLineage ==
    verifier.initialized =>
        /\ \A b \in {b3} \union {c.block : c \in certs} : \A h \in DOMAIN b :
               /\ b[h].epoch = verifier.epoch => verifier.current = {b[h].current}
               /\ b[h].epoch = verifier.epoch + 1 => verifier.next \subseteq {b[h].current}
        /\ \A c \in certs : c.epoch = verifier.epoch => verifier.next \subseteq {c.successor}

(* Every burn under a root the verifier has accepted is under the root the vault
   releases from, although a certificate of an unqualified set advances only the
   former and makes every older certificate unusable, on whichever branch: B3
   admits a burn only when the sets that can certify it first both qualify. *)
AcceptedBurnsReleasable ==
    Leaves(verifier.bridge_root) = Leaves(verifier.root)

(* A burn under the bridge root is eventually released, also when relaying has
   stopped and the verifier has gone stale: releaseReady, not bridgeReady, gates
   release.  Unless two branches were accepted: then the vault may have paid for
   burns of the other one. *)
AcceptedBurnReleased ==
    \A id \in 1 .. MaxWithdrawals :
        (id \in DOMAIN Leaves(verifier.bridge_root)) ~> (id \in vault.released \/ ~OneBranch)
=============================================================================
