-------------------------- MODULE FinalityTracker ---------------------------
(***************************************************************************)
(* node::FinalityTracker: the epoch and finality state derived from the    *)
(* active chain, kept incrementally while blocks connect and rebuilt by a  *)
(* walk of the chain after a disconnect, a restart or a failed read.  The  *)
(* tracker's private stake and binding trackers are `registry'.            *)
(***************************************************************************)
EXTENDS FinalityEpochs

CONSTANTS
    Registries,     \* registries (functions validator -> weight) blocks produce
    SignerSets,     \* sets of validators whose signatures a producer may hold
    MaxHeight,      \* bound on the height of the chain
    MaxBlocks       \* bound on the number of blocks ever produced

ASSUME TrackerAssumption == MaxHeight \in Nat /\ MaxBlocks \in Nat

VARIABLES
    chain,           \* the active chain, a sequence of blocks
    produced,        \* number of blocks produced so far (fresh hashes)
    boundary,        \* registry as of the legacy boundary H
    m_state,         \* FinalityTracker::m_state
    registry,        \* m_stakes and m_bindings
    m_synced_tip,    \* hash of the block the tracker is synced to (0: H)
    m_synced_height, \* its height
    m_dirty

chainVars == <<chain, produced, boundary>>
trackerVars == <<m_state, registry, m_synced_tip, m_synced_height, m_dirty>>
vars == <<chainVars, trackerVars>>

TipHeight == Len(chain)
HashAt(height) == IF height = 0 THEN 0 ELSE chain[height].hash
BlockAt == [h \in 1..Len(chain) |-> chain[h].hash]
RegistryAt(height) == RegistryOf(chain, boundary, height)

\* The state a walk from the boundary gives.
Walk(height) == StateFrom(chain, boundary, 0, InitialState, height)

-----------------------------------------------------------------------------
(* Actions.                                                                *)

Synced(tip_hash) == ~m_dirty /\ m_synced_tip = tip_hash

\* The height Sync extends from, or 0 when it starts over from the boundary.
SyncBase ==
    IF /\ ~m_dirty
       /\ m_synced_height \in 0..TipHeight
       /\ HashAt(m_synced_height) = m_synced_tip
    THEN m_synced_height ELSE 0

\* What Sync to the tip leaves: every block above the base applied, in order.
SyncedState ==
    IF Synced(HashAt(TipHeight)) THEN m_state
    ELSE StateFrom(chain, boundary, SyncBase,
                   IF SyncBase = 0 THEN InitialState ELSE m_state, TipHeight)

SyncedRegistry ==
    IF Synced(HashAt(TipHeight)) THEN registry ELSE RegistryAt(TipHeight)

\* Certificates a producer may try to place on the active chain, given the
\* epoch state p projected for the block it builds: any height, its own block
\* or the tip's, either epoch of the window, either set as the successor.
Candidates(p) ==
    {NoCert} \cup
    UNION {[height : {h}, block : {BlockAt[h], BlockAt[TipHeight]},
            epoch : {p.epoch - 1, p.epoch}, successor : {p.current, p.next},
            signers : SignerSets] : h \in 1..TipHeight}

\* The bounds on the height of the chain and on the blocks ever produced.
MayExtend == TipHeight < MaxHeight /\ produced < MaxBlocks

\* The block joins the active chain.
ExtendChain(cert, reg) ==
    /\ chain' = Append(chain, [hash |-> produced + 1, cert |-> cert,
                               registry |-> reg])
    /\ produced' = produced + 1
    /\ UNCHANGED boundary

\* Mutant: the private trackers step over the block before it is applied.
TrackBlockAfterStep(s, parent_registry, cert, reg) ==
    LET height == TipHeight + 1
    IN  /\ m_state' = IF height < ModernStart THEN s
                      ELSE ApplyModern(s, height, reg, cert)
        /\ registry' = reg
        /\ m_synced_tip' = produced + 1
        /\ m_synced_height' = height
        /\ m_dirty' = FALSE

\* BlockConnected on a tracker that stands at the parent with state s: the
\* block is applied before the private trackers step over it.  If either fails
\* the tracker is marked dirty, the first perhaps done.
TrackBlock(s, parent_registry, cert, reg) ==
    LET height  == TipHeight + 1
        applied == IF height < ModernStart THEN s
                   ELSE ApplyModern(s, height, parent_registry, cert)
    IN  \/ /\ m_state' = applied /\ registry' = reg
           /\ m_synced_tip' = produced + 1 /\ m_synced_height' = height
           /\ m_dirty' = FALSE
        \/ /\ m_state' \in {s, applied} /\ registry' = parent_registry
           /\ m_synced_tip' = HashAt(TipHeight) /\ m_synced_height' = TipHeight
           /\ m_dirty' = TRUE

\* A block with modern evidence: ConnectBlock syncs the tracker to the parent
\* and judges the certificate, ConnectTip then tracks the block.
ConnectBlock ==
    /\ MayExtend
    /\ \E s \in {SyncedState} :
        \E p \in {Projected(s, TipHeight + 1, SyncedRegistry)} :
         \E cert \in Candidates(p), reg \in Registries :
             /\ JudgeCoinbaseCertificate(cert, TipHeight + 1, p, BlockAt)
             /\ ExtendChain(cert, reg)
             /\ TrackBlock(s, SyncedRegistry, cert, reg)

\* A block without evidence is connected whatever the tracker's state; one
\* that does not stand at the parent is only marked dirty.
ConnectPlainBlock(reg) ==
    /\ MayExtend
    /\ ExtendChain(NoCert, reg)
    /\ IF Synced(HashAt(TipHeight))
       THEN TrackBlock(m_state, registry, NoCert, reg)
       ELSE /\ m_dirty' = TRUE
            /\ UNCHANGED <<m_state, registry, m_synced_tip, m_synced_height>>

\* Mutant: the tracker also steps its height back.
DisconnectStepsBack ==
    /\ TipHeight > 0
    /\ chain' = SubSeq(chain, 1, TipHeight - 1)
    /\ m_dirty' = TRUE
    /\ m_synced_height' = m_synced_height - 1
    /\ UNCHANGED <<produced, boundary, m_state, registry, m_synced_tip>>

\* DisconnectTip: the chain shrinks and the tracker is only marked dirty.
DisconnectBlock ==
    /\ TipHeight > 0
    /\ chain' = SubSeq(chain, 1, TipHeight - 1)
    /\ m_dirty' = TRUE
    /\ UNCHANGED <<produced, boundary, m_state, registry, m_synced_tip,
                   m_synced_height>>

\* Sync on its own: production, signing and RPC ask for the state at the tip.
Sync ==
    /\ ~Synced(HashAt(TipHeight))
    /\ m_state' = SyncedState
    /\ registry' = RegistryAt(TipHeight)
    /\ m_synced_tip' = HashAt(TipHeight)
    /\ m_synced_height' = TipHeight
    /\ m_dirty' = FALSE
    /\ UNCHANGED chainVars

\* A block of the span cannot be read: Reset() leaves nothing behind.
ResetTracker ==
    /\ m_state' = InitialState
    /\ registry' = <<>>
    /\ m_synced_tip' = 0
    /\ m_synced_height' = -1
    /\ m_dirty' = TRUE

SyncFails ==
    /\ ~Synced(HashAt(TipHeight))
    /\ ResetTracker
    /\ UNCHANGED chainVars

\* A restart constructs a fresh tracker over the same chain.
Restart ==
    /\ ~m_dirty
    /\ ResetTracker
    /\ UNCHANGED chainVars

Init ==
    /\ chain = <<>>
    /\ produced = 0
    /\ boundary \in Registries
    /\ m_state = InitialState
    /\ registry = <<>>
    /\ m_synced_tip = 0
    /\ m_synced_height = -1
    /\ m_dirty = TRUE

Next ==
    \/ ConnectBlock
    \/ \E reg \in Registries : ConnectPlainBlock(reg)
    \/ DisconnectBlock
    \/ Sync
    \/ SyncFails
    \/ Restart

Spec == Init /\ [][Next]_vars

-----------------------------------------------------------------------------
(* Properties.                                                             *)

Sets == [epoch : Nat \cup {NoEpoch}, weights : Registries \cup {<<>>}]
Heights == 0..MaxHeight

TypeOK ==
    /\ Len(chain) <= MaxHeight /\ produced \in 0..MaxBlocks
    /\ boundary \in Registries
    /\ \A h \in 1..Len(chain) : /\ chain[h].hash \in 1..produced
                                /\ chain[h].registry \in Registries
    /\ m_state.epoch \in Nat
    /\ \A set \in {m_state.bootstrap, m_state.previous, m_state.current,
                    m_state.next} : set \in Sets
    /\ {m_state.bootstrapped, m_state.handover_certified,
        m_state.lineage_broken} \subseteq BOOLEAN
    /\ registry \in Registries \cup {<<>>}
    /\ m_synced_height \in Heights \cup {-1}
    /\ m_dirty \in BOOLEAN

TrackerSynced == Synced(HashAt(TipHeight))

(* Restart, reindex and reconstruction reproduce the identical epoch state
   (finality_tracker.h, "Recovery model"): whenever the tracker claims to be
   synced to the tip, its incremental state is the one a walk of the chain
   gives, and its private trackers stand at the tip. *)
IncrementalMatchesWalk ==
    TrackerSynced => /\ m_state = Walk(TipHeight)
                     /\ registry = RegistryAt(TipHeight)

(* The old set authorizes the successor before the successor gains authority:
   every epoch of the chain was opened by a certificate of the epoch before,
   included below its first block, signed by a double quorum of the set then
   in force and committing to exactly the set that took over. *)
HandoverAuthorized ==
    TrackerSynced =>
        \A e \in 1..m_state.epoch :
            LET start == m_state.epoch_starts[e + 1]
                old == Walk(start - 1).current
                new == Walk(start).current
            IN  \E h \in ModernStart..(start - 1) :
                    /\ chain[h].cert.epoch = e - 1
                    /\ old.epoch = e - 1 /\ new.epoch = e
                    /\ VerifyFinalityCertificate(chain[h].cert, old, new)

(* Reaching the nominal boundary alone never rotates, and an epoch outlives
   its extension only by breaking the lineage: epochs last E to E + extension
   blocks, and no block above a broken lineage carries a certificate. *)
EpochsBounded ==
    TrackerSynced =>
        LET starts == m_state.epoch_starts
            limit == EpochBlocks + MaxEpochExtension
        IN  /\ \A i \in 1..(Len(starts) - 1) :
                  starts[i + 1] - starts[i] \in EpochBlocks..limit
            /\ m_state.lineage_broken =>
                  \A h \in (EpochStart(m_state) + limit)..TipHeight :
                      chain[h].cert = NoCert
            /\ m_state.bootstrapped /\ ~m_state.lineage_broken
                  => \/ m_state.handover_certified
                     \/ TipHeight - EpochStart(m_state) < limit

(* Block production reads the weights through SetInForceAt, validation
   through Projected: the two name the same set at the next height, stamped
   with the epoch it serves (BridgeWithdrawalValidatorSetsReady relies on the
   stamps). *)
SetInForceAgrees ==
    TrackerSynced =>
        LET height == TipHeight + 1
            p == Projected(m_state, height, registry)
        IN  /\ height >= ModernStart =>
                  SetInForceAt(m_state, height, registry) = p.current
            /\ p.bootstrapped =>
                  p.current.epoch = p.epoch /\ p.next.epoch = p.epoch + 1
=============================================================================
