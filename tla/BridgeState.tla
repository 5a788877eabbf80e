----------------------------- MODULE BridgeState -----------------------------
(***************************************************************************)
(* The bridge state tracker of a node (node/bridge_state.cpp) while the    *)
(* active chain grows, is reorganised and the node restarts.  The index is *)
(* derived from the active chain only; it is kept incrementally, undone    *)
(* from retained deltas, and rebuilt by replaying the chain when it is out *)
(* of step.  Validation accepts a bridge-active block only if it verifies  *)
(* against the index of its parent.                                        *)
(***************************************************************************)
EXTENDS BridgeLedger

CONSTANTS
    Blocks,       \* the [time, records] a block may have
    Mempool,      \* the [time, packages] a miner may assemble a block from
    MaxHeight     \* bound: the longest chain

\* The bridge records a block can carry: what decoding a payload yields.
WellFormed(r) ==
    /\ r.kind \in {"BOOTSTRAP", "UPDATE", "BACKFILL", "MINT", "BURN"}
    /\ r.kind = "UPDATE" => /\ {r.finalized, r.attested, r.signature} \subseteq Nat
                            /\ r.next \in BOOLEAN
    /\ r.kind = "BACKFILL" => {r.from, r.to} \subseteq Nat
    /\ r.kind = "MINT" => r.from \in Nat /\ r.deposit \in DOMAIN Deposits

ASSUME BlocksAssumption ==
    /\ \A b \in Blocks : /\ b.time \in Nat /\ b.records \in Seq(Range(b.records))
                          /\ \A i \in DOMAIN b.records : WellFormed(b.records[i])
    /\ \A m \in Mempool :
           /\ m.packages \in Seq(Range(m.packages))
           /\ \A i \in DOMAIN m.packages :
                  /\ m.packages[i] \in Seq(Range(m.packages[i]))
                  /\ \A j \in DOMAIN m.packages[i] : WellFormed(m.packages[i][j])

VARIABLES
    chain,        \* the active chain above genesis
    tracker       \* [index, synced, dirty]: m_index, m_synced_tip, m_dirty

vars == << chain, tracker >>

NewTracker == [index |-> EmptyIndex, synced |-> NoBlock, dirty |-> TRUE]

Init == chain = << >> /\ tracker = NewTracker

Hash(c, height) == SubSeq(c, 1, height)

\* The blocks of c in (from, Len(c)] applied to idx: none if one fails.
Replay(idx, c, from) ==
    LET after[h \in from .. Len(c)] ==
            IF h = from THEN {idx}
            ELSE UNION {ApplyBlock(i, Hash(c, h)) : i \in after[h - 1]}
    IN  after[Len(c)]

SyncStart(t, c) ==
    IF ~t.dirty /\ Len(t.synced) >= Activation - 1 /\ IsPrefix(t.synced, c)
    THEN [index |-> t.index, from |-> Len(t.synced)]
    ELSE [index |-> EmptyIndex, from |-> Activation - 1]

SyncedTo(t, c) == ~t.dirty /\ t.synced = c

\* Sync to the tip of c: the trackers it can end in, none when it fails.
Sync(t, c) ==
    IF SyncedTo(t, c) THEN {t}
    ELSE IF Len(c) < Activation
         THEN {[index |-> EmptyIndex, synced |-> c, dirty |-> FALSE]}
         ELSE LET start == SyncStart(t, c)
              IN  {[index |-> i, synced |-> c, dirty |-> FALSE] :
                       i \in Replay(start.index, c, start.from)}

\* A block that cannot be read or applied leaves an empty, dirty tracker.
Unavailable(t) == [t EXCEPT !.index = EmptyIndex, !.dirty = TRUE]

BlockConnected(t, c) ==
    IF t.dirty \/ t.synced # Front(c)
    THEN [t EXCEPT !.dirty = TRUE]
    ELSE IF Len(c) < Activation
    THEN [t EXCEPT !.synced = c]
    ELSE IF ApplyBlock(t.index, c) = {}
    THEN Unavailable(t)
    ELSE [t EXCEPT !.index = CHOOSE i \in ApplyBlock(t.index, c) : TRUE,
                   !.synced = c]

BlockDisconnected(t, c) ==
    IF t.dirty \/ t.synced # c
    THEN [t EXCEPT !.dirty = TRUE]
    ELSE IF Len(c) < Activation
    THEN [t EXCEPT !.synced = Front(c)]
    ELSE IF DisconnectBlock(t.index, c) = {}
    THEN Unavailable(t)
    ELSE [t EXCEPT !.index = CHOOSE i \in DisconnectBlock(t.index, c) : TRUE,
                   !.synced = Front(c)]

-----------------------------------------------------------------------------
(* A block below the activation height carries no bridge records and only
   passes the tracker's hook. *)
ConnectTipBefore(b) ==
    /\ Len(chain) + 1 < Activation
    /\ b.records = << >>
    /\ chain' = Append(chain, b)
    /\ tracker' = BlockConnected(tracker, chain')

(* Validation brings the tracker to the parent, verifies the block against it
   and connects it; the hook then applies the block.  A burn is also refused
   while the validator sets are not ready, which here is a block that is not
   offered. *)
ConnectTip(b) ==
    /\ Len(chain) + 1 >= Activation
    /\ Len(chain) < MaxHeight
    /\ \E t \in Sync(tracker, chain) :
           /\ VerifyBlock(t.index, Append(chain, b)).ok
           /\ chain' = Append(chain, b)
           /\ tracker' = BlockConnected(t, chain')

DisconnectTip ==
    /\ chain # << >>
    /\ chain' = Front(chain)
    /\ tracker' = BlockDisconnected(tracker, chain)

\* A caller (validation, RPC, the miner, finality) asks for the tip's state.
SyncTip ==
    /\ ~SyncedTo(tracker, chain)
    /\ tracker' = IF Sync(tracker, chain) = {} THEN Unavailable(tracker)
                  ELSE CHOOSE t \in Sync(tracker, chain) : TRUE
    /\ UNCHANGED chain

\* A block of the replay cannot be read from disk.
SyncUnreadable ==
    /\ ~SyncedTo(tracker, chain) /\ Len(chain) >= Activation
    /\ tracker' = Unavailable(tracker)
    /\ UNCHANGED chain

\* The tracker lives in memory and is created dirty.
Restart == tracker' = NewTracker /\ UNCHANGED chain

Next ==
    \/ \E b \in Blocks : ConnectTipBefore(b) \/ ConnectTip(b)
    \/ DisconnectTip \/ SyncTip \/ SyncUnreadable \/ Restart

Spec == Init /\ [][Next]_vars

-----------------------------------------------------------------------------
\* What the mints of a block, and of the blocks of an epoch, add up to.
MintedIn(records) ==
    LET total[n \in 0 .. Len(records)] ==
            IF n = 0 THEN 0
            ELSE total[n - 1] + IF records[n].kind = "MINT"
                                THEN Deposits[records[n].deposit].amount ELSE 0
    IN  total[Len(records)]

MintedInEpoch(c, epoch) ==
    LET total[h \in 0 .. Len(c)] ==
            IF h = 0 THEN 0
            ELSE total[h - 1] + IF h >= Activation /\ BridgeEpoch(h) = epoch
                                THEN MintedIn(c[h].records) ELSE 0
    IN  total[Len(c)]

\* The leaves of the burns of a block after those before it, and of a chain.
BurnedIn(before, records, height) ==
    LET leaves[n \in 0 .. Len(records)] ==
            IF n = 0 THEN before
            ELSE IF records[n].kind = "BURN"
            THEN Append(leaves[n - 1], [source |-> records[n].source, height |-> height])
            ELSE leaves[n - 1]
    IN  leaves[Len(records)]

Burned(c) ==
    LET leaves[h \in 0 .. Len(c)] ==
            IF h = 0 THEN << >> ELSE BurnedIn(leaves[h - 1], c[h].records, h)
    IN  leaves[Len(c)]

\* The indices a node that has only the chain can rebuild: at most one.
Rebuilt(c) == IF Len(c) < Activation THEN {EmptyIndex}
              ELSE Replay(EmptyIndex, c, Activation - 1)

(* A tracker that calls itself in step holds exactly what replaying the active
   chain from the activation height yields, and the deltas it retains are the
   last ones of that replay, whatever reorganisations, failed reads and
   restarts led there.  When the replay refuses a chain validation has
   connected, it refuses the tip and nothing below it, and only because the
   updates of that block together pass the backfill window: disconnecting one
   block always makes the bridge state available again.  BlockConnected,
   BlockDisconnected and Sync. *)
IncrementalMatchesReplay ==
    /\ ~tracker.dirty =>
           /\ tracker.synced = chain /\ Rebuilt(chain) # {}
           /\ \A i \in Rebuilt(chain) :
                  /\ [tracker.index EXCEPT !.history = << >>]
                         = [i EXCEPT !.history = << >>]
                  /\ IsSuffix(tracker.index.history, i.history)
    /\ Rebuilt(chain) = {} =>
           \E parent \in Rebuilt(Front(chain)) :
               ~AdvanceReachable(VerifyBlock(parent, chain))

(* The chain validation has connected can always be replayed from the activation
   height, so a restart or a reindex recovers the bridge state: what the comment
   on BridgeStateTracker says of it. *)
ConnectedChainReplays == Rebuilt(chain) # {}

(* No deposit is minted twice on an active chain, however often blocks with its
   mint were connected, undone and replayed, within a block or across blocks:
   the nullifiers of VerifyMint. *)
DepositsMintedOnce ==
    \A g, h \in DOMAIN chain :
        \A i \in DOMAIN chain[g].records, j \in DOMAIN chain[h].records :
            LET r == chain[g].records[i]
                s == chain[h].records[j]
            IN  r.kind = "MINT" /\ s.kind = "MINT" /\ r.deposit = s.deposit
                    => g = h /\ i = j

(* The mints of any block and of any mint epoch of an active chain stay within
   the caps, counted from the chain itself: AdmitConfiguredDeposit and the
   epoch accounting through undo and replay. *)
MintCapsHold ==
    \A h \in Activation .. Len(chain) :
        /\ MintedIn(chain[h].records) <= MaxPerBlock
        /\ MintedInEpoch(chain, BridgeEpoch(h)) <= MaxPerEpoch

(* The withdrawal root of a height commits exactly the burns of the active
   chain up to that height, in chain order, each source once: a certificate for
   the height and a proof built from DecentralizedWithdrawalsThrough agree. *)
RootsCommitBurns ==
    ~tracker.dirty =>
        \A h \in Activation .. Len(chain) :
            LET leaves == Burned(Hash(chain, h))
            IN  /\ tracker.index.roots[h] = leaves
                /\ DecentralizedWithdrawalsThrough(tracker.index, h) = leaves
                /\ \A i, j \in DOMAIN leaves : leaves[i].source = leaves[j].source => i = j

(* The light client never moves past a deposit it could no longer prove: every
   Ethereum block from the deployment to the accepted head lies within the
   backfill window of an anchor (test light_client_execution_jump_cannot_strand_
   deposits), and the anchor the RPC offers for it is one the chain holds. *)
NoDepositStranded ==
    \A store \in tracker.index.client :
        \A b \in Deployment .. store.block :
            \E a \in AnchorForTarget(tracker.index, b, Len(chain)) :
                a >= b /\ tracker.index.anchors[a].source - b <= MaxBackfill

(* The light client holds the committees of its own period and the next one, and
   its head is a block of its period, through older updates that only supply a
   committee and through rotations: with another committee no later Ethereum
   update would verify.  VerifyUpdate and ProcessUpdate. *)
CommitteesOfTheirPeriods ==
    \A store \in tracker.index.client :
        /\ store.current = store.period /\ Period(store.block) = store.period
        /\ store.next \subseteq {store.period + 1}

(* The light-client snapshot offered for a finalized B3 height is one the active
   chain had at that height: there is one as soon as the chain had bootstrapped
   by then, and it is exactly the newest one while the height is within the
   retained deltas.  FinalizedLightClientSnapshot with history and floor. *)
SnapshotOfFinalizedChain ==
    ~tracker.dirty =>
        \A f \in Activation .. Len(chain) :
            LET at(h) == CHOOSE i \in Replay(EmptyIndex, Hash(chain, h), Activation - 1) : TRUE
                offered == FinalizedLightClientSnapshot(tracker.index, f)
            IN  /\ offered = {} <=> at(f).client = {}
                /\ \A s \in offered :
                       /\ IsPrefix(s.at, chain) /\ Len(s.at) <= f
                       /\ {s.store} = at(Len(s.at)).client
                       /\ f + Len(tracker.index.history) >= Len(chain) =>
                              s.at = at(f).connection

(* A block assembled from packages with the preview verifies: a rejected package
   leaves nothing behind in the overlay that a later one then builds on.
   BridgeBlockPreview::TryAppend against VerifyBlock. *)
AssembledBlockVerifies ==
    SyncedTo(tracker, chain) /\ Len(chain) + 1 >= Activation =>
        \A m \in Mempool :
            LET preview == Append(chain, [time |-> m.time, records |-> << >>])
                records == Assembled(tracker.index, m.packages, preview, m.time)
            IN  VerifyBlock(tracker.index,
                            Append(chain, [time |-> m.time, records |-> records])).ok
=============================================================================
