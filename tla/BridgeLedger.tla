---------------------------- MODULE BridgeLedger ----------------------------
(***************************************************************************)
(* The bridge index of node/bridge_state.cpp as pure operators: what the   *)
(* bridge records of a block do to the index, the delta kept for undoing   *)
(* the block, and the queries the node answers from the index.             *)
(*                                                                         *)
(* Abstractions.  A B3 block is [time, records] and its hash is the chain  *)
(* up to and including it, so a block "hash" is a sequence of blocks and   *)
(* its length is its height.  Ethereum is its canonical chain: the slot,   *)
(* number, hash, receipts root and timestamp of an execution block are one *)
(* number, and a record carries only proofs that verify against it (Merkle *)
(* branches, BLS signatures and receipts are external).  The Merkle root of*)
(* the withdrawal tree is the sequence of its leaves.  Withdrawals are in  *)
(* the mode mainnet pins, DECENTRALIZED_VERIFIER_V1.                       *)
(***************************************************************************)
EXTENDS Naturals, Sequences, FiniteSets, SequencesExt

CONSTANTS
    Activation,       \* activation_height: the first height with bridge rules
    WithdrawalStart,  \* the outbound height W: the first height with burns
    LastApproval,     \* approval_last_height of the registry entry
    UndoBlocks,       \* BRIDGE_STATE_UNDO_BLOCKS
    Deployment,       \* origin_deployment_block of the vault
    Checkpoint,       \* the pinned trusted checkpoint
    LastForkSlot,     \* the end of the pinned Ethereum fork schedule
    PeriodSlots,      \* slots of a sync-committee period
    MaxBackfill,      \* MAX_BRIDGE_CUMULATIVE_BACKFILL_BLOCKS
    MaxHeaders,       \* MAX_BRIDGE_EXECUTION_ANCESTRY_HEADERS
    MaxSyncLag,       \* how old the Ethereum head may be when a mint uses it
    EpochLength,      \* epoch_length_blocks of the mint caps
    MaxPerBlock,      \* max_per_block
    MaxPerEpoch,      \* max_per_epoch
    Deposits          \* deposit id -> [block, amount], the vault's Deposit log

ASSUME BridgeAssumption ==
    /\ Activation \in Nat \ {0} /\ WithdrawalStart \in Nat
    /\ WithdrawalStart >= Activation /\ LastApproval \in Nat
    /\ {Deployment, Checkpoint, LastForkSlot, MaxBackfill, MaxSyncLag,
        MaxPerBlock, MaxPerEpoch} \subseteq Nat
    /\ UndoBlocks \in Nat \ {0} /\ PeriodSlots \in Nat \ {0}
    /\ MaxHeaders \in Nat \ {0} /\ EpochLength \in Nat \ {0}
    /\ \A d \in DOMAIN Deposits : /\ Deposits[d].block \in Nat
                                  /\ Deposits[d].amount \in Nat \ {0}

\* An optional value is a set of at most one element.
NoBlock == << >>

\* A map is a function: with the entries of g written over those of f, and
\* without the keys in S.
NoEntries == [k \in {} |-> k]
With(f, g) == [k \in DOMAIN f \union DOMAIN g |-> IF k \in DOMAIN g THEN g[k] ELSE f[k]]
Without(f, S) == Restrict(f, DOMAIN f \ S)

EmptyIndex == [client |-> {}, connection |-> NoBlock, floor |-> {},
               anchors |-> NoEntries, nullifiers |-> NoEntries, minted |-> NoEntries,
               tree |-> << >>, roots |-> NoEntries, tip |-> NoBlock,
               history |-> << >>]

-----------------------------------------------------------------------------
(* The Ethereum light client. *)

Period(slot) == slot \div PeriodSlots
SlotUsesKnownFork(slot) == slot <= LastForkSlot

UpdateUsesKnownFork(u) ==
    /\ u.signature > 0
    /\ \A slot \in {u.signature - 1, u.attested, u.finalized} : SlotUsesKnownFork(slot)

(* A store holds the head, its period, and the committees it verifies with: a
   committee is named by the period it signs in, and the state of a period
   proves the committee of the next one. *)
InitStore == [block |-> Checkpoint, period |-> Period(Checkpoint),
              current |-> Period(Checkpoint), next |-> {}]

\* An older update may still supply the missing next committee of its period.
FillsNextCommittee(store, u) ==
    /\ u.next /\ store.next = {}
    /\ \A slot \in {u.attested, u.finalized, u.signature} : Period(slot) = store.period

UpdateVerifies(store, u) ==
    /\ u.signature > u.attested /\ u.attested >= u.finalized
    /\ u.finalized < store.block => FillsNextCommittee(store, u)
    /\ u.next => Period(u.attested) = Period(u.signature)
    /\ \/ Period(u.signature) = store.period /\ Period(u.signature) = store.current
       \/ Period(u.signature) = store.period + 1 /\ Period(u.signature) \in store.next
    /\ Period(u.finalized) \in {store.period, store.period + 1}
    /\ Period(u.finalized) = store.period + 1 => store.next # {}

\* The mutant rotates and keeps the committee it rotated to as the next one.
NextNotReset(store, rotates) == store.next

NextKept(store, rotates) == IF rotates THEN {} ELSE store.next

ProcessUpdate(store, u) ==
    LET rotates == Period(u.finalized) = store.period + 1
        period  == IF rotates THEN store.period + 1 ELSE store.period
        kept    == NextKept(store, rotates)
        learned == {q + 1 : q \in {q \in {Period(u.attested)} : u.next /\ q = period}}
    IN  [block   |-> IF u.finalized >= store.block THEN u.finalized ELSE store.block,
         period  |-> period,
         current |-> IF rotates THEN CHOOSE p \in store.next : TRUE ELSE store.current,
         next    |-> IF kept # {} THEN kept ELSE learned]

-----------------------------------------------------------------------------
(* Execution anchors. *)

\* An update may advance the head as far as it likes.
RangeUnbounded(newer, older) == newer >= older

ExecutionRangeReachable(newer, older) ==
    newer >= older /\ newer - older <= MaxBackfill

\* Decoding bounds the headers a record may carry.
AncestryDecodes(from, to) == from - to < MaxHeaders

\* The headers of a record walk from the anchor down to the target.
AncestryFits(from, to) == from >= to /\ AncestryDecodes(from, to)

CumulativeTargetAllowed(anchor, to) ==
    to <= anchor.source /\ anchor.source - to <= MaxBackfill

AddAnchor(s, block, source, at) ==
    IF block \in DOMAIN s.anchors
    THEN s
    ELSE [s EXCEPT !.anchors = With(@, [b \in {block} |-> [source |-> source, at |-> at]])]

-----------------------------------------------------------------------------
(* The records of a block, verified in order against a scratch state. *)

BridgeEpoch(height) == (height - Activation) \div EpochLength

Lookup(f, k) == IF k \in DOMAIN f THEN f[k] ELSE 0

Scratch(idx) == [client |-> idx.client, anchors |-> idx.anchors,
                 nullifiers_base |-> DOMAIN idx.nullifiers,
                 nullifiers_overlay |-> {}, minted |-> idx.minted,
                 minted_this_block |-> 0, tree |-> idx.tree, ok |-> TRUE]

VerifyBootstrap(s, at) ==
    IF /\ s.client = {}
       /\ SlotUsesKnownFork(Checkpoint)
       /\ ExecutionRangeReachable(Checkpoint, Deployment)
    THEN AddAnchor([s EXCEPT !.client = {InitStore}], Checkpoint, Checkpoint, at)
    ELSE [s EXCEPT !.ok = FALSE]

VerifyUpdate(s, u, at) ==
    LET old == CHOOSE store \in s.client : TRUE
        new == ProcessUpdate(old, u)
    IN  IF /\ s.client # {}
           /\ UpdateUsesKnownFork(u) /\ UpdateVerifies(old, u) /\ new # old
           /\ new.block # old.block => ExecutionRangeReachable(new.block, old.block)
        THEN LET t == [s EXCEPT !.client = {new}]
             IN  IF new.block # old.block
                 THEN AddAnchor(t, new.block, new.block, at) ELSE t
        ELSE [s EXCEPT !.ok = FALSE]

VerifyBackfill(s, r, at) ==
    IF /\ r.from \in DOMAIN s.anchors
       /\ AncestryFits(r.from, r.to)
       /\ CumulativeTargetAllowed(s.anchors[r.from], r.to)
       /\ r.to \notin DOMAIN s.anchors
    THEN AddAnchor(s, r.to, s.anchors[r.from].source, at)
    ELSE [s EXCEPT !.ok = FALSE]

FinalizedHeadFresh(store, time) == time <= store.block \/ time - store.block <= MaxSyncLag

\* The mutant charges the epoch with the amounts of earlier blocks only.
DepositAdmittedPerBlock(s, amount, epoch) ==
    /\ s.minted_this_block <= MaxPerBlock
    /\ amount <= MaxPerBlock - s.minted_this_block
    /\ amount <= MaxPerEpoch

AdmitConfiguredDeposit(s, amount, epoch) ==
    /\ s.minted_this_block <= MaxPerBlock
    /\ amount <= MaxPerBlock - s.minted_this_block
    /\ Lookup(s.minted, epoch) <= MaxPerEpoch
    /\ amount <= MaxPerEpoch - Lookup(s.minted, epoch)

\* The mutant looks only at the mints of this block.
NullifiedInBlock(s, deposit) == deposit \in s.nullifiers_overlay

IsNullified(s, deposit) ==
    deposit \in s.nullifiers_overlay \/ deposit \in s.nullifiers_base

VerifyMint(s, r, at, time) ==
    LET deposit == Deposits[r.deposit]
        epoch   == BridgeEpoch(Len(at))
    IN  IF /\ deposit.block >= Deployment
           /\ \E store \in s.client : /\ SlotUsesKnownFork(store.block)
                                      /\ FinalizedHeadFresh(store, time)
           /\ r.from \in DOMAIN s.anchors
           /\ AncestryFits(r.from, deposit.block)
           /\ CumulativeTargetAllowed(s.anchors[r.from], deposit.block)
           /\ Len(at) <= LastApproval
           /\ AdmitConfiguredDeposit(s, deposit.amount, epoch)
           /\ ~IsNullified(s, r.deposit)
        THEN [s EXCEPT !.nullifiers_overlay = @ \union {r.deposit},
                       !.minted_this_block = @ + deposit.amount,
                       !.minted = With(@, [e \in {epoch} |-> Lookup(@, e) + deposit.amount])]
        ELSE [s EXCEPT !.ok = FALSE]

VerifyBridgeBurn(s, r, at) ==
    IF /\ Len(at) >= WithdrawalStart
       /\ \A i \in DOMAIN s.tree : s.tree[i].source # r.source
    THEN [s EXCEPT !.tree = Append(@, [source |-> r.source, height |-> Len(at)])]
    ELSE [s EXCEPT !.ok = FALSE]

VerifyBridgeTransaction(s, r, at, time) ==
    IF ~s.ok THEN s
    ELSE CASE r.kind = "BOOTSTRAP" -> VerifyBootstrap(s, at)
           [] r.kind = "UPDATE"    -> VerifyUpdate(s, r, at)
           [] r.kind = "BACKFILL"  -> VerifyBackfill(s, r, at)
           [] r.kind = "MINT"      -> VerifyMint(s, r, at, time)
           [] r.kind = "BURN"      -> VerifyBridgeBurn(s, r, at)

Verified(s, records, at, time) ==
    LET after[n \in 0 .. Len(records)] ==
            IF n = 0 THEN s ELSE VerifyBridgeTransaction(after[n - 1], records[n], at, time)
    IN  after[Len(records)]

-----------------------------------------------------------------------------
(* The delta of a block, its connection and its undo. *)

\* The delta of the block at the end of `at' whose records left the scratch
\* state s; `at' is the hash of that block.
DeltaOf(idx, at, s) ==
    LET lc    == s.client # idx.client
        epoch == BridgeEpoch(Len(at))
    IN  [ok       |-> Len(at) >= Activation /\ s.ok,
         block    |-> at,
         previous |-> idx.tip,
         light_client_changed |-> lc,
         client_before        |-> idx.client,
         client_after         |-> s.client,
         connection_before    |-> idx.connection,
         connection_after     |-> IF lc THEN at ELSE idx.connection,
         anchors_added    |-> Restrict(s.anchors, DOMAIN s.anchors \ DOMAIN idx.anchors),
         nullifiers_added |-> s.nullifiers_overlay,
         epoch_changes    |-> [e \in {e \in {epoch} : s.minted_this_block > 0} |->
                                  [before |-> Lookup(idx.minted, e), after |-> s.minted[e]]],
         tree_before |-> idx.tree,
         tree_after  |-> s.tree]

VerifyBlock(idx, at) ==
    DeltaOf(idx, at, Verified(Scratch(idx), Last(at).records, at, Last(at).time))

\* What ConnectBlock checks of a delta before it changes anything: that it
\* extends this index,
DeltaExtends(idx, d) ==
    /\ d.previous = idx.tip
    /\ idx.tip # NoBlock => Len(d.block) = Len(idx.tip) + 1
    /\ d.client_before = idx.client /\ d.connection_before = idx.connection
    /\ DOMAIN d.anchors_added \intersect DOMAIN idx.anchors = {}
    /\ d.nullifiers_added \intersect DOMAIN idx.nullifiers = {}
    /\ \A e \in DOMAIN d.epoch_changes : d.epoch_changes[e].before = Lookup(idx.minted, e)
    /\ d.tree_before = idx.tree
    /\ Len(d.block) \notin DOMAIN idx.roots

\* and that all the updates of the block together stay within the backfill
\* window, which VerifyUpdate has checked of each of them only.
AdvanceReachable(d) ==
    d.light_client_changed =>
        \A before \in d.client_before, after \in d.client_after :
            after.block # before.block => ExecutionRangeReachable(after.block, before.block)

DeltaFits(idx, d) == DeltaExtends(idx, d) /\ AdvanceReachable(d)

Retained(h) == IF Len(h) > UndoBlocks THEN Tail(h) ELSE h

ConnectBlock(idx, d) ==
    [client     |-> d.client_after,
     connection |-> d.connection_after,
     floor      |-> IF d.light_client_changed /\ idx.floor = {}
                    THEN {[store |-> s, at |-> d.block] : s \in d.client_after}
                    ELSE idx.floor,
     anchors    |-> With(idx.anchors, d.anchors_added),
     nullifiers |-> With(idx.nullifiers, [n \in d.nullifiers_added |-> d.block]),
     minted     |-> With(idx.minted,
                         [e \in DOMAIN d.epoch_changes |-> d.epoch_changes[e].after]),
     tree       |-> d.tree_after,
     roots      |-> With(idx.roots, [h \in {Len(d.block)} |-> d.tree_after]),
     tip        |-> d.block,
     history    |-> Retained(Append(idx.history, d))]

\* ApplyBlock: at most one index, none when the block does not verify.
ApplyBlock(idx, at) ==
    LET d == VerifyBlock(idx, at)
    IN  IF d.ok /\ DeltaFits(idx, d) THEN {ConnectBlock(idx, d)} ELSE {}

\* The mutant keeps the floor of a light-client change it undoes.
UndoneKeepingFloor(idx, d) == idx.floor

UndoneFloor(idx, d) ==
    {f \in idx.floor : ~(d.light_client_changed /\ f.at = d.connection_after)}

\* The mutant removes an epoch's account with the block's mint in it.
UndoneErasingEpoch(idx, d) == Without(idx.minted, DOMAIN d.epoch_changes)

UndoneMinted(idx, d) ==
    LET restored == {e \in DOMAIN d.epoch_changes : d.epoch_changes[e].before > 0}
    IN  With(Without(idx.minted, DOMAIN d.epoch_changes),
             [e \in restored |-> d.epoch_changes[e].before])

\* The mutant leaves the withdrawals of an undone block in the tree.
UndoneKeepingTree(idx, d) == idx.tree

UndoneTree(idx, d) == d.tree_before

DisconnectBlock(idx, at) ==
    LET d == Last(idx.history)
    IN  IF /\ idx.tip = at
           /\ idx.history # << >> /\ d.block = at
           /\ idx.tree = d.tree_after
           /\ Len(at) \in DOMAIN idx.roots /\ idx.roots[Len(at)] = d.tree_after
           /\ \A e \in DOMAIN d.epoch_changes : Lookup(idx.minted, e) = d.epoch_changes[e].after
           /\ \A n \in d.nullifiers_added : n \in DOMAIN idx.nullifiers /\ idx.nullifiers[n] = at
           /\ Restrict(idx.anchors, DOMAIN d.anchors_added \intersect DOMAIN idx.anchors)
                  = d.anchors_added
           /\ idx.client = d.client_after /\ idx.connection = d.connection_after
        THEN {[client     |-> d.client_before,
               connection |-> d.connection_before,
               floor      |-> UndoneFloor(idx, d),
               anchors    |-> Without(idx.anchors, DOMAIN d.anchors_added),
               nullifiers |-> Without(idx.nullifiers, d.nullifiers_added),
               minted     |-> UndoneMinted(idx, d),
               tree       |-> UndoneTree(idx, d),
               roots      |-> Without(idx.roots, {Len(at)}),
               tip        |-> d.previous,
               history    |-> Front(idx.history)]}
        ELSE {}

-----------------------------------------------------------------------------
(* What the node answers from the index. *)

\* FinalizedLightClientSnapshot: the current store, else the newest side of a
\* retained delta, else the floor, whichever B3 height f covers first.
FinalizedLightClientSnapshot(idx, f) ==
    LET Eligible(client, at) ==
            {[store |-> s, at |-> at] : s \in {s \in client : Len(at) <= f}}
        current == Eligible(idx.client, idx.connection)
        Side(d) ==
            LET after == Eligible(d.client_after, d.connection_after)
            IN  IF after # {} THEN after
                ELSE Eligible(d.client_before, d.connection_before)
        usable == {i \in DOMAIN idx.history : /\ idx.history[i].light_client_changed
                                              /\ Side(idx.history[i]) # {}}
    IN  IF current # {} THEN current
        ELSE IF usable # {}
             THEN Side(idx.history[CHOOSE i \in usable : \A j \in usable : j <= i])
             ELSE {s \in idx.floor : Len(s.at) <= f}

\* AnchorForTarget: the nearest anchor at or above the target that B3 height f
\* covers and that can still reach it.
AnchorForTarget(idx, target, f) ==
    LET usable == {b \in DOMAIN idx.anchors :
                      /\ b >= target /\ Len(idx.anchors[b].at) <= f
                      /\ CumulativeTargetAllowed(idx.anchors[b], target)}
    IN  {b \in usable : \A other \in usable : b <= other}

\* DecentralizedWithdrawalsThrough: the leaves a proof is built from, up to the
\* first one that a later block added.
DecentralizedWithdrawalsThrough(idx, height) ==
    LET later == {i \in DOMAIN idx.tree : idx.tree[i].height > height}
    IN  IF later = {} THEN idx.tree
        ELSE SubSeq(idx.tree, 1, (CHOOSE i \in later : \A j \in later : i <= j) - 1)

-----------------------------------------------------------------------------
(* The block a miner assembles from packages, each a sequence of records. *)

\* The mutant keeps the state a rejected package left behind.
AppendKeepingScratch(preview, package, at, time) ==
    LET trial == Verified(preview.state, package, at, time)
    IN  IF trial.ok
        THEN [state |-> trial, records |-> preview.records \o package]
        ELSE [preview EXCEPT !.state = [trial EXCEPT !.ok = TRUE]]

\* TryAppend: a package goes in whole or leaves the preview alone.
TryAppend(preview, package, at, time) ==
    LET trial == Verified(preview.state, package, at, time)
    IN  IF trial.ok
        THEN [state |-> trial, records |-> preview.records \o package]
        ELSE preview

Assembled(idx, packages, at, time) ==
    LET after[n \in 0 .. Len(packages)] ==
            IF n = 0 THEN [state |-> Scratch(idx), records |-> << >>]
            ELSE TryAppend(after[n - 1], packages[n], at, time)
    IN  after[Len(packages)].records
=============================================================================
