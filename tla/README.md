# TLA+ models of B3 cross-chain finality and its bridge

B3-CoinV2 is a Bitcoin Core derivative whose modern chain (proof of stake, from
height `M` on) carries a finality gadget: validators sign checkpoints with BLS
keys, a quorum becomes a certificate in a coinbase, certificates pin fork
choice and hand authority from one validator set to the next, and an Ethereum
bridge trusts them. This directory models that gadget and both ends of the
bridge, checks them with TLC and proves their safety with TLAPS.
Paths below are relative to `src/src/` unless they start with `doc/` or
`contracts/` (`src/doc/`, `src/contracts/`).

## The system

| Component | State | Operations | Module |
|---|---|---|---|
| Finality rules (`modern/finality_schedule.h`, `finality_certificate.h`, `finality_types.h`) | none | epoch of a height, checkpoint heights, burial, double quorum, placement and judgement of a certificate | `FinalitySchedule` |
| Finality tracker (`node/finality_tracker.*`, `node/validator_set.*`) | epoch, its start heights, previous/current/next set, handover flag, finalized checkpoint; synced tip, dirty flag, private stake and binding trackers | block connected/disconnected, `Sync`, `Reset`, `Projected`, `SetInForceAt` | `FinalityEpochs`, `FinalityTracker` |
| Signer journal (`node/finality_signer_store.*`) | one file, its cached copy | open, commit of a vote, of a certified anchor, of a recovery anchor | `FinalitySignerStore` |
| Signer (`node/finality_signature.cpp` from 319 on) | where a pass stands, permanent error, operator's approval | `SetKeysPersistent`, `EnsurePersistentSafety`, `MaybeSign`, two recoveries | `FinalitySigner`, `FinalityVoter` |
| Signature pool (`node/finality_signature.cpp` to 317) | up to eight checkpoints with their verified signatures | `Submit`, `BestCertificate`, `VerifiedCheckpoints`, `RelayableSignatures` | `FinalityPool` |
| Pin and fork choice (`node/finality_pin.*`, parts of `node/blockstorage.cpp`, `validation.cpp`) | pin in memory and on disk, block index, tip, candidates, flushed state | header check, `ActivateBestChain` step by step, unwinding, `InvalidateBlock`, flush, crash, reindex | `FinalityPin` |
| The network of validators (signer, miner and tracker together) | blocks with certificates, every journal, all votes | produce a block, vote, unlock | `FinalityAgreement` |
| Signature transport (`node/finality_transport.*`, `net_processing.cpp`) | votes waiting for their block or depth with their sources, per-peer counts; one export of the pool, a dirty flag, a cursor per peer | `finsig` received, the pass once a second, disconnect; replay to a peer, relay of own votes | `FinalityTransport`, `FinalityRelay` |
| Bridge state (`node/bridge_state.*`, `bridge/admission.h`, `bridge/eth_light_client.h`, `bridge/exec_chain.h`) | light client, execution anchors, nullifiers, epoch mint accounts, withdrawal tree and roots, retained deltas, synced tip, dirty flag | verify, connect and undo a block, `Sync`, snapshots and anchors for relayers, the miner's preview | `BridgeLedger`, `BridgeState` |
| Ethereum contracts (`contracts/src/B3FinalityVerifier.sol`, `B3StakerBridge.sol`) with the B3 side | verifier: epoch, current and next set, latest and bridge root, times; vault: locked amount, released ids | `initialize`, `submitCertificate`, `deposit`, `release`; B3 blocks, reorganisations, certificates | `BridgeCustody` |
| Stake and binding registries, staking loop, relayer, FlowMesh, inherited node | | | not modelled, see the end and `PROJECT.json` |

How the parts interact. Block connection (`validation.cpp`, under `cs_main`)
syncs the tracker to the parent, judges the certificate in the coinbase
against the projected epoch state, and raises the pin from the tracker's
finalized checkpoint. A pass of the staking loop syncs the tracker, lets the
signer compare its journal with the chain, sign, journal and submit to the
pool. The pool also receives votes from peers and is replayed to them. The
miner asks it for the best certificate and puts that into the next coinbase.
Fork choice excludes branches off the pin.

Bridge records (light-client updates, backfills, mints, burns) are ordinary
transactions whose effect on the bridge index is a function of the active
chain. A certificate signs the withdrawal root of its height; relayers carry
certificates to the verifier and Ethereum proofs to B3; the vault pays a burn
that is under the verifier's bridge root.

What is hard here:

- a vote leaves the process only after its journal entry is durable, through
  crashes at every disk step, power loss, corruption and outside edits;
- reorganisations between two reads: of the signer, of the pool's slots, of
  the tracker's incremental state;
- several validators on several branches whose locks hold, move and expire in
  any order; an old and a new validator set active on different branches;
- a pin written at once next to an index flushed about once an hour;
- a bounded pool, and a bounded area before it, under repeated, forged, early,
  late and obsolete votes; two threads that share one relay flag;
- bridge state that is undone from deltas, abandoned and replayed, and has to
  come out the same on every node;
- two chains that see each other late, through relayers who may skip, reorder
  or stop;
- boundaries: the last block of an epoch, of its extension, the rounding of
  the quorum, the oldest slot of a full pool.

What makes each part correct is stated as its properties below; the hazards,
each at its line and with the properties that cover it, are in `PROJECT.json`.

## Modules

All modules follow the code's names. `PROJECT.json` maps every definition to
its lines.

Common abstractions. A hash stands for what it commits to: a validator-set
hash is the set with its epoch stamp, a finality digest is the
`FinalizedBlock`, and a block hash also stands for the withdrawal root below
it. A BLS signature is genuine (author and object) or not. Message layouts,
encodings, checksums and log lines are left out. Weights are small integers;
the sums of the code cannot overflow 64 bits for sets of at most
`MAX_FINALITY_SET` members.

**FinalitySchedule** holds the pure rules. `CheckCertificatePlacement` and
`JudgeFinalityCertificate` keep all conditions of the code, in their order.

**FinalityEpochs** is the const half of `FinalityTracker`: the epoch state as
a function of the chain (`Projected`, `ApplyModern`, `StateFrom`). A block is
its hash, its certificate and the registry (validator to weight) as of it.

**FinalityTracker** is the stateful half. `ConnectBlock` is `ConnectBlock` and
`ConnectTip` for a block with modern evidence (sync, judge, apply, then step
the private trackers), `ConnectPlainBlock` a block connected whatever the
tracker's state, `DisconnectBlock` only marks dirty, `SyncFails` is a block that cannot be
read half-way. `TrackBlock` may fail before or after the state has been
advanced, which leaves it dirty and half-way. Producers may try any certificate of `Candidates`: wrong
blocks, wrong sets and insufficient signers are among them.

**FinalityViews** is what both the signer and the pool derive from a view, the
active chain with the tracker's state read under one lock.

**FinalitySignerStore** holds the journal (last vote and ancestry lock), what
each commit operation demands and writes, and the file: `file` is what an
open sees, `stable` what survives a power loss. Writing is two steps, rename
and directory flush, with a crash possible between any two.

**FinalitySigner** is the signer. One pass is `EnterPass` (or an unlock, or
`InitializeEmpty`), then `Sign`/`Rename`/`SyncDirectory`/`Submit` per
checkpoint, then `EndPass`. A pass skips a checkpoint whose key is not loaded
or whose withdrawal root is not to be had, so `Sign` may take any candidate and
`EndPass` may leave some. `cs_main` is held during a pass, so the view
changes only between passes. `votes` and `moves` are history variables.

**FinalityVoter** is the abstract specification of a signer: votes at strictly
rising heights, in non-decreasing epochs, in one set per epoch. `VoterSpec`
in `FinalitySigner` is that specification under the mapping
`Checkpoint <- Offered`.

**FinalityPool** is the pool under a changing view. `SubmitAccepted` is the
whole of `Submit` when it returns `ACCEPTED`: prune, drop slots the view no
longer derives, deduplicate, make room, verify, store. The other two actions
are the outcomes that return before and after the slots have been swept; any
admissible vote may be put off by the verification budget.

**FinalityPin** is fork choice around the pin. A block is the path of ranks
that leads to it (rank: the order of siblings by recovery round and hash), so
ancestry is the prefix relation, and work is height because the proof of a
modern block is constant. `ActivateBestChain` is split where `cs_main` can be
released or the process can die. Every block is valid, header and body arrive
together, and an unflushed block file may or may not survive a crash. The
pin's own write is atomic and durable. Wherever the code raises the pin it asks
the tracker first, which may fail to sync: then nothing is raised
(`RefreshFinalityAnchor`). `InvalidateBlock` is one step. The code releases
`cs_main` after each block it disconnects, but it holds the chainstate mutex, so
nothing is activated or pinned in between; only blocks may arrive.

**FinalityAgreement** is the network. The tree of blocks, with the epoch and
sets of each, is a constant; which are produced, which certificates they
carry, who votes on which branch and who unlocks is not. A journal is reduced
to what `FinalitySigner` shows of it: last vote and lock, never taken back.
Faulty validators have signed everything. A validator whose lock a recovery
moved counts as faulty, pins and fork choice are left out (validators may
follow any branch), so agreement does not depend on them.

**FinalityTransport** extends `FinalityPool` by the way votes reach it. A
received `finsig` is one action per outcome of `Submit`: accepted, early,
deferred, refused; early and deferred ones enter the holding area (`Add`). A
pass (`Retry`, `RetryTaking`) is `Expire` and `TakeReadyWithSources` followed
by `Submit` of each vote taken. Time and token buckets are choices: any entry
may lapse at any pass, any may be passed over, a batch is any that the limits
allow. `lapsed` is a history variable.

**FinalityRelay** extends `FinalityPool` by the way votes leave it:
`MaybeFinalityTransport`'s replay with its export, tip and flag (a replay is
the selection under `cs_main`; the messages are pushed right after), and the
staking thread, whose `MaybeSign` and `RelayFinalitySignatures` are two steps.
`RelayAssumption` says that a tip's hash names one view: the chain, and with it
the state the tracker derives from it.

**BridgeLedger** is the bridge index as pure operators: a scratch state that
the records of a block change in order, the delta, connection and undo, and
the queries. The hash of a B3 block is the chain up to it, an Ethereum block is
its number, and the Merkle root of the tree is the sequence of its leaves, so
equal hashes mean equal content. Records carry proofs that verify; what is
left to decide is which block, which anchor, which committee, how much. It
models the withdrawal mode mainnet pins, with one asset. The maps of the code
are functions (`With`, `Without`), its loops over records, packages and blocks
recursive functions, so that the proofs can follow them round by round.

**BridgeState** is the tracker over a chain that grows, is reorganised, fails
to be read and restarts. `ConnectTip` is `ConnectBlock` with the tracker's hook.
`BlocksAssumption` says that the records of blocks and of mempool packages are
what decoding yields (`WellFormed`); it does not say that they verify.
Validation connects what `VerifyBlock` accepts. The tracker's `ConnectBlock`
also demands that the updates of the block together stay within the backfill
window (`AdvanceReachable`), so it may refuse a block that is already the tip;
the tracker is then dirty and no block goes on top until that one is
disconnected.

**BridgeCustody** puts both ends together. `b3` is the active chain, and blocks
of it may be replaced by another branch at any height. The pin is left out: it
forbids a node to leave the certificates its own blocks carried, but a
certificate in a relayer's hands pins nothing, and two nodes may have carried
different ones. So the module covers every reorganisation a node can make, and
more. A certificate keeps the block it was signed for, with everything
below it, and may be carried, relayed or both, by anyone and at any time, also
when its branch is gone. The verifier compares no ancestry, as in the code.

One thing is assumed of the certificates (`SetAgrees`, a conjunct of `Certify`):
*one set* does not certify two branches, which is `Agreement` of
`FinalityAgreement` under its `FaultBound`. Nothing is assumed across sets: the
run `agreement_across_sets` shows that a set and its successor can certify on two
branches. From `BridgeState` the module takes that a deposit is minted once per
branch and that the root of a block lists the burns below it. `Projected` repeats
the epoch rules of `FinalityEpochs` with a validator set reduced to its epoch and
its members, of which only whether they meet the bridge thresholds matters.
`MayCarry` judges a certificate against the projected state. A block admits one
burn or none. The verifier and the vault keep all their conditions.

## Runs

All runs finish within four minutes on two cores.

| Run | Instance | What it shows |
|---|---|---|
| `tracker` | chains up to 6 blocks, at most 6 produced, 3 registries (equal, dominated, below the floor), epochs of 2 blocks with an extension of 2, `M` = 2 | the incremental state is the one a walk gives (`IncrementalMatchesWalk`), every epoch was authorised by its predecessor (`HandoverAuthorized`), epochs stay in bounds (`EpochsBounded`), production and validation read one set (`SetInForceAgrees`) |
| `signer` | three chains forking above block 1, one rotating, every prefix a view; a pinned and an operator's recovery; crash, power loss, corruption anywhere | `NoEquivocation`, `VoteIsDurable`, `LockRespected`, and the refinement `VoterSpec` |
| `pool` | the votes, genuine and forged, of two forking chains, one rotating twice so that an index changes its meaning; two views of each; room for 2 checkpoints; one restart | the certificate assembled verifies on the view that reads it (`BestVerifies`), verified votes yield only to newer ones (`VerifiedWorkKept`), and the newest signed checkpoint finds its certificate (`NewestCertified`) |
| `pin` | two branches of 4 with conflicting certificates, horizon 3, failing pin writes, a tracker that fails to sync | `PinNeverForgotten`, `FinalizedNeverDisconnected`, `PinsFormChain`, and that the tip returns to the pinned branch (`PinEnforced`) |
| `agreement` | 4 validators, 1 faulty, branches of 5 and 3 blocks in one epoch | `Agreement`, `ConflictsPassed` |
| `transport` | votes of both sides of a fork, genuine and forged, 2 peers, 4 deliveries, an area of 2 entries, one per peer and coordinate, a pool of 1 | counts and quotas are exact (`QuotaExact`), what the pool would replay is accepted by a peer (`RelayAccepted`), no genuine vote is lost (`NoGenuineVoteLost`), an early vote comes to count (`EarlyVoteCounts`) |
| `relay` | the same fork, 2 peers, own and foreign votes, batches of 2, one reconnection | a replay is current on the view that selects it (`ReplayIsCurrent`), every verified vote is replayed to every peer for ever (`VotesReplayed`) |
| `bridge` | chains up to 7 blocks of 18 kinds from height 2, some with two updates, 2 retained deltas, an Ethereum chain of 8 blocks in periods of 4, 3 deposits, 2 burns | `IncrementalMatchesReplay`, `DepositsMintedOnce`, `MintCapsHold`, `RootsCommitBurns`, `NoDepositStranded`, `CommitteesOfTheirPeriods`, `SnapshotOfFinalizedChain`, `AssembledBlockVerifies` |
| `custody` | 5 B3 blocks, branches that share the first 2, epochs of 2 with an extension of 2, a checkpoint in every second block, up to 3 certificates, two kinds of set of which one qualifies, one deposit and burns of one token, 3 units of time | `CustodyBalanced`, `VerifierFollowsLineage`, `AcceptedBurnsReleasable`, and that burns under the bridge root are paid, also when relaying has stopped (`AcceptedBurnReleased`) |

Three runs end in a counterexample on purpose; see Findings.

Why these bounds are enough to be interesting. Tracker: six blocks hold a
bootstrap, a handover, a full extension, a lineage break, a carried-over set
and a delayed certificate, with reorganisations below each. Signer: the chains
are long enough for two votes on one branch, an unlock by a certificate of the
other, both recoveries and votes after them; checkpoint interval and depth are
1 so that every block counts. Pool: four open checkpoints compete for two
slots (the code: eight). Pin: the conflicting branch can become heavier both
before and after the pin rises, and a crash can take back the pinned block.
Agreement: with four validators the quorum is three, the smallest set that
tolerates a fault; two branches of three blocks above the fork allow a vote on
each side, an unlock and a second vote. Transport: two forged variants and a
genuine vote compete for one entry per peer and one try per coordinate, over a
fork that changes what a vote is for. Relay: an export longer than a batch, an
equal-height reorganisation, and both orders of the two threads. Bridge: the
chain is long enough for a bootstrap, an update, a rotation, a mint, a burn and a
reorganisation deeper than the two retained deltas; blocks are offered that
break each cap, mint a deposit twice, jump too far or come with a stale head.
Two updates whose sum passes the window are offered in one block, and also after
a bootstrap in the same block, where the code compares with nothing.
Custody: three epochs are entered, so a set that does not qualify can certify
over a root that has burns, and the clock runs out of the epoch lag; three
certificates at checkpoint distance 2 allow an old and a new set to certify on
two branches above the handover (`MinForkHeight` only spares branches that part
before anything can be certified), and all three to be accepted in either order
of relaying. Mainnet uses a block interval of 60 s,
a checkpoint every 10 blocks at depth 12, and epochs and a reorganisation
horizon of 1440 blocks; none of the properties is about these values.

Deadlock is checked except where a bounded instance really stops:
the tracker (all blocks produced), agreement (all votes cast), the pin (an
invalid pin file refuses startup) and the bridge and custody (the bounds of chain
and clock).

Fairness. Safety properties need none. `FinalityPin!Fairness` lets every started
step of `ActivateBestChain` finish, runs it again whenever it may run (the
code calls it at startup and after each block), and has peers keep offering
each block they have. `FinalityPool!Fairness` has each vote that stays
acceptable accepted: verified votes are replayed round after round (about
every 30 s) and the verification budget refills.
`FinalityTransport` has a pass that can take something take something: the
message loop runs it every second and both buckets refill. `FinalityRelay` has
every peer served again and again, some visit find the refresh second over, and
the staking thread reach its next statement. `BridgeCustody` has `release`
called for a burn that stays payable, since anyone may call it; no
fairness is asked of relayers, blocks, certificates or the clock. Nothing is assumed about
crashes, view changes or restarts. `NewestCertified` promises only what
holds while the node stays on one view. After the tip recedes the pool may
answer with a newer, now shallow certificate; block assembly then judges and
omits it until the chain has grown again.

Each property has a mutant in `PROJECT.json`, a plausible bug in one mapped
definition under which its run fails.

## Findings

- `pin_wedge`: after a crash between a certificate and the next flush (50 to 70
  minutes) the pin's block may be gone from the index. A node that then
  follows another branch refuses the headers that lead back to the pinned
  block, and the pin is never enforced, against the comment at
  `node/blockstorage.cpp:1684`.
- `agreement_across_sets`: a set and its successor, which may be disjoint, can
  certify on two branches that part above the handover certificate, with no
  faulty validator. `doc/design/b3-finality-to-ethereum.md:362` excludes this;
  the comment at `node/finality_signature.cpp:643` states the limit correctly.
- `bridge_block_advance`: `VerifyUpdate` bounds each light-client update of a
  block against the backfill window, `ConnectBlock` their sum. A block with two
  legal updates whose sum is too large is connected by validation, then refused by the
  tracker's hook and by every replay, and no block can be connected on top of it
  ("bridge state is unavailable", `validation.cpp:3603`) until it is disconnected.
  The comment at `node/bridge_state.h:382` rests restart and reindex on that
  replay. With the real parameters it takes a light client nearly three days
  behind: one update advances less than two sync-committee periods (16,384
  slots), the window is 20,000 blocks. `IncrementalMatchesReplay` states what
  remains true: only the tip can be refused, and only for this reason.

The quorum deadlock of `doc/finality-quorum-deadlock-814191.md` (a fork splits
a set's votes and the locks hold both sides) is documented behaviour. The
models allow it, and no property claims that certificates go on being formed.

Observations met while modelling, without a run of their own:

- `doc/release-notes-v1.1.1.md:34` promises that a deleted live journal stops
  signing. `EnsurePersistentSafety` (`node/finality_signature.cpp:541`) looks for
  live votes on the current branch only, so after a deletion the signer can arm
  itself on the other side of a fork and contradict a vote: with `ABSENT` added
  to `Damages` TLC finds `NoEquivocation` violated on the signer's instance.
- `doc/design/b3-finality-to-ethereum.md:363` calls a "Reorg past a certified
  checkpoint on B3" "refused from F (pin)". `ConnectTip` (`validation.cpp:4922`)
  raises the pin from certificates that a connected block carries, and the
  verifier takes certificates from anyone and compares no ancestry
  (`doc/finality-quorum-deadlock-814191.md:84`). A certificate that reaches
  Ethereum first pins nothing: the vault pays a burn under it, and a node may
  still reorganise past the certified block, up to its horizon of 1,440 blocks.
  This is why `CustodyBalanced` has its antecedent: without it TLC finds a
  released burn that the active chain no longer has.
- `doc/design/b3-cross-chain-finality-v1.md:178` says there is no operator
  unlock; `TryOperatorTrustedRecovery` (`node/finality_signature.cpp:727`) is
  one. It is an action of `FinalitySigner`.
- `DirectoryCommit` (`util/fs_helpers.cpp:133`) ignores failures and does
  nothing on Windows, so the durability that `WriteState`'s comment asks for can
  be missing without a sign. The model makes it the constant that
  `SoundDisk` fixes; without it `VoteIsDurable` does not hold.
- In the state of `pin_wedge` the pin excludes nothing while its block is
  unknown, so a fork below accepted finality can be connected meanwhile
  (`node/blockstorage.cpp:402`).
- A waiting vote keeps the object it was first bound to, also across a
  reorganisation (`node/finality_transport.cpp:187`). A vote for another branch
  that arrives first is bound to the object of the branch the node is on; after
  the node has moved to the vote's branch, it is dropped at depth and has to
  come again with a peer's replay.
- An execution anchor keeps the source it was first reached from
  (`node/bridge_state.cpp:381`), so the order of backfills decides how far down
  later ones may walk. `NoDepositStranded` covers jumps of the light client (as
  does the test `light_client_execution_jump_cannot_strand_deposits`), not this.

## Proofs

Each `*Proofs` module proves a component's theorems from the assumptions on
its constants, for every value of them: no bound of the runs is used. TLC
checks the properties on the runs' instances. The inductive invariants behind
them are established by the proofs alone; those of `BridgeState` and
`BridgeCustody` quantify over more than TLC can enumerate.

| Module | Theorems (the property each states) |
|---|---|
| `FinalitySignerProofs` | `TypeCorrect`, `NeverEquivocates` (`NoEquivocation`), `VotesAreDurable` (`VoteIsDurable`), `LockIsRespected` (`LockRespected`), `ImplementsVoter` (`VoterSpec`) |
| `FinalityAgreementProofs` | `TypeCorrect`, `ConflictsArePassed` (`ConflictsPassed`), `AgreementHolds` (`Agreement`) |
| `FinalityTrackerProofs` | `TypeCorrect`, `IncrementalIsWalk` (`IncrementalMatchesWalk`), `HandoversAuthorized` (`HandoverAuthorized`), `EpochsAreBounded` (`EpochsBounded`), `SetsInForceAgree` (`SetInForceAgrees`) |
| `FinalityPinProofs` | `TypeCorrect`, `PinIsNeverForgotten` (`PinNeverForgotten`), `PinnedStaysConnected` (`FinalizedNeverDisconnected`), `PinsOnOneChain` (`PinsFormChain`) |
| `FinalityPoolProofs` | `TypeCorrect`, `CertificatesVerify` (`BestVerifies`), `ReplaysAccepted` (`RelayAccepted`), `WorkIsKept` (`VerifiedWorkKept`); of the transport `QuotasHold` (`QuotaExact`), `ReplaysAcceptedAfterWaiting` (`RelayAccepted`), `WaitingVotesReachThePool` (`NoGenuineVoteLost`); of the relay `ReplaysAreCurrent` (`ReplayIsCurrent`) |
| `BridgeStateProofs` | `BridgeInvariant`, `MatchesReplay` (`IncrementalMatchesReplay`), `MintedOnce` (`DepositsMintedOnce`), `CapsHold` (`MintCapsHold`), `RootsCommit` (`RootsCommitBurns`), `NothingStranded` (`NoDepositStranded`), `Committees` (`CommitteesOfTheirPeriods`), `SnapshotsFinalized` (`SnapshotOfFinalizedChain`), `AssembledVerify` (`AssembledBlockVerifies`) |
| `BridgeCustodyProofs` | `CustodyIsBalanced` (`CustodyBalanced`), `LineageIsFollowed` (`VerifierFollowsLineage`), `BurnsStayReleasable` (`AcceptedBurnsReleasable`) |
| `NaturalFacts` | least and greatest elements, induction up to a bound over a set, and the existence of a loop's run; what the others know of recursive functions |

**Signer.** `TypeCorrect` needs no assumption beyond those on the constants.
The other four assume `SoundDisk`: the directory flush works and nobody
removes the journal (`ABSENT \notin Damages`). Neither can be dropped: a signer re-arms after a
deletion on the other side of a fork (see Findings), and a directory that is
not flushed takes a journalled vote back.

- `NeverEquivocates`, `VotesAreDurable` and `ImplementsVoter` all follow from
  `SafetyInv`. The properties are not inductive: they mention votes already
  seen, while the next vote depends on journals in four places (`file`,
  `stable`, `m_state`, `pending.next`). A journal *covers* a vote when its
  last vote is at least as high and its lock is in an epoch at least as late,
  in the same set if the epoch is the same; it *remembers* when it covers all
  votes seen. `SafetyInv` says that each of the four remembers at the points
  of a pass where it may become the truth, that a vote being committed may
  follow all votes seen, and that the votes rise. A certificate and a recovery
  move the lock without losing what it covers, which is where the conditions
  of `CommitCertifiedAnchor` and `CommitPinnedRecoveryAnchor` are needed.
- `ImplementsVoter` then maps `Submit` to `Cast` and all else to a stutter.
- `LockIsRespected` needs a second invariant, `LockInv`: the lock of each image
  of the journal stands on the chain of the last vote seen or was moved since
  (a vote may be journalled and never shown), the lock in memory and the one being
  committed are on the chain of the pass, and once a vote may be shown every
  image that can survive is locked on it. It rests on `ViewsLinked`: chains that share a block share all below it, which is what a
  block hash commits to.

**Agreement.** Any number of validators, weights, sets and any tree of blocks.

- `TypeCorrect` includes that no vote lies above its journal's watermark.
- `ConflictsArePassed` and `AgreementHolds` assume `FaultBound`, fewer than a
  third of the members of each set faulty. It is a bound on heads, which the
  headcount half of the double quorum needs; the weight half is not used.
- The invariant is `TypeOK /\ LocksHold /\ VotesHold /\ IncludedCertified /\
  ConflictsPassed`. Agreement is not inductive, since it says nothing about
  votes that are one short of a quorum. `VotesHold` says that of two votes of
  one validator in one set the lower is an ancestor of the higher, or a
  certificate conflicting with it and no higher than the second had overridden
  it. `LocksHold` says the same of the lock. `ConflictsPassed` turns a
  certificate into a quorum of journals that passed over each conflict;
  quorum intersection (`QuorumsMeet`) does the rest. TLC checks
  the part of it that is a promise to the network, `ConflictsPassed`, on the
  `agreement` instance.

**Tracker.** Any schedule that `ModernPosParamsValid` allows, any registries,
chain length and certificates. `TrackerInv` says that a tracker that is not
dirty stands at the tip with the state of the walk to it, and (`ChainOK`) that
every certificate on the chain was judged against the state the walk gives where
it is carried. The first would be inductive alone; the second is what ties
the walk to the judgements, which were made on the incremental state. The other
properties are facts about the walk itself: `EpochsOK`, carried from block to
block by induction on the height (`JudgedWalk`), relates the epoch's start
heights, the handover flag and the broken lineage to the certificates below.
`TrackerAssumption` only says the bounds are numbers. A hook that fails
half-way leaves a state that is the walk's before or after the block, and a
dirty flag; the next sync starts over.

**Pin.** Any tree of blocks, any certificates in it whose heights rise along
each chain (`TreeAssumption`), any horizon, and a tracker that may fail to sync
at any step. `PinInv` adds to the types that the index is closed under parents
(`IndexOK`), that the target a step of `ActivateBestChain` holds still fits the
anchor although `cs_main` was released in between (`ActivationOK`), and that the
file holds the pin last written and lags only behind an anchor the tip descends
from (`PinOK`, `PinBelowAnchor`). What a chain finalizes need not have been
pinned, so nothing relates the two outside a started activation. That
is why `PinsFormChain` has an exception: a node that comes back with its tip off
the pin abandons it when it next activates, but an `InvalidateBlock` that arrives
first may raise the pin from that tip.

**Pool and transport.** Any views, sets, messages and limits. `PoolInv`
records of every slot *which view filled it*: each of its signatures verified
there, by the member at its index in the set then in force. That an index means
the same member on the view that reads the slot is the point of
`CertificatesVerify`. It follows from `ViewsCommit`: a block commits to the epoch of its
height and to the set in force there, a consequence of
`IncrementalMatchesWalk` for the code's tracker. `QuotaInv` is the accounts of the holding
area alone, and `TransportInv` adds the pool, whose step lemma is reused for
each vote of a batch (`SubmittedAll` is a loop, so its result is reached by
induction up to the length of the batch).

**Relay.** Any peers, batch size and refreshes. `ReplayIsCurrent` speaks of the
moment a vote is selected, while the votes were verified when the export was made.
`RelayInv` therefore says of the export (`CacheOK`) that its votes verify on *the
view that its tip names*, wherever the node is now; a pass that does not renew
has just compared the tips. It also has to be shown that there is an export: the
pool's votes are finitely many and their order is total, so they can be listed
(`LastExists`, `ListExists`, by induction on the number of votes).

**Bridge state.** Any activation heights, caps, windows, fork schedule, number of
retained deltas, any well-formed records and any order of connections,
disconnections, failed reads and restarts.

- None of the eight properties is inductive. They speak of the tracker or of the
  chain at the tip, but a disconnection goes back to a state nobody holds any
  more: what the index was at the parent. `BridgeInv` therefore says that
  there is an index for *every* height of the active chain (`Replays`), that of
  a height being `ConnectBlock` of the one below and the block's delta, that
  each is sound (`HeightOK`), and that all blocks below the tip advance the
  light client within the window (`Fits`). At the tip this may fail, since
  validation does not ask; the index is then one nobody can hold. The
  tracker (`TrackerOK`) is either dirty, or stands at the tip with the index of
  that height, up to how many deltas it retains.
- Soundness of an index (`IndexOK`) has five parts: the light client with its
  anchors (`LightOK`), every deposit minted so far among the nullifiers
  (`NullifiersOK`), the epoch accounts as the sums over the
  chain (`MintedOK`), the tree as the burns so far (`TreeOK`), the roots of all heights
  below (`RootsOK`). Each has a step lemma over one record, carried over the
  records of a block by `InductionUpTo`, and then over `ConnectBlock`.
- The retained deltas are the last ones of the replay (`IsHistory`), fewer than
  the replay's own after a reorganisation. `Undone` is the heart of
  `MatchesReplay`: `DisconnectBlock` accepts the last delta and gives back the
  index of the parent, including the epoch accounts (restored or erased), the
  light client's floor and the anchors.
- `MintsOK`, that no deposit of the chain is minted twice and no block exceeds its
  cap, stands in the invariant next to the indices: it speaks of the chain alone,
  so it survives a disconnection by itself, and `NullifiersOK` and `MintedOK` carry it to the
  next block.
- `SnapshotsFinalized` follows the connections of the light client along the
  indices: each side of a retained delta is the client some height of the
  chain had, and the last usable one is the newest that the finalized height
  covers (`SnapshotValid`, `SnapshotExact`).
- `AssembledVerify` compares the preview, which sees the block without its
  records, with `VerifyBlock`, which sees it with them: two scratch states that
  are `Alike` stay so, because a record looks only at the height of the
  block it is in.

**Custody.** Any schedule, deployment times, positive amounts, branches that part
at any height and certificates relayed in any order; of the signers only that
one set certifies on one branch (`SetAgrees`). `CustodyInv` has four parts.

- `CertInv` speaks of every branch at once, the active one and those that
  certificates name. On each of them later states inherit the lineage and the
  tree, and the tree grows only where both sets qualify and not below the
  activation (`ChainInv`); an epoch is left only under a certificate of its own
  that lies on that branch (`HandedAt`). Across branches, the certificates of one
  epoch are of one set (`SameSets`) and on one branch (`OneBranchPerSet`). The
  last two support each other, epoch by epoch: a set on one branch certifies on
  one branch, so every branch that leaves the epoch hands over to the same
  successor.
- `VerifierInv`: the verifier's sets are those of certificates it accepted, and
  its root is that of the highest. With `CertInv` this gives `LineageIsFollowed`
  for every branch. Roots of two branches may both be accepted, one set after
  the other; nothing is claimed against that.
- `AcceptedBurnsReleasable` is inductive together with these. Its heart is
  `UnqualifiedBurnsNothing`: when the set that signs for a new height does not
  qualify, it is the current or the next set of every block since the verifier's
  height, so B3 admitted no burn there; `UnqualifiedBringsNothing` extends this to a
  certificate on another branch than the last one.
- `VaultInv`: as long as the accepted certificates lie on one branch, what is
  locked plus the payments for released leaves of the *accepted* tree is what
  was deposited. `CustodyBalanced` speaks of the tip's tree and would not
  survive a reorganisation by itself.

Only model-checked, and why:

- all liveness (`NewestCertified`, `EarlyVoteCounts`, `VotesReplayed`,
  `PinEnforced`, `AcceptedBurnReleased`), which the prover cannot express;
- that the views of the signer and the pool are those of a tracker
  (`ViewsCommit`, `ViewsLinked` are assumptions there), and that the voters of
  `FinalityAgreement` are signers: `FinalityVoter` has no lock.

## Not modelled, and the plan

Modelled so far: the finality gadget with its transport, the bridge state of
the node and the Ethereum contracts. Next, in order:

1. The ancestry lock in `FinalityVoter`, so that the signer refines the voter
   that `FinalityAgreement` assumes.
2. `StakeRegistry` and `FinalityBindings`: creation, maturity, unbonding,
   binding and revocation, refining the registry that `FinalityEpochs` takes as
   input.

Not modelled within the parts above: the managed withdrawal mode (regtest only)
with its vault `contracts/B3DepositVault.sol`, and a second bridge asset; parsing of recovery options; the legacy boundary
anchor and `ReconsiderBlock`; in `BridgeCustody` the burns' fee-bearing
transactions, and more than one burn in a block. `BridgeState` offers a burn only where
the validator sets are ready, which `BridgeCustody` decides.

Left out for good: BLS, Merkle-Patricia and SSZ arithmetic (bytes and
hashing), kernel eligibility (arithmetic on hashes), the relayer's planning
(its safety is not needed, see `BridgeCustody`), wallet, GUI and RPC plumbing,
and the parts inherited from Bitcoin Core. FlowMesh is a second system with
certificates of its own and would be a project of its own.
