------------------------- MODULE FinalityTransport --------------------------
(***************************************************************************)
(* node::PendingFinalitySignatures and the finsig handlers around it: a    *)
(* vote that arrives before its checkpoint is buried, before its block, or *)
(* when the budget for verification is spent, waits in a bounded holding   *)
(* area and is submitted to the pool on a later pass.  One thread handles  *)
(* the messages and the passes; peers come and go between them.            *)
(*                                                                         *)
(* Time is left out: an entry may lapse at any pass.  Budgets are left     *)
(* out: any verification may be deferred, any entry passed over.  A        *)
(* restart is another initial state: nothing here is persisted.           *)
(***************************************************************************)
EXTENDS FinalityPool, SequencesExt

CONSTANTS
    Peers,             \* connections; the id of a closed one is never reused
    MaxAhead,          \* MAX_FINALITY_TRANSPORT_AHEAD_BLOCKS
    MaxEntries,        \* MAX_ENTRIES
    MaxPeerEntries,    \* MAX_PEER_ENTRIES
    MaxSources,        \* MAX_SOURCES
    MaxRetryBatch,     \* MAX_RETRY_BATCH
    MaxRetryPerPeer,   \* MAX_RETRY_PER_PEER
    MaxRetryPerCoordinate, \* MAX_RETRY_PER_COORDINATE
    MaxDeliveries      \* bound on the messages received

ASSUME TransportAssumption ==
    /\ {MaxEntries, MaxPeerEntries, MaxSources, MaxRetryBatch,
        MaxRetryPerPeer, MaxRetryPerCoordinate} \subseteq Nat \ {0}
    /\ MaxAhead \in Nat /\ MaxDeliveries \in Nat

VARIABLES
    pending,      \* m_entries: vote to its digest, if bound, and its sources
    peer_counts,  \* m_peer_counts
    peers,        \* m_peer_map: the connections still open
    lapsed,       \* the votes the last step dropped on expiry
    deliveries

held == <<pending, peer_counts>>
tvars == <<vars, pending, peer_counts, peers, lapsed, deliveries>>

-----------------------------------------------------------------------------
(* What the view says of a vote that is not yet in the pool.               *)

\* FinalityTransportDigest derives an object.
Resolvable(m) ==
    /\ m.height \in DOMAIN view.block
    /\ IsCheckpointHeight(m.height)
    /\ m.height > view.state.finalized.height
    /\ EpochAt(view, m.height) = m.epoch
    /\ SetOfKey(view, Key(m)) # NoSet
    /\ m.index \in DOMAIN MemberOrder(SetOfKey(view, Key(m)))
    /\ Expectable(view, m.epoch, m.height)

\* The optional digest: empty, or the one object.
Digest(m) == IF Resolvable(m) THEN {Expected(view, Key(m))} ELSE {}

\* A nearby checkpoint above the tip, of a set the node still has.
LooksAhead(m) ==
    /\ m.height > Len(view.block)
    /\ m.height - Len(view.block) <= MaxAhead
    /\ IsCheckpointHeight(m.height)
    /\ m.height > view.state.finalized.height
    /\ SetOfKey(view, Key(m)) # NoSet
    /\ m.index \in DOMAIN MemberOrder(SetOfKey(view, Key(m)))

\* InspectFinalityTransport returns a candidate.
Candidate(m) == Resolvable(m) \/ LooksAhead(m)

\* Mutant: one block less than the depth Submit asks for.
DepthReadyEarly(m) == m.height <= Len(view.block) - CheckpointDepth + 1

DepthReady(m) == m.height <= Len(view.block) - CheckpointDepth

-----------------------------------------------------------------------------
(* FINSIG received from a peer.                                            *)

\* PendingFinalitySignatures::Add, the entry and the count.
HasRoom(p, entry) ==
    /\ ~\E i \in DOMAIN entry.sources : entry.sources[i] = p
    /\ Len(entry.sources) < MaxSources
    /\ peer_counts[p] < MaxPeerEntries

Add(m, p, digest) ==
    IF m \in DOMAIN pending
    THEN LET old == pending[m]
             bound == IF old.digest = {} THEN digest ELSE old.digest
             conflict == old.digest # {} /\ digest # {} /\ old.digest # digest
             joins == ~conflict /\ HasRoom(p, old)
         IN  /\ pending' = [pending EXCEPT ![m] =
                   [digest |-> bound,
                    sources |-> IF joins THEN Append(@.sources, p)
                                         ELSE @.sources]]
             /\ peer_counts' = IF joins THEN [peer_counts EXCEPT ![p] = @ + 1]
                                        ELSE peer_counts
    ELSE IF Cardinality(DOMAIN pending) >= MaxEntries
              \/ peer_counts[p] >= MaxPeerEntries
    THEN UNCHANGED held
    ELSE /\ pending' = Put(pending, m, [digest |-> digest, sources |-> <<p>>])
         /\ peer_counts' = [peer_counts EXCEPT ![p] = @ + 1]

Receive(p) ==
    /\ p \in peers /\ deliveries < MaxDeliveries
    /\ deliveries' = deliveries + 1
    /\ lapsed' = {}
    /\ UNCHANGED peers

ReceiveAccepted(p, m) ==
    /\ Receive(p)
    /\ SubmitAccepted(m)
    /\ UNCHANGED held

\* NOT_CHECKPOINT above the tip, or TOO_SHALLOW.
Early(m) ==
    ~CheckpointDepthSatisfied(m.height, Len(view.block), CheckpointDepth)

ReceiveEarly(p, m) ==
    /\ Receive(p)
    /\ SubmitInadmissible(m)
    /\ Early(m) /\ Candidate(m)
    /\ Add(m, p, Digest(m))

\* VERIFICATION_DEFERRED, after the cheaper checks of Submit.
ReceiveDeferred(p, m) ==
    LET open == DropObsolete(Prune(slots))
    IN  /\ Receive(p)
        /\ SubmitNotStored(m)
        /\ ~Known(open, m) /\ ~PoolFull(open, m)
        /\ Add(m, p, Digest(m))

\* Every other outcome of Submit is final for this copy of the vote.
ReceiveRefused(p, m) ==
    LET open == DropObsolete(Prune(slots))
    IN  /\ Receive(p)
        /\ \/ SubmitInadmissible(m) /\ ~(Early(m) /\ Candidate(m))
           \/ /\ SubmitNotStored(m)
              /\ Known(open, m) \/ PoolFull(open, m) \/ ~Verifies(view, m)
        /\ UNCHANGED held

-----------------------------------------------------------------------------
(* The pass once a second: Expire, TakeReadyWithSources, Submit.           *)

Connected(entry) == Select(entry.sources, peers)

\* Dropped at depth: not derivable here, or bound to another object.
Void(m) == /\ DepthReady(m)
           /\ Digest(m) = {} \/ pending[m].digest \notin {{}, Digest(m)}

\* What is left of the area once lapsed, orphaned, void and taken entries are
\* gone; sources that disconnected are dropped and a derivable digest bound.
Remaining(old, taken) ==
    {m \in DOMAIN pending \ (old \cup taken) :
        Connected(pending[m]) # <<>> /\ ~Void(m)}

Refreshed(m) ==
    [digest |-> IF pending[m].digest = {} THEN Digest(m) ELSE pending[m].digest,
     sources |-> Connected(pending[m])]

NamedBy(p, area) ==
    Cardinality({m \in DOMAIN area :
                    \E i \in DOMAIN area[m].sources : area[m].sources[i] = p})

\* Mutant: a source dropped from an entry that stays is not discounted.
DiscountErased(kept) ==
    [p \in Peers |-> peer_counts[p]
                        - NamedBy(p, Restrict(pending, DOMAIN pending \ kept))]

\* RemoveSource, for erased entries and for sources that disconnected.
Discount(kept) ==
    [p \in Peers |->
        peer_counts[p]
            - NamedBy(p, Restrict(pending, DOMAIN pending \ kept))
            - (IF p \in peers THEN 0 ELSE NamedBy(p, Restrict(pending, kept)))]

\* A batch within the limits; each entry is charged to one of its sources.
Coordinate(m) == <<m.epoch, m.height, m.index>>
WithinLimits(batch) ==
    /\ Len(batch) <= MaxRetryBatch
    /\ \A c \in {Coordinate(m) : m \in ToSet(batch)} :
          Cardinality({m \in ToSet(batch) : Coordinate(m) = c})
              <= MaxRetryPerCoordinate
    /\ \E charged \in [DOMAIN batch -> peers] :
          /\ \A i \in DOMAIN batch :
                charged[i] \in ToSet(Connected(pending[batch[i]]))
          /\ \A p \in peers :
                Cardinality({i \in DOMAIN batch : charged[i] = p})
                    <= MaxRetryPerPeer

Batches(ready) ==
    {batch \in SetToAllKPermutations(ready) : WithinLimits(batch)}

\* Mutant: every variant at the coordinates of a taken vote goes with it.
EraseVariants(batch) ==
    {m \in DOMAIN pending : \E n \in ToSet(batch) : Coordinate(n) = Coordinate(m)}

Erased(batch) == ToSet(batch)

\* Expire: these entries lapse.
Lapse(old) ==
    /\ lapsed' = old
    /\ UNCHANGED <<view, restarts, peers, deliveries>>

\* The slots after a batch is submitted, vote by vote.
SubmittedAll(s, batch) ==
    LET after[n \in 0..Len(batch)] ==
            IF n = 0 THEN s ELSE Submitted(after[n - 1], batch[n])
    IN  after[Len(batch)]

\* A batch is taken, in the order of ids, and each vote submitted.
Take(old, batch) ==
    LET kept == Remaining(old, Erased(batch))
    IN  /\ pending' = [m \in kept |-> Refreshed(m)]
        /\ peer_counts' = Discount(kept)
        /\ slots' = SubmittedAll(slots, batch)

ReadyEntries(old) == {m \in Remaining(old, {}) : DepthReady(m)}

\* A pass that takes nothing, and one that does.
Retry ==
    /\ DOMAIN pending # {}
    /\ \E old \in SUBSET DOMAIN pending : Lapse(old) /\ Take(old, <<>>)

RetryTaking ==
    \E old \in SUBSET DOMAIN pending :
        /\ Lapse(old)
        /\ \E batch \in Batches(ReadyEntries(old)) \ {<<>>} : Take(old, batch)

-----------------------------------------------------------------------------
\* The holding area notices at the next pass.
Disconnect(p) ==
    /\ p \in peers
    /\ peers' = peers \ {p}
    /\ lapsed' = {}
    /\ UNCHANGED <<vars, pending, peer_counts, deliveries>>

MoveView ==
    /\ ChangeView
    /\ lapsed' = {}
    /\ UNCHANGED <<pending, peer_counts, peers, deliveries>>

TransportInit ==
    /\ Init
    /\ pending = <<>> /\ peer_counts = [p \in Peers |-> 0]
    /\ peers = Peers /\ lapsed = {} /\ deliveries = 0

TransportNext ==
    \/ \E p \in Peers, m \in Messages :
          \/ ReceiveAccepted(p, m) \/ ReceiveEarly(p, m)
          \/ ReceiveDeferred(p, m) \/ ReceiveRefused(p, m)
    \/ Retry \/ RetryTaking
    \/ \E p \in Peers : Disconnect(p)
    \/ MoveView

\* The message loop calls MaybeFinalityTransport again and again, and both
\* buckets refill: a pass that can take something in the end does.
TransportSpec ==
    TransportInit /\ [][TransportNext]_tvars /\ WF_tvars(RetryTaking)

-----------------------------------------------------------------------------
(* Properties.                                                             *)

Genuine(m) == Resolvable(m) /\ Verifies(view, m)
Counts(m) == Admissible(view, m) /\ Verifies(view, m)
BoundHere(m) == pending[m].digest \in {{}, {Expected(view, Key(m))}}

(* RemoveSource asserts that it never takes a count below one.  Through added
   and vanished sources, expiry, batches and shared entries, each peer's
   count is the number of entries that name it and never passes its quota,
   so a peer that sends again is neither locked out nor let in too far. *)
QuotaExact ==
    /\ Cardinality(DOMAIN pending) <= MaxEntries
    /\ \A p \in Peers :
          peer_counts[p] = NamedBy(p, pending) /\ peer_counts[p] <= MaxPeerEntries
    /\ \A m \in DOMAIN pending :
          /\ Len(pending[m].sources) \in 1..MaxSources
          /\ IsInjective(pending[m].sources)

(* "A missing block or temporarily unavailable derived state is not an
   invalidity verdict": a vote that verifies on the node's view leaves the
   holding area only into the pool (which may hold it already, or be full of
   newer checkpoints), or because it lapsed, lost its last source, or was
   bound to a block of another branch. *)
NoGenuineVoteLost ==
    [][\A m \in DOMAIN pending \ DOMAIN pending' : Genuine(m) =>
          \/ m \in lapsed'
          \/ Connected(pending[m]) = <<>>
          \/ ~BoundHere(m)
          \/ Known(slots', m)
          \/ PoolFull(slots', m)]_tvars

(* A vote that came too early still counts: while the node stays on a view
   where it verifies and its checkpoint is buried, a waiting vote comes to be
   in the pool, however many forgeries claim its index, unless it lapses or
   nobody who sent it stays connected. *)
EarlyVoteCounts ==
    \A m \in Messages :
        (m \in DOMAIN pending /\ Counts(m) /\ BoundHere(m))
            ~> \/ ~Counts(m)
               \/ Known(slots, m) \/ PoolFull(slots, m)
               \/ m \in lapsed
               \/ m \in DOMAIN pending /\ Connected(pending[m]) = <<>>
=============================================================================
