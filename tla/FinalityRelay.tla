--------------------------- MODULE FinalityRelay ----------------------------
(***************************************************************************)
(* The replay of verified votes to peers (PeerManagerImpl).  The message   *)
(* thread keeps one export of the pool for all peers, renewed when the tip *)
(* changes or, at most once a second, when a flag says that the pool has   *)
(* new votes; every peer has a cursor that walks the export in small       *)
(* batches, round after round.  The staking thread puts the node's own     *)
(* votes into the pool and raises the flag in a second step, outside       *)
(* cs_main.                                                                *)
(***************************************************************************)
EXTENDS FinalityPool, SequencesExt

CONSTANTS
    RelayPeers,    \* connections
    OwnVotes,      \* the votes of the node's own signer
    MaxBatch,      \* FinalityRelayCursor::MAX_BATCH
    MaxReconnects, \* bound on the connections replaced
    NoTip          \* the null hash m_finality_relay_tip starts with

Tip(v) == v.block[Len(v.block)]

\* A tip's hash names its chain, hence the state the tracker derives from it.
ASSUME RelayAssumption ==
    /\ OwnVotes \subseteq Messages
    /\ MaxBatch \in Nat \ {0} /\ MaxReconnects \in Nat
    /\ \A v \in Views : v.block # <<>> /\ Tip(v) # NoTip
    /\ \A v, w \in Views : Tip(v) = Tip(w) => v = w

VARIABLES
    cache,      \* m_finality_relay_cache
    cache_tip,  \* m_finality_relay_tip
    dirty,      \* m_finality_relay_dirty
    unmarked,   \* own votes in the pool, before RelayFinalitySignatures
    offset,     \* the cursor of each peer
    replayed,   \* the votes last sent to each peer
    reconnects

relay == <<cache, cache_tip, offset, replayed, reconnects>>
rvars == <<vars, relay, dirty, unmarked>>

-----------------------------------------------------------------------------
(* New votes.                                                              *)

\* FINSIG, or a retried vote, accepted: the flag goes up before the message
\* thread does anything else.
AcceptFromPeer(m) ==
    /\ SubmitAccepted(m)
    /\ dirty' = TRUE
    /\ UNCHANGED <<relay, unmarked>>

\* Any other outcome only tidies the pool.
RefuseFromPeer(m) ==
    /\ SubmitInadmissible(m) \/ SubmitNotStored(m)
    /\ UNCHANGED <<relay, dirty, unmarked>>

\* Mutant: the flag is raised first.
MarkThenSign(m) ==
    /\ \/ /\ m \notin unmarked /\ Admissible(view, m)
          /\ dirty' = TRUE
          /\ unmarked' = unmarked \cup {m}
          /\ UNCHANGED vars
       \/ /\ m \in unmarked
          /\ SubmitAccepted(m)
          /\ unmarked' = unmarked \ {m}
          /\ UNCHANGED dirty
    /\ UNCHANGED relay

\* The staking thread: MaybeSign under cs_main, RelayFinalitySignatures after.
Sign(m) ==
    /\ \/ /\ m \notin unmarked
          /\ SubmitAccepted(m)
          /\ unmarked' = unmarked \cup {m}
          /\ UNCHANGED dirty
       \/ /\ m \in unmarked
          /\ dirty' = TRUE
          /\ unmarked' = unmarked \ {m}
          /\ UNCHANGED vars
    /\ UNCHANGED relay

-----------------------------------------------------------------------------
(* MaybeFinalityTransport, the replay to one peer.                         *)

\* The newest checkpoint first, within it by index.
Before(m, n) == Newer(Key(m), Key(n)) \/ (Key(m) = Key(n) /\ m.index < n.index)

Ascending(list, n) == \A i, j \in 1..n : i < j => Before(list[i], list[j])

Export ==
    LET votes == RelayableSignatures(view, slots)
        n == Cardinality(votes)
    IN  CHOOSE list \in [1..n -> votes] : Ascending(list, n)

\* Mutant: the cache is keyed by the height of the tip.
TipMovedInHeight == ~\E v \in Views : Tip(v) = cache_tip /\ Len(v.block) = Len(view.block)

TipMoved == cache_tip # Tip(view)

\* FinalityRelayCursor::Take over that many votes.
StartOf(p, available) == IF offset[p] >= available THEN 0 ELSE offset[p]
EndOf(p, available) ==
    LET end == StartOf(p, available) + MaxBatch
    IN  IF end < available THEN end ELSE available

\* Selected under cs_main and pushed to the peer after it is released.
Replay(p, votes) ==
    LET start == StartOf(p, Len(votes))
        end == EndOf(p, Len(votes))
    IN  /\ replayed' = [replayed EXCEPT ![p] = ToSet(SubSeq(votes, start + 1, end))]
        /\ offset' = [offset EXCEPT ![p] = IF end = Len(votes) THEN 0 ELSE end]
        /\ UNCHANGED <<vars, unmarked, reconnects>>

Renew ==
    /\ cache' = Export
    /\ cache_tip' = Tip(view)

\* The second since the last renewal is over.
RelayRefreshing(p) ==
    /\ IF TipMoved THEN Renew /\ UNCHANGED dirty
       ELSE /\ dirty' = FALSE
            /\ IF dirty THEN Renew ELSE UNCHANGED <<cache, cache_tip>>
    /\ Replay(p, cache')

\* It is not: only a moved tip renews the export.
RelayCached(p) ==
    /\ IF TipMoved THEN Renew ELSE UNCHANGED <<cache, cache_tip>>
    /\ Replay(p, cache')
    /\ UNCHANGED dirty

-----------------------------------------------------------------------------
\* "Reconnecting constructs a fresh cursor."
Reconnect(p) ==
    /\ reconnects < MaxReconnects
    /\ reconnects' = reconnects + 1
    /\ offset' = [offset EXCEPT ![p] = 0]
    /\ replayed' = [replayed EXCEPT ![p] = {}]
    /\ UNCHANGED <<vars, cache, cache_tip, dirty, unmarked>>

ViewMoves == ChangeView /\ UNCHANGED <<relay, dirty, unmarked>>

RelayInit ==
    /\ Init
    /\ cache = <<>> /\ cache_tip = NoTip
    /\ dirty = TRUE /\ unmarked = {}
    /\ offset = [p \in RelayPeers |-> 0] /\ replayed = [p \in RelayPeers |-> {}]
    /\ reconnects = 0

RelayNext ==
    \/ \E m \in Messages : AcceptFromPeer(m) \/ RefuseFromPeer(m)
    \/ \E m \in OwnVotes : Sign(m)
    \/ \E p \in RelayPeers : RelayRefreshing(p) \/ RelayCached(p) \/ Reconnect(p)
    \/ ViewMoves

\* The message loop serves every peer again and again, some visit finds the
\* second over, and the staking thread goes on to the next statement.
RelayFairness ==
    /\ \A p \in RelayPeers : WF_rvars(RelayRefreshing(p) \/ RelayCached(p))
    /\ WF_rvars(\E p \in RelayPeers : RelayRefreshing(p))
    /\ \A m \in OwnVotes : WF_rvars(m \in unmarked /\ Sign(m))

RelaySpec == RelayInit /\ [][RelayNext]_rvars /\ RelayFairness

-----------------------------------------------------------------------------
(* Properties.                                                             *)

(* "Tip HASH (not height) prevents replay of old-branch signatures on an
   equal-height reorg": every vote replayed verifies on the view the node has
   when it selects it, under cs_main, however the cache, the pool and the chain
   moved since the votes were exported.  The messages are pushed right after. *)
ReplayIsCurrent ==
    [][\A p \in RelayPeers : replayed'[p] # replayed[p] =>
          \A m \in replayed'[p] : Admissible(view, m) /\ Verifies(view, m)]_rvars

(* A vote that stays verified on the view the node stays on is replayed to
   every peer again and again: neither the order of the two steps of the
   staking thread, nor votes that arrive while a cursor is half-way, nor a
   renewal by another peer hides it for good. *)
VotesReplayed ==
    \A v \in Views, m \in Messages, p \in RelayPeers :
        <>[](view = v /\ m \in RelayableSignatures(v, slots))
            => []<>(m \in replayed[p])
=============================================================================
