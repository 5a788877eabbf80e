---------------------------- MODULE FinalityPool ----------------------------
(***************************************************************************)
(* node::FinalitySignaturePool: the bounded collection of verified votes   *)
(* from which any node builds a certificate.  Votes come from the node's   *)
(* own signer and from peers, in any order and any number of times, while  *)
(* the node moves between views.                                           *)
(*                                                                         *)
(* A vote on the wire names an epoch, a height and an index; what was      *)
(* signed is whatever the receiver's own view has there.  A signature is   *)
(* its author and the object signed.  Indices count from 1.                *)
(***************************************************************************)
EXTENDS FinalityViews, Functions

CONSTANTS
    Order,        \* all validators, in the order of their keys
    Messages,     \* votes on the wire: epoch, height, index, signature
    MaxTracked,   \* MAX_TRACKED_CHECKPOINTS
    MaxRestarts   \* bound on the restarts, which lose the pool

ASSUME PoolAssumption ==
    /\ MaxTracked \in Nat \ {0} /\ MaxRestarts \in Nat
    /\ Order \in Seq(Range(Order))

\* A block commits to the chain below it, hence to the epoch of its height and
\* to the set in force there, as long as a state still retains that set.
ASSUME ViewsCommit ==
    /\ \A v \in Views : /\ v.block \in Seq(Range(v.block))
                        /\ v.state.epoch \in Nat
                        /\ v.state.finalized.height \in Int
    /\ \A v, w \in Views : \A h \in DOMAIN v.block \cap DOMAIN w.block :
          v.block[h] = w.block[h] =>
             /\ EpochAt(v, h) = EpochAt(w, h)
             /\ LET set == SetForEpoch(v.state, EpochAt(v, h))
                    other == SetForEpoch(w.state, EpochAt(v, h))
                IN  set = NoSet \/ other = NoSet \/ set = other

VARIABLES
    view,      \* the node's view
    slots,     \* m_slots: <<epoch, height>> to the digest and its signatures
    restarts

vars == <<view, slots, restarts>>

-----------------------------------------------------------------------------
(* What a view makes of a vote, and of a slot.                             *)

Key(m) == <<m.epoch, m.height>>
Newer(k, l) == k[1] > l[1] \/ (k[1] = l[1] /\ k[2] > l[2])

\* The elements of a list that belong to a set, in the order of the list.
Select(list, set) ==
    LET kept[n \in 0..Len(list)] ==
            IF n = 0 THEN <<>>
            ELSE IF list[n] \in set THEN Append(kept[n - 1], list[n])
            ELSE kept[n - 1]
    IN  kept[Len(list)]

\* The members of a set in key order.
MemberOrder(set) == Select(Order, Members(set))
SetOfKey(v, k) == SetForEpoch(v.state, k[1])
Expected(v, k) == ExpectedFinalizedBlock(v, k[1], k[2])

\* At a checkpoint of its epoch, buried and not yet final.
Signable(v, k) ==
    /\ k[2] \in DOMAIN v.block
    /\ IsCheckpointHeight(k[2])
    /\ CheckpointDepthSatisfied(k[2], Len(v.block), CheckpointDepth)
    /\ k[2] > v.state.finalized.height
    /\ SetOfKey(v, k) # NoSet
    /\ EpochAt(v, k[2]) = k[1]

\* Every check of Submit before the slots are looked at.
Admissible(v, m) ==
    /\ Signable(v, Key(m))
    /\ m.index \in DOMAIN MemberOrder(SetOfKey(v, Key(m)))
    /\ Expectable(v, m.epoch, m.height)

\* bls::Verify under the key of the member at that index.
Verifies(v, m) ==
    m.signature = [by |-> MemberOrder(SetOfKey(v, Key(m)))[m.index],
                   over |-> Expected(v, Key(m))]

\* The slot's exact signed object is the one this view derives.
Current(v, k, slot) ==
    Expectable(v, k[1], k[2]) /\ slot.digest = Expected(v, k)

-----------------------------------------------------------------------------
(* Submit.                                                                 *)

Prune(s) == Restrict(s, {k \in DOMAIN s : k[2] > view.state.finalized.height})
DropObsolete(s) == Restrict(s, {k \in DOMAIN s : Current(view, k, s[k])})

Oldest(s) == CHOOSE k \in DOMAIN s : \A l \in DOMAIN s : ~Newer(k, l)
Known(s, m) == Key(m) \in DOMAIN s /\ m.index \in DOMAIN s[Key(m)].sigs
EvictOldest(s, m) == Key(m) \notin DOMAIN s /\ Cardinality(DOMAIN s) >= MaxTracked

\* Mutants: a full pool takes an older checkpoint; it takes none.
NeverFull(s, m) == FALSE
FullForAll(s, m) == EvictOldest(s, m)

PoolFull(s, m) == EvictOldest(s, m) /\ ~Newer(Key(m), Oldest(s))

\* Mutant: nothing makes room.
KeepAll(s, m) == s

MakeRoom(s, m) ==
    IF EvictOldest(s, m) THEN Restrict(s, DOMAIN s \ {Oldest(s)}) ELSE s

\* map[key] = value
Put(map, key, value) ==
    [k \in DOMAIN map \cup {key} |-> IF k = key THEN value ELSE map[k]]

Store(s, m) ==
    LET sigs == IF Key(m) \in DOMAIN s THEN s[Key(m)].sigs ELSE <<>>
    IN  Put(s, Key(m), [digest |-> Expected(view, Key(m)),
                        sigs |-> Put(sigs, m.index, m.signature)])

\* STALE, NOT_CHECKPOINT, TOO_SHALLOW, UNKNOWN_EPOCH, BAD_INDEX.
SubmitInadmissible(m) ==
    /\ ~Admissible(view, m)
    /\ slots' = Prune(slots)
    /\ UNCHANGED <<view, restarts>>

\* DUPLICATE, BAD_SIGNATURE, POOL_FULL, and VERIFICATION_DEFERRED, which any
\* vote may meet that the first three do not.
SubmitNotStored(m) ==
    /\ Admissible(view, m)
    /\ slots' = DropObsolete(Prune(slots))
    /\ UNCHANGED <<view, restarts>>

SubmitAccepted(m) ==
    LET s == DropObsolete(Prune(slots))
    IN  /\ Admissible(view, m)
        /\ ~Known(s, m) /\ ~PoolFull(s, m)
        /\ Verifies(view, m)
        /\ slots' = Store(MakeRoom(s, m), m)
        /\ UNCHANGED <<view, restarts>>

\* The slots after Submit of a vote whose verification is not deferred.
Submitted(s, m) ==
    LET open == DropObsolete(Prune(s))
    IN  IF ~Admissible(view, m) THEN Prune(s)
        ELSE IF Known(open, m) \/ PoolFull(open, m) \/ ~Verifies(view, m)
        THEN open
        ELSE Store(MakeRoom(open, m), m)

-----------------------------------------------------------------------------
(* Reading the pool, on any view and without a Submit in between.          *)

SlotSigners(v, k, slot) ==
    LET members == MemberOrder(SetOfKey(v, k))
    IN  {members[i] : i \in DOMAIN slot.sigs \cap DOMAIN members}

\* Mutant: the slot's object is not compared with the view's.
CertifiableUnchecked(v, k, slot) ==
    LET set == SetOfKey(v, k)
        signers == SlotSigners(v, k, slot)
    IN  /\ k[2] > v.state.finalized.height
        /\ set # NoSet /\ Expectable(v, k[1], k[2])
        /\ SignedWeight(set, signers) >= QuorumWeight(set)
        /\ Cardinality(signers) >= FinalityHeadcountQuorum(set)

\* A slot BestCertificate may return: both quorums, and the view's own object.
Certifiable(v, k, slot) ==
    LET set == SetOfKey(v, k)
        signers == SlotSigners(v, k, slot)
    IN  /\ k[2] > v.state.finalized.height
        /\ set # NoSet
        /\ SignedWeight(set, signers) >= QuorumWeight(set)
        /\ Cardinality(signers) >= FinalityHeadcountQuorum(set)
        /\ Current(v, k, slot)

\* The key of the certificate BestCertificate assembles, if there is one.
BestCertificate(v, s) ==
    LET complete == {k \in DOMAIN s : Certifiable(v, k, s[k])}
    IN  {k \in complete : \A l \in complete : ~Newer(l, k)}

\* Mutant: shallow checkpoints are listed too.
VerifiedAtAnyDepth(v, s) ==
    {k \in DOMAIN s : Current(v, k, s[k]) /\ SetOfKey(v, k) # NoSet}

VerifiedCheckpoints(v, s) ==
    {k \in DOMAIN s : Signable(v, k) /\ Current(v, k, s[k])}

\* What the node replays to its peers.
RelayableSignatures(v, s) ==
    UNION {{[epoch |-> k[1], height |-> k[2], index |-> i,
             signature |-> s[k].sigs[i]] :
               i \in DOMAIN s[k].sigs \cap DOMAIN MemberOrder(SetOfKey(v, k))} :
           k \in VerifiedCheckpoints(v, s)}

-----------------------------------------------------------------------------
ChangeView ==
    /\ view' \in Views \ {view}
    /\ UNCHANGED <<slots, restarts>>

\* The pool lives in memory only.
Restart ==
    /\ restarts < MaxRestarts
    /\ restarts' = restarts + 1
    /\ slots' = <<>>
    /\ UNCHANGED view

Init == view \in Views /\ slots = <<>> /\ restarts = 0

Next ==
    \/ \E m \in Messages :
          SubmitInadmissible(m) \/ SubmitNotStored(m) \/ SubmitAccepted(m)
    \/ ChangeView
    \/ Restart

\* Peers replay the votes they hold round after round, and the budget for
\* verification is refilled: what stays acceptable is accepted.
Fairness == \A m \in Messages : WF_vars(SubmitAccepted(m))

Spec == Init /\ [][Next]_vars
FairSpec == Spec /\ Fairness

-----------------------------------------------------------------------------
(* Properties.                                                             *)

TypeOK ==
    /\ view \in Views
    /\ restarts \in 0..MaxRestarts
    /\ Cardinality(DOMAIN slots) <= MaxTracked
    /\ \A k \in DOMAIN slots :
          /\ DOMAIN slots[k].sigs # {}
          /\ slots[k].digest.epoch = k[1] /\ slots[k].digest.height = k[2]

(* "Verification-ready": the certificate BestCertificate assembles, on
   whatever branch the node has moved to since the votes were verified, has
   its quorum in the set in force there, and every signature in it is by the
   member at its index and over the very object the certificate names. *)
BestVerifies ==
    \A k \in BestCertificate(view, slots) :
        LET set == SetOfKey(view, k)
            successor == SuccessorHashForEpoch(view.state, k[1])
        IN  /\ VerifyFinalityCertificate(
                  [signers |-> SlotSigners(view, k, slots[k]),
                   successor |-> successor], set, successor)
            /\ EpochAt(view, k[2]) = k[1]
            /\ \A i \in DOMAIN slots[k].sigs :
                  Verifies(view, [epoch |-> k[1], height |-> k[2], index |-> i,
                                  signature |-> slots[k].sigs[i]])

(* Replays are useful: a peer on the same view accepts every vote this node
   replays, even if the node reorganised since it took it in ("Excludes
   finalized, shallow, orphaned, or no-longer-retained epoch slots"). *)
RelayAccepted ==
    \A m \in RelayableSignatures(view, slots) :
        Admissible(view, m) /\ Verifies(view, m)

\* A slot that can still become a certificate here.
Live(k) == Current(view, k, slots[k]) /\ k[2] > view.state.finalized.height

(* "An old replay cannot evict newer work", "garbage cannot churn the pool":
   verified votes for a checkpoint that is still open are only ever dropped
   for a newer checkpoint, the oldest first, when the pool is full. *)
VerifiedWorkKept ==
    [][restarts' = restarts =>
        \A k \in DOMAIN slots : Live(k) =>
            \/ /\ k \in DOMAIN slots'
               /\ DOMAIN slots[k].sigs \subseteq DOMAIN slots'[k].sigs
            \/ /\ Cardinality(DOMAIN slots') = MaxTracked
               /\ \A l \in DOMAIN slots' : Newer(l, k)]_vars

\* The newest signable checkpoint of a view that a quorum has voted for.
Voted(v, k) ==
    LET set == SetOfKey(v, k)
        signers == {MemberOrder(set)[m.index] :
                       m \in {n \in Messages : /\ Key(n) = k
                                               /\ Admissible(v, n)
                                               /\ Verifies(v, n)}}
    IN  /\ SignedWeight(set, signers) >= QuorumWeight(set)
        /\ Cardinality(signers) >= FinalityHeadcountQuorum(set)

NewestSignable(v) ==
    LET keys == {Key(m) : m \in {n \in Messages : Admissible(v, n)}}
    IN  {k \in keys : \A l \in keys : ~Newer(l, k)}

(* "A prolonged quorum outage must not freeze the pool on its first eight
   checkpoints forever": while the node stays on a view whose newest
   checkpoint a quorum has signed, and the votes keep being replayed, the
   pool comes to hold a certificate for it, or for a newer checkpoint that
   was buried before the tip receded, whatever the pool held before. *)
NewestCertified ==
    \A v \in Views :
        (\E k \in NewestSignable(v) : Voted(v, k)) =>
            (view = v ~> \/ view # v
                         \/ \E best \in BestCertificate(v, slots) :
                               \A k \in NewestSignable(v) : ~Newer(k, best))
=============================================================================
