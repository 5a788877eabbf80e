--------------------------- MODULE FinalitySigner ---------------------------
(***************************************************************************)
(* node::FinalitySigner: one validator's signer.  Every pass of the        *)
(* staking loop first makes sure that the journal agrees with the chain    *)
(* (EnsurePersistentSafety), then signs the checkpoints above its          *)
(* watermark one by one (MaybeSign), each vote journalled before it is     *)
(* handed to the signature pool.                                           *)
(*                                                                         *)
(* One pass reads one view; between passes the node may follow any other,  *)
(* by a new block, a reorganisation or a resynchronisation.  The process   *)
(* may die between any two disk steps.                                     *)
(***************************************************************************)
EXTENDS FinalityViews, FinalitySignerStore

CONSTANTS
    Self,               \* m_validator_key
    SigningDepth,       \* FinalitySigningPolicy::minimum_depth
    PinnedRecoveries,   \* finality_signer_recoveries of the chain parameters
    OperatorRecoveries, \* the recoveries an operator may ask for
    OperatorDepth,      \* burial demanded of an operator's anchor (20)
    NoRecovery,
    Damages             \* what may become of the file from outside

\* Tracker states, as far as the signer reads them, over chains of hashes.
ASSUME ViewsAssumption ==
    \A v \in Views :
        /\ v.block \in Seq(Block)
        /\ v.state.epoch \in Epoch
        /\ {v.state.current, v.state.next, v.state.previous}
              \subseteq SetHash \cup {NoSet}
        /\ v.state.finalized.height \in Height

\* A block commits to its parent: chains that share one share all below it.
ASSUME ViewsLinked ==
    \A v, w \in Views : \A h \in DOMAIN v.block \cap DOMAIN w.block :
        v.block[h] = w.block[h] => \A g \in 1..h : v.block[g] = w.block[g]

\* FinalitySignerRecovery::Valid; hardened: its anchor is a modern checkpoint.
ASSUME RecoveriesAssumption ==
    \A r \in PinnedRecoveries \cup OperatorRecoveries :
        /\ r.incident.height \in Nat /\ r.anchor.height \in Nat
        /\ r.incident.block \in Block /\ r.anchor.block \in Block
        /\ {r.incident.signing, r.incident.successor} \subseteq SetHash
        /\ r.anchor.height > r.incident.height
        /\ r.anchor.block # r.incident.block
        /\ r.hardened \in BOOLEAN

ASSUME SignerAssumption ==
    /\ SigningDepth \in Nat /\ OperatorDepth \in Nat
    /\ NoRecovery \notin OperatorRecoveries
    /\ Damages \subseteq {ABSENT, INVALID}
    /\ NoSet \notin SetHash

VARIABLES
    view,      \* the active chain and the tracker's state
    pc,        \* where the signer is in a pass
    pending,   \* the journal being committed, what for, and the vote
    halted,    \* m_permanent_error
    operator,  \* m_operator_trusted_recovery
    votes,     \* history: the votes handed to the pool, in order
    moves      \* history: the unlocks, and on what evidence

vars == <<storeVars, view, pc, pending, halted, operator, votes, moves>>

NoPending == [next |-> ABSENT, kind |-> "none", vote |-> NoLock]
UnlockKinds == {"certificate", "pinned", "operator"}

-----------------------------------------------------------------------------
(* What a view offers.                                                     *)

CheckpointFor(v, epoch, height) ==
    [height |-> height, block |-> v.block[height],
     digest |-> ExpectedFinalizedBlock(v, epoch, height), epoch |-> epoch,
     signing |-> SetForEpoch(v.state, epoch),
     successor |-> SuccessorHashForEpoch(v.state, epoch)]

IsMemberAt(v, height) ==
    Self \in Members(SetForEpoch(v.state, EpochAt(v, height)))

\* Scheduled checkpoints buried to a depth.
Checkpoints(v, depth) ==
    {h \in 1..(Len(v.block) - depth) : IsCheckpointHeight(h)}

\* With no journal, a vote of this validator may still be in circulation.
MayHideLiveVote(v) ==
    LET signable == Checkpoints(v, CheckpointDepth)
    IN  /\ signable # {}
        /\ \/ v.state.finalized.height < 0
           \/ \E h \in signable :
                 h > v.state.finalized.height /\ IsMemberAt(v, h)

-----------------------------------------------------------------------------
(* Committing a journal.                                                   *)

\* FinalitySigner::Fail, permanent until the keys are loaded again.
Fail ==
    /\ halted' = TRUE
    /\ pc' = "idle"
    /\ pending' = NoPending

AfterCommit(kind) == IF kind = "vote" THEN "submit" ELSE "armed"

\* Commit up to the write: an unchanged journal is not written again.
Commit(allowed, next, kind, vote) ==
    IF allowed /\ IsValidState(next) /\ PredecessorIntact
    THEN /\ pending' = [next |-> next, kind |-> kind, vote |-> vote]
         /\ pc' = IF next = m_state THEN AfterCommit(kind) ELSE "write"
         /\ UNCHANGED halted
    ELSE Fail

\* WriteState: the temporary file is written, flushed and renamed.
Rename ==
    /\ pc = "write"
    /\ RenameOver(pending.next)
    /\ pc' = "sync"
    /\ moves' = IF pending.kind \in UnlockKinds
                THEN moves \cup {[lock |-> pending.next.lock,
                                  by |-> pending.kind]}
                ELSE moves
    /\ UNCHANGED <<view, pending, halted, operator, votes>>

\* Any of its steps up to the rename fails: the old file is still there.
WriteFails ==
    /\ pc = "write"
    /\ Fail
    /\ UNCHANGED <<storeVars, view, operator, votes, moves>>

\* The last step of a commit; an unlock also ends an operator's approval.
SyncDirectory ==
    /\ pc = "sync"
    /\ DirectoryCommit(pending.next)
    /\ pc' = AfterCommit(pending.kind)
    /\ pending' = IF pending.kind = "vote" THEN pending ELSE NoPending
    /\ operator' = IF pending.kind \in UnlockKinds THEN NoRecovery ELSE operator
    /\ UNCHANGED <<view, halted, votes, moves>>

-----------------------------------------------------------------------------
(* EnsurePersistentSafety.                                                 *)

StartsPass == pc = "idle" /\ ~halted

InitializeEmpty ==
    /\ StartsPass
    /\ m_state = ABSENT
    /\ ~MayHideLiveVote(view)
    /\ Commit(TRUE, EmptyJournal, "open", NoLock)
    /\ UNCHANGED <<storeVars, view, operator, votes, moves>>

\* Mutant: it is enough that the chain has reached the height of the lock.
LockHeightReached == m_state.lock.height <= Len(view.block)

LockOnChain ==
    m_state.lock.height >= 0
        => OnChain(view, m_state.lock.height, m_state.lock.block)

EnterPass ==
    /\ StartsPass
    /\ m_state # ABSENT
    /\ LockOnChain
    /\ pc' = "armed"
    /\ UNCHANGED <<storeVars, view, pending, halted, operator, votes, moves>>

Orphaned == StartsPass /\ m_state # ABSENT /\ ~LockOnChain

\* A newer certificate of the very validator set of the lock, included here.
CertificateUnlocks ==
    LET f == view.state.finalized
    IN  /\ f.height > m_state.lock.height
        /\ f.certified_at > f.height
        /\ f.certified_at \in DOMAIN view.block
        /\ Derivable(view, f.epoch, f.height)
        /\ view.block[f.height] = f.block
        /\ f.epoch = m_state.lock.epoch
        /\ SetForEpoch(view.state, f.epoch) = m_state.lock.signing

UnlockByCertificate ==
    LET f == view.state.finalized
        anchor == CheckpointFor(view, f.epoch, f.height)
    IN  /\ Orphaned
        /\ CertificateUnlocks
        /\ Commit(CertifiedAnchorAllowed(m_state, anchor),
                  CertifiedAnchor(m_state, anchor), "certificate", NoLock)
        /\ UNCHANGED <<storeVars, view, operator, votes, moves>>

\* TryRecoveryAnchor: the journal is the incident, the incident is orphaned
\* here, and the anchor is a buried checkpoint of the same epoch and sets.
RecoveryApplies(r, depth) ==
    /\ ExactIncident(m_state, r)
    /\ r.incident.height \in DOMAIN view.block
    /\ view.block[r.incident.height] # r.incident.block
    /\ OnChain(view, r.anchor.height, r.anchor.block)
    /\ CheckpointDepthSatisfied(r.anchor.height, Len(view.block), depth)
    /\ Derivable(view, r.incident.epoch, r.anchor.height)
    /\ SetForEpoch(view.state, r.incident.epoch) = r.incident.signing
    /\ SuccessorHashForEpoch(view.state, r.incident.epoch)
          = r.incident.successor
    /\ IsCheckpointHeight(r.anchor.height)
    /\ EpochAt(view, r.anchor.height) = r.incident.epoch

PinnedApplies(r) == r.hardened /\ RecoveryApplies(r, CheckpointDepth)

CommitRecovery(r, kind) ==
    /\ Commit(RecoveryAnchorAllowed(m_state, r),
              RecoveryAnchor(m_state, r,
                  ExpectedFinalizedBlock(view, r.incident.epoch,
                                         r.anchor.height)), kind, NoLock)
    /\ UNCHANGED <<storeVars, view, operator, votes, moves>>

UnlockByPinnedRecovery ==
    /\ Orphaned
    /\ ~CertificateUnlocks
    /\ \E r \in PinnedRecoveries : PinnedApplies(r) /\ CommitRecovery(r, "pinned")

AdvancesJournal(s, r) ==
    /\ s.last.digest # NullHash
    /\ r.anchor.height > s.last.height
    /\ r.anchor.height > s.lock.height

UnlockByOperator ==
    /\ Orphaned
    /\ ~CertificateUnlocks
    /\ ~ \E r \in PinnedRecoveries : PinnedApplies(r)
    /\ operator # NoRecovery
    /\ AdvancesJournal(m_state, operator)
    /\ RecoveryApplies(operator, Max({OperatorDepth, CheckpointDepth}))
    /\ CommitRecovery(operator, "operator")

-----------------------------------------------------------------------------
(* MaybeSign.                                                              *)

\* Mutant: only the finalized height bounds the candidates.
AboveFinalized(h) == h > view.state.finalized.height

\* Above the last vote, the ancestry lock and the finalized height.
AboveWatermark(h) ==
    /\ h > m_state.last.height
    /\ h > m_state.lock.height
    /\ h > view.state.finalized.height

\* The checkpoints this pass may still sign.  It takes them upwards and skips
\* one whose key is not loaded or whose withdrawal root is not to be had, so
\* any of them may be the next, or none.
Candidates ==
    {h \in Checkpoints(view, Max({CheckpointDepth, SigningDepth})) :
        /\ AboveWatermark(h)
        /\ Derivable(view, EpochAt(view, h), h)
        /\ IsMemberAt(view, h)}

Sign ==
    /\ pc = "armed"
    /\ \E h \in Candidates :
          LET cp == CheckpointFor(view, EpochAt(view, h), h)
          IN  Commit(SignedCheckpointAllowed(m_state, cp),
                     SignedCheckpoint(m_state, cp), "vote", cp)
    /\ UNCHANGED <<storeVars, view, operator, votes, moves>>

\* Submit puts the vote in the pool, from where it is mined and relayed.
Submit ==
    /\ pc = "submit"
    /\ votes' = Append(votes, pending.vote)
    /\ pc' = "armed"
    /\ pending' = NoPending
    /\ UNCHANGED <<storeVars, view, halted, operator, moves>>

\* POOL_FULL: the vote is older than every slot of the pool and not relayed.
SubmitRefused ==
    /\ pc = "submit"
    /\ pc' = "armed"
    /\ pending' = NoPending
    /\ UNCHANGED <<storeVars, view, halted, operator, votes, moves>>

EndPass ==
    /\ pc = "armed"
    /\ pc' = "idle"
    /\ UNCHANGED <<storeVars, view, pending, halted, operator, votes, moves>>

-----------------------------------------------------------------------------
(* Between passes, and around the process.                                 *)

\* SetKeysPersistent: staking starts, or its keys are loaded again.
SetKeysPersistent ==
    /\ pc \in {"down", "idle"}
    /\ Open
    /\ pc' = "idle"
    /\ halted' = FALSE
    /\ operator' = NoRecovery
    /\ UNCHANGED <<view, pending, votes, moves>>

SetOperatorTrustedRecovery ==
    /\ StartsPass
    /\ m_state # ABSENT
    /\ \E r \in OperatorRecoveries :
          /\ ExactIncident(m_state, r)
          /\ AdvancesJournal(m_state, r)
          /\ operator' = r
    /\ UNCHANGED <<storeVars, view, pc, pending, halted, votes, moves>>

ChangeView ==
    /\ pc \in {"down", "idle"}
    /\ view' \in Views \ {view}
    /\ UNCHANGED <<storeVars, pc, pending, halted, operator, votes, moves>>

ProcessGone ==
    /\ pc' = "down"
    /\ pending' = NoPending
    /\ halted' = FALSE
    /\ operator' = NoRecovery
    /\ UNCHANGED <<view, votes, moves>>

Crash == pc # "down" /\ ProcessCrash /\ ProcessGone
LosePower == PowerLoss /\ ProcessGone

\* Corruption (INVALID) or removal (ABSENT) behind the process's back.
DamageJournal ==
    /\ \E image \in Damages \ {file} : Damage(image)
    /\ UNCHANGED <<view, pc, pending, halted, operator, votes, moves>>

Init ==
    /\ StoreInit
    /\ view \in Views
    /\ pc = "down"
    /\ pending = NoPending
    /\ halted = FALSE
    /\ operator = NoRecovery
    /\ votes = <<>>
    /\ moves = {}

Next ==
    \/ SetKeysPersistent \/ SetOperatorTrustedRecovery \/ ChangeView
    \/ InitializeEmpty \/ EnterPass
    \/ UnlockByCertificate \/ UnlockByPinnedRecovery \/ UnlockByOperator
    \/ Sign \/ Submit \/ SubmitRefused \/ EndPass
    \/ Rename \/ WriteFails \/ SyncDirectory
    \/ Crash \/ LosePower \/ DamageJournal

Spec == Init /\ [][Next]_vars

-----------------------------------------------------------------------------
(* Properties.                                                             *)

PendingOK ==
    /\ pending \in [next : Journal \cup {ABSENT}, vote : Lock,
                    kind : UnlockKinds \cup {"none", "open", "vote"}]
    /\ pc \in {"write", "sync", "submit"} => IsValidState(pending.next)
    /\ pending.kind = "vote" => pending.vote \in Checkpoint
    /\ pc = "submit" => pending.kind = "vote"

TypeOK ==
    /\ StoreTypeOK
    /\ view \in Views
    /\ pc \in {"down", "idle", "armed", "write", "sync", "submit"}
    /\ PendingOK
    /\ halted \in BOOLEAN
    /\ operator \in OperatorRecoveries \cup {NoRecovery}
    /\ votes \in Seq(Checkpoint)
    /\ moves \subseteq [lock : Lock, by : UnlockKinds]

\* Every checkpoint some view offers for signing.
Offered ==
    UNION {{CheckpointFor(v, EpochAt(v, h), h) :
              h \in {g \in DOMAIN v.block : Derivable(v, EpochAt(v, g), g)}} :
           v \in Views}

Voter == INSTANCE FinalityVoter WITH Checkpoint <- Offered

(* The signer keeps the promise of FinalityVoter through crashes, power
   losses, corruption and reorganisations (MaybeSign journals every vote
   before Submit, Commit never replaces a changed predecessor). *)
VoterSpec == Voter!Spec

(* No two different digests are ever signed at one height ("refusing a
   competing digest at an already signed height"). *)
NoEquivocation ==
    \A i, j \in 1..Len(votes) :
        votes[i].height = votes[j].height => votes[i].digest = votes[j].digest

(* Every image that a crash or a power loss may leave and that Open accepts
   records every vote already handed to the pool, or a later one. *)
VoteIsDurable ==
    \A i \in 1..Len(votes), image \in {file, stable} :
        image # INVALID => /\ image # ABSENT
                           /\ image.last.height >= votes[i].height

(* The ancestry lock: two consecutive votes lie on one chain, or the lock was
   moved in between onto the chain of the later one. *)
OnOneChain(a, b) ==
    \E v \in Views : OnChain(v, a.height, a.block) /\ OnChain(v, b.height, b.block)

LockRespected ==
    \A i \in 1..(Len(votes) - 1) :
        LET u == votes[i]
            w == votes[i + 1]
        IN  \/ OnOneChain(u, w)
            \/ \E m \in moves : /\ u.height < m.lock.height
                                /\ m.lock.height < w.height
                                /\ OnOneChain(m.lock, w)
=============================================================================
