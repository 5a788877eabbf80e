------------------------ MODULE FinalitySignerProofs ------------------------
(***************************************************************************)
(* What TLAPS proves of FinalitySigner, for every set of views, every      *)
(* schedule, every set of recoveries and unbounded runs.                   *)
(*                                                                         *)
(* Type correctness holds as it stands.  That no vote is ever contradicted *)
(* needs two facts about the machine, gathered in SoundDisk: flushing the  *)
(* directory works, and nobody removes the journal.                        *)
(***************************************************************************)
EXTENDS FinalitySigner, TLAPS

SoundDisk == DirectorySyncs = TRUE /\ ABSENT \notin Damages

-----------------------------------------------------------------------------
(* What a view offers is well typed.                                       *)

(* A chain that can derive a checkpoint (ExpectedFinalizedBlock and
   SetForEpoch both succeed) derives one whose epoch and hashes are real,
   never the empty sentinels of the journal. *)
LEMMA CheckpointForType ==
    ASSUME NEW v \in Views, NEW e, NEW h, Derivable(v, e, h)
    PROVE  /\ CheckpointFor(v, e, h) \in Checkpoint
           /\ ExpectedFinalizedBlock(v, e, h) \in FinalizedBlock
           /\ h \in Nat
<1>1. v.block \in Seq(Block) /\ h \in 1..Len(v.block)
  BY ViewsAssumption DEF Derivable, Expectable
<1>2. h \in Nat /\ v.block[h] \in Block
  BY <1>1
<1>3. e = v.state.epoch \/ (v.state.epoch >= 1 /\ e = v.state.epoch - 1)
  BY DEF Derivable, Expectable, SuccessorHashForEpoch
<1>4. e \in Epoch
  BY <1>3, ViewsAssumption, StoreAssumption DEF Epoch
<1>5. SuccessorHashForEpoch(v.state, e) \in SetHash
  BY ViewsAssumption DEF Derivable, Expectable, SuccessorHashForEpoch
<1>6. SetForEpoch(v.state, e) \in SetHash
  BY ViewsAssumption DEF Derivable, Expectable, SetForEpoch
<1>7. ExpectedFinalizedBlock(v, e, h) \in FinalizedBlock
  BY <1>2, <1>4, <1>5 DEF ExpectedFinalizedBlock, FinalizedBlock
<1>8. CheckpointFor(v, e, h) \in Checkpoint
  BY <1>2, <1>4, <1>5, <1>6, <1>7 DEF CheckpointFor, Checkpoint
<1> QED BY <1>2, <1>7, <1>8

(* Every candidate of MaybeSign is a checkpoint some view offers. *)
LEMMA CandidateIsOffered ==
    ASSUME view \in Views, NEW h \in Candidates
    PROVE  /\ h \in Nat
           /\ CheckpointFor(view, EpochAt(view, h), h) \in Checkpoint
           /\ CheckpointFor(view, EpochAt(view, h), h) \in Offered
<1>1. Derivable(view, EpochAt(view, h), h) /\ h \in DOMAIN view.block
  BY DEF Candidates, Derivable, Expectable
<1>2. CheckpointFor(view, EpochAt(view, h), h) \in Offered
  BY <1>1 DEF Offered
<1> QED BY <1>1, <1>2, CheckpointForType

-----------------------------------------------------------------------------
(* Type correctness.                                                       *)

(* Commit leaves a well-typed, valid journal pending, or none (Fail). *)
LEMMA CommitType ==
    ASSUME TypeOK, NEW allowed, NEW next, NEW vote \in Lock,
           NEW kind \in UnlockKinds \cup {"open", "vote"},
           kind = "vote" => vote \in Checkpoint,
           Commit(allowed, next, kind, vote)
    PROVE  /\ PendingOK'
           /\ pc' \in {"idle", "armed", "write", "submit"}
           /\ halted' \in BOOLEAN
<1>1. NoPending \in [next : Journal \cup {ABSENT}, vote : Lock,
                     kind : UnlockKinds \cup {"none", "open", "vote"}]
  BY DEF NoPending, Lock
<1>2. CASE allowed /\ IsValidState(next) /\ PredecessorIntact
  <2>1. /\ pending' = [next |-> next, kind |-> kind, vote |-> vote]
        /\ pc' \in {"armed", "write", "submit"}
        /\ pc' = "submit" => kind = "vote"
        /\ halted' = halted
    BY <1>2 DEF Commit, AfterCommit
  <2>2. next \in Journal
    BY <1>2 DEF IsValidState
  <2>3. pending' \in [next : Journal \cup {ABSENT}, vote : Lock,
                      kind : UnlockKinds \cup {"none", "open", "vote"}]
    BY <2>1, <2>2
  <2> QED BY <1>2, <2>1, <2>3 DEF PendingOK, TypeOK
<1>3. CASE ~(allowed /\ IsValidState(next) /\ PredecessorIntact)
  <2>1. pending' = NoPending /\ pc' = "idle" /\ halted' = TRUE
    BY <1>3 DEF Commit, Fail
  <2>2. NoPending.kind = "none"
    BY DEF NoPending
  <2> QED BY <1>1, <2>1, <2>2 DEF PendingOK
<1> QED BY <1>2, <1>3

(* The initial state, an absent journal and no pass under way, is well typed. *)
LEMMA InitType == Init => TypeOK
<1> SUFFICES ASSUME Init PROVE TypeOK
  OBVIOUS
<1>1. StoreTypeOK
  BY DEF Init, StoreInit, StoreTypeOK
<1>2. PendingOK
  <2>1. NoPending \in [next : Journal \cup {ABSENT}, vote : Lock,
                       kind : UnlockKinds \cup {"none", "open", "vote"}]
    BY DEF NoPending, Lock
  <2>2. NoPending.kind = "none" /\ pending = NoPending /\ pc = "down"
    BY DEF NoPending, Init
  <2> QED BY <2>1, <2>2 DEF PendingOK
<1>3. votes \in Seq(Checkpoint) /\ moves \subseteq [lock : Lock, by : UnlockKinds]
  BY DEF Init
<1> QED BY <1>1, <1>2, <1>3 DEF Init, TypeOK

(* Giving a pass up, or ending it, leaves nothing pending. *)
LEMMA NoPendingType ==
    ASSUME pending' = NoPending, pc' \in {"down", "idle", "armed"}
    PROVE  PendingOK'
<1>1. NoPending \in [next : Journal \cup {ABSENT}, vote : Lock,
                     kind : UnlockKinds \cup {"none", "open", "vote"}]
  BY DEF NoPending, Lock
<1>2. NoPending.kind = "none"
  BY DEF NoPending
<1> QED BY <1>1, <1>2 DEF PendingOK

(* Every step of a pass, crash and restart keeps the journal images valid. *)
LEMMA NextType == TypeOK /\ [Next]_vars => TypeOK'
<1> SUFFICES ASSUME TypeOK, [Next]_vars PROVE TypeOK'
  OBVIOUS
<1>0. NoLock \in Lock
  BY DEF Lock
<1>1. CASE SetKeysPersistent
  <2>1. StoreTypeOK'
    BY <1>1 DEF SetKeysPersistent, Open, diskVars, TypeOK, StoreTypeOK
  <2>2. PendingOK'
    BY <1>1 DEF SetKeysPersistent, TypeOK, PendingOK
  <2> QED BY <1>1, <2>1, <2>2 DEF SetKeysPersistent, TypeOK
<1>2. CASE SetOperatorTrustedRecovery
  BY <1>2 DEF SetOperatorTrustedRecovery, storeVars, TypeOK, StoreTypeOK,
     PendingOK
<1>3. CASE ChangeView
  BY <1>3 DEF ChangeView, storeVars, TypeOK, StoreTypeOK, PendingOK
<1>4. CASE InitializeEmpty
  <2>1. PendingOK' /\ pc' \in {"idle", "armed", "write", "submit"}
                   /\ halted' \in BOOLEAN
    BY <1>0, <1>4, CommitType DEF InitializeEmpty
  <2> QED BY <1>4, <2>1
      DEF InitializeEmpty, storeVars, TypeOK, StoreTypeOK
<1>5. CASE EnterPass
  BY <1>5 DEF EnterPass, StartsPass, storeVars, TypeOK, StoreTypeOK, PendingOK
<1>6. CASE UnlockByCertificate
  <2>1. PendingOK' /\ pc' \in {"idle", "armed", "write", "submit"}
                   /\ halted' \in BOOLEAN
    BY <1>0, <1>6, CommitType DEF UnlockByCertificate, UnlockKinds
  <2> QED BY <1>6, <2>1
      DEF UnlockByCertificate, storeVars, TypeOK, StoreTypeOK
<1>7. ASSUME NEW r, NEW kind \in UnlockKinds, CommitRecovery(r, kind)
      PROVE  TypeOK'
  <2>1. PendingOK' /\ pc' \in {"idle", "armed", "write", "submit"}
                   /\ halted' \in BOOLEAN
    BY <1>0, <1>7, CommitType DEF CommitRecovery, UnlockKinds
  <2> QED BY <1>7, <2>1
      DEF CommitRecovery, storeVars, TypeOK, StoreTypeOK
<1>8. CASE UnlockByPinnedRecovery
  BY <1>7, <1>8 DEF UnlockByPinnedRecovery, UnlockKinds
<1>9. CASE UnlockByOperator
  BY <1>7, <1>9 DEF UnlockByOperator, UnlockKinds
<1>10. CASE Sign
  <2> PICK h \in Candidates :
         LET cp == CheckpointFor(view, EpochAt(view, h), h)
         IN  Commit(SignedCheckpointAllowed(m_state, cp),
                    SignedCheckpoint(m_state, cp), "vote", cp)
    BY <1>10 DEF Sign
  <2> DEFINE cp == CheckpointFor(view, EpochAt(view, h), h)
  <2>1. cp \in Checkpoint /\ cp \in Lock
    <3>1. view \in Views
      BY DEF TypeOK
    <3> QED BY <3>1, CandidateIsOffered DEF Lock
  <2>2. PendingOK' /\ pc' \in {"idle", "armed", "write", "submit"}
                   /\ halted' \in BOOLEAN
    BY <2>1, CommitType
  <2> QED BY <1>10, <2>2 DEF Sign, storeVars, TypeOK, StoreTypeOK
<1>11. CASE Submit
  <2>1. PendingOK'
    BY <1>11, NoPendingType DEF Submit
  <2>2. votes' \in Seq(Checkpoint)
    <3>1. pending.vote \in Checkpoint /\ votes \in Seq(Checkpoint)
      BY <1>11 DEF Submit, TypeOK, PendingOK
    <3> QED BY <1>11, <3>1 DEF Submit
  <2> QED BY <1>11, <2>1, <2>2 DEF Submit, storeVars, TypeOK, StoreTypeOK
<1>12. CASE SubmitRefused
  BY <1>12, NoPendingType
     DEF SubmitRefused, storeVars, TypeOK, StoreTypeOK
<1>13. CASE EndPass
  BY <1>13 DEF EndPass, storeVars, TypeOK, StoreTypeOK, PendingOK
<1>14. CASE Rename
  <2>1. pending.next \in Journal /\ IsValidState(pending.next)
    BY <1>14 DEF Rename, TypeOK, PendingOK, IsValidState
  <2>2. moves' \subseteq [lock : Lock, by : UnlockKinds]
    BY <1>14, <2>1 DEF Rename, TypeOK, Journal
  <2>3. PendingOK'
    BY <1>14, <2>1 DEF Rename, TypeOK, PendingOK
  <2> QED BY <1>14, <2>1, <2>2, <2>3
      DEF Rename, RenameOver, TypeOK, StoreTypeOK
<1>15. CASE WriteFails
  BY <1>15, NoPendingType DEF WriteFails, Fail, storeVars, TypeOK, StoreTypeOK
<1>16. CASE SyncDirectory
  <2>1. pending.next \in Journal
    BY <1>16 DEF SyncDirectory, TypeOK, PendingOK, IsValidState
  <2>2. pc' \in {"armed", "submit"}
    BY <1>16 DEF SyncDirectory, AfterCommit
  <2>3. PendingOK'
    <3>1. CASE pending.kind = "vote"
      BY <1>16, <3>1 DEF SyncDirectory, TypeOK, PendingOK
    <3>2. CASE pending.kind # "vote"
      BY <1>16, <3>2, NoPendingType DEF SyncDirectory, AfterCommit
    <3> QED BY <3>1, <3>2
  <2> QED BY <1>16, <2>1, <2>2, <2>3
      DEF SyncDirectory, DirectoryCommit, TypeOK, StoreTypeOK
<1>17. CASE Crash
  BY <1>17, NoPendingType DEF Crash, ProcessCrash, ProcessGone, diskVars,
     TypeOK, StoreTypeOK
<1>18. CASE LosePower
  BY <1>18, NoPendingType
     DEF LosePower, PowerLoss, ProcessGone, TypeOK, StoreTypeOK
<1>19. CASE DamageJournal
  <2>1. file' \in {ABSENT, INVALID} /\ stable' = file'
        /\ UNCHANGED <<m_state, view, pc, pending, halted, operator, votes, moves>>
    BY <1>19, SignerAssumption DEF DamageJournal, Damage
  <2> QED BY <2>1 DEF TypeOK, StoreTypeOK, PendingOK
<1>20. CASE UNCHANGED vars
  BY <1>20 DEF vars, storeVars, TypeOK, StoreTypeOK, PendingOK
<1> QED
  BY <1>1, <1>2, <1>3, <1>4, <1>5, <1>6, <1>8, <1>9, <1>10, <1>11, <1>12,
     <1>13, <1>14, <1>15, <1>16, <1>17, <1>18, <1>19, <1>20 DEF Next

(* The signer's state keeps its shape whatever it meets: a journal with
   torn sentinels or with the lock behind the last vote is never written
   (IsValidState), and every vote handed to the pool names a real epoch,
   block and validator set. *)
THEOREM TypeCorrect == Spec => []TypeOK
  BY InitType, NextType, PTL DEF Spec

-----------------------------------------------------------------------------
(* No vote is ever contradicted.  The inductive invariant says which       *)
(* journals still remember a vote, at every place a journal is kept.       *)

(* A journal covers a vote when everything it allows from now on may
   follow that vote: its last vote and its lock are not below it, and the
   lock is of a later epoch or of the vote's own validator set. *)
Covers(j, v) ==
    /\ j \in Journal
    /\ v.height <= j.last.height
    /\ v.height <= j.lock.height
    /\ v.epoch <= j.lock.epoch
    /\ v.epoch = j.lock.epoch => v.signing = j.lock.signing

Remembers(j) == \A i \in 1..Len(votes) : Covers(j, votes[i])

MayBeCast(cp) ==
    /\ cp \in Offered
    /\ \A i \in 1..Len(votes) : Voter!MayFollow(cp, votes[i])

SafeImages == \A image \in {file, stable} : image # INVALID => Remembers(image)
SafeMemory == /\ pc # "down" => Remembers(m_state)
              /\ pc \in {"armed", "submit"} => m_state \in Journal
SafeCommit ==
    /\ pc \in {"write", "sync"} => Remembers(pending.next)
    /\ pc = "sync" => file \in {pending.next, INVALID}
    /\ pc \in {"write", "sync"} /\ pending.kind = "vote"
          => MayBeCast(pending.vote) /\ Covers(pending.next, pending.vote)
SafeSubmit ==
    pc = "submit"
        => /\ MayBeCast(pending.vote)
           /\ Covers(m_state, pending.vote)
           /\ \A image \in {file, stable} :
                 image # INVALID => Covers(image, pending.vote)
VotesRise ==
    \A i, j \in 1..Len(votes) : i < j => Voter!MayFollow(votes[j], votes[i])

SafetyInv == SafeImages /\ SafeMemory /\ SafeCommit /\ SafeSubmit /\ VotesRise

(* The fields of a journal, with their types. *)
LEMMA JournalFields ==
    ASSUME NEW j \in Journal
    PROVE  /\ j.last \in Vote /\ j.lock \in Lock
           /\ j.last.height \in Int /\ j.lock.height \in Int
           /\ j.lock.epoch \in Int
<1>1. j.last \in Vote /\ j.lock \in Lock
  BY DEF Journal
<1>2. j.last.height \in Int
  BY <1>1 DEF Vote, NoVote
<1>3. j.lock.height \in Int /\ j.lock.epoch \in Int
  BY <1>1, StoreAssumption DEF Lock, Checkpoint, NoLock, Epoch
<1> QED BY <1>1, <1>2, <1>3

(* CommitSignedCheckpoint above the last vote: the new vote may follow every
   vote the journal covers, and the new journal covers them and it. *)
LEMMA SignedCheckpointCovers ==
    ASSUME NEW s \in Journal, NEW cp \in Checkpoint,
           cp.height > s.last.height, SignedCheckpointAllowed(s, cp)
    PROVE  /\ SignedCheckpoint(s, cp) # s
           /\ Covers(SignedCheckpoint(s, cp), cp)
           /\ \A v \in Checkpoint :
                 Covers(s, v) => /\ Voter!MayFollow(cp, v)
                                 /\ Covers(SignedCheckpoint(s, cp), v)
<1> DEFINE next == [last |-> VoteOf(cp), lock |-> cp]
<1>1. /\ cp.height \in Nat /\ cp.epoch \in Int
      /\ s.last.height \in Int /\ s.lock.height \in Int /\ s.lock.epoch \in Int
  BY JournalFields DEF Checkpoint, Epoch
<1>2. SignedCheckpoint(s, cp) = next
  BY <1>1 DEF SignedCheckpoint
<1>3. next \in Journal
  <2>1. VoteOf(cp) \in Vote
    BY DEF VoteOf, Vote, Checkpoint
  <2> QED BY <2>1 DEF Journal, Lock
<1>4. next.last.height = cp.height /\ next.lock = cp
  BY DEF VoteOf
<1>5. VoteOf(cp) # s.last
  BY <1>1 DEF VoteOf
<1>6. cp.height > s.lock.height /\ FollowsLineage(s.lock, cp)
  BY <1>5 DEF SignedCheckpointAllowed
<1>7. ASSUME NEW v \in Checkpoint, Covers(s, v)
      PROVE  Voter!MayFollow(cp, v) /\ Covers(next, v)
  <2>1. v.height \in Nat /\ v.epoch \in Int
    BY DEF Checkpoint, Epoch
  <2>2. /\ v.height <= s.last.height /\ v.height <= s.lock.height
        /\ v.epoch <= s.lock.epoch
        /\ v.epoch = s.lock.epoch => v.signing = s.lock.signing
    BY <1>7 DEF Covers
  <2>3. \/ cp.epoch = s.lock.epoch /\ cp.signing = s.lock.signing
        \/ cp.epoch = s.lock.epoch + 1
    BY <1>1, <1>6, <2>1, <2>2 DEF FollowsLineage, SameEpoch, NextEpoch
  <2>4. Voter!MayFollow(cp, v)
    BY <1>1, <2>1, <2>2, <2>3 DEF Voter!MayFollow
  <2>5. Covers(next, v)
    BY <1>1, <1>3, <1>4, <2>1, <2>4 DEF Covers, Voter!MayFollow
  <2> QED BY <2>4, <2>5
<1>8. next # s
  BY <1>1, <1>4
<1>9. Covers(next, cp)
  BY <1>1, <1>3, <1>4 DEF Covers
<1> QED BY <1>2, <1>7, <1>8, <1>9

(* CommitCertifiedAnchor: the lock rises within its own validator set. *)
LEMMA CertifiedAnchorCovers ==
    ASSUME NEW s \in Journal, NEW cp \in Checkpoint,
           CertifiedAnchorAllowed(s, cp),
           NEW v \in Checkpoint, Covers(s, v)
    PROVE  Covers(CertifiedAnchor(s, cp), v)
<1> DEFINE next == CertifiedAnchor(s, cp)
<1>1. /\ cp.height \in Nat /\ cp.epoch \in Int
      /\ v.height \in Nat /\ v.epoch \in Int
      /\ s.last.height \in Int /\ s.lock.height \in Int /\ s.lock.epoch \in Int
  BY JournalFields DEF Checkpoint, Epoch
<1>2. next \in Journal /\ next.last = s.last /\ next.lock = cp
  BY DEF CertifiedAnchor, Journal, Lock
<1>3. /\ cp.height >= s.lock.height
      /\ cp.epoch = s.lock.epoch /\ cp.signing = s.lock.signing
  BY <1>1 DEF CertifiedAnchorAllowed, SameEpoch, Covers
<1> QED BY <1>1, <1>2, <1>3 DEF Covers

(* CommitPinnedRecoveryAnchor: the lock rises, its epoch and its sets stay. *)
LEMMA RecoveryAnchorCovers ==
    ASSUME NEW s \in Journal, NEW r, NEW digest,
           r.anchor.height \in Nat, RecoveryAnchorAllowed(s, r),
           IsValidState(RecoveryAnchor(s, r, digest)),
           NEW v \in Checkpoint, Covers(s, v)
    PROVE  Covers(RecoveryAnchor(s, r, digest), v)
<1> DEFINE next == RecoveryAnchor(s, r, digest)
<1>1. /\ v.height \in Nat /\ v.epoch \in Int
      /\ s.last.height \in Int /\ s.lock.height \in Int /\ s.lock.epoch \in Int
  BY JournalFields DEF Checkpoint, Epoch
<1>2. v.height <= s.lock.height /\ s.lock # NoLock
  BY <1>1 DEF Covers, NoLock
<1>3. s.lock \in Checkpoint
  BY <1>2, JournalFields DEF Lock
<1>4. /\ next.last = s.last
      /\ next.lock.height = r.anchor.height
      /\ next.lock.epoch = s.lock.epoch
      /\ next.lock.signing = s.lock.signing
  BY <1>3 DEF RecoveryAnchor, Journal, Checkpoint
<1>5. next \in Journal
  BY DEF IsValidState
<1>6. r.anchor.height > s.lock.height
  BY DEF RecoveryAnchorAllowed
<1> QED BY <1>1, <1>2, <1>4, <1>5, <1>6 DEF Covers

(* A vote is a checkpoint with a real height, epoch and set. *)
LEMMA VoteTyped ==
    ASSUME TypeOK, NEW i \in 1..Len(votes)
    PROVE  votes[i] \in Checkpoint
  BY DEF TypeOK

(* Commit keeps the invariant when the journal it would write remembers the
   votes, and covers the vote it is for. *)
LEMMA CommitSafe ==
    ASSUME TypeOK, SafetyInv, pc \in {"idle", "armed"},
           NEW allowed, NEW next, NEW vote,
           NEW kind \in UnlockKinds \cup {"open", "vote"},
           Commit(allowed, next, kind, vote),
           UNCHANGED <<storeVars, votes>>,
           allowed /\ IsValidState(next) => Remembers(next),
           allowed /\ IsValidState(next) /\ kind = "vote"
              => next # m_state /\ MayBeCast(vote) /\ Covers(next, vote)
    PROVE  SafetyInv'
<1>1. CASE allowed /\ IsValidState(next) /\ PredecessorIntact
  <2>1. /\ pending' = [next |-> next, kind |-> kind, vote |-> vote]
        /\ pc' \in {"armed", "write"}
        /\ pc' = "armed" => next = m_state
    BY <1>1 DEF Commit, AfterCommit
  <2>2. next \in Journal
    BY <1>1 DEF IsValidState
  <2>3. SafeImages' /\ VotesRise'
    BY DEF SafetyInv, SafeImages, VotesRise, Remembers, storeVars
  <2>4. SafeMemory'
    BY <2>1, <2>2 DEF SafetyInv, SafeMemory, Remembers, storeVars
  <2>5. SafeCommit'
    BY <1>1, <2>1 DEF SafeCommit, Remembers, MayBeCast
  <2>6. SafeSubmit'
    BY <2>1 DEF SafeSubmit
  <2> QED BY <2>3, <2>4, <2>5, <2>6 DEF SafetyInv
<1>2. CASE ~(allowed /\ IsValidState(next) /\ PredecessorIntact)
  <2>1. pc' = "idle"
    BY <1>2 DEF Commit, Fail
  <2> QED BY <2>1 DEF SafetyInv, SafeImages, SafeMemory, SafeCommit,
             SafeSubmit, VotesRise, Remembers, storeVars
<1> QED BY <1>1, <1>2

(* Before the first vote there is nothing to remember. *)
LEMMA InitSafe == Init => SafetyInv
  BY DEF Init, StoreInit, SafetyInv, SafeImages, SafeMemory, SafeCommit,
     SafeSubmit, VotesRise, Remembers

(* Steps of the pass that neither write, nor vote, nor touch the file. *)
LEMMA QuietStepSafe ==
    ASSUME TypeOK, SafetyInv, UNCHANGED <<storeVars, votes>>,
           pc' \in {"down", "idle", "armed"},
           pc' # "down" => pc # "down",
           pc' = "armed" => m_state \in Journal
    PROVE  SafetyInv'
  BY DEF SafetyInv, SafeImages, SafeMemory, SafeCommit, SafeSubmit, VotesRise,
     Remembers, storeVars

(* Every step keeps every surviving journal image ahead of the votes seen. *)
LEMMA NextSafe ==
    ASSUME SoundDisk, TypeOK, SafetyInv, [Next]_vars
    PROVE  SafetyInv'
<1>0. view \in Views /\ m_state \in Journal \cup {ABSENT}
  BY DEF TypeOK, StoreTypeOK
<1>1. CASE SetKeysPersistent
  <2>1. /\ pc' = "idle" /\ m_state' = file /\ file # INVALID
        /\ UNCHANGED <<file, stable, votes>>
    BY <1>1 DEF SetKeysPersistent, Open, diskVars
  <2> QED BY <2>1 DEF SafetyInv, SafeImages, SafeMemory, SafeCommit,
             SafeSubmit, VotesRise, Remembers
<1>2. CASE SetOperatorTrustedRecovery
  <2>1. pc = "idle" /\ pc' = "idle" /\ UNCHANGED <<storeVars, votes>>
    BY <1>2 DEF SetOperatorTrustedRecovery, StartsPass, storeVars
  <2> QED BY <2>1, QuietStepSafe
<1>3. CASE ChangeView
  <2>1. pc \in {"down", "idle"} /\ UNCHANGED <<storeVars, votes, pc>>
    BY <1>3 DEF ChangeView, storeVars
  <2> QED BY <2>1, QuietStepSafe
<1>4. CASE InitializeEmpty
  <2>1. pc = "idle" /\ m_state = ABSENT
    BY <1>4 DEF InitializeEmpty, StartsPass
  <2>2. Len(votes) \in Nat /\ ABSENT \notin Journal
    BY SentinelAssumption DEF TypeOK
  <2>3. Remembers(EmptyJournal)
    BY <2>1, <2>2 DEF SafetyInv, SafeMemory, Remembers, Covers
  <2> QED BY <1>4, <2>1, <2>3, CommitSafe DEF InitializeEmpty
<1>5. CASE EnterPass
  <2>1. /\ pc = "idle" /\ pc' = "armed" /\ m_state \in Journal
        /\ UNCHANGED <<storeVars, votes>>
    BY <1>0, <1>5 DEF EnterPass, StartsPass, storeVars
  <2> QED BY <2>1, QuietStepSafe
<1>6. CASE UnlockByCertificate
  <2> DEFINE f == view.state.finalized
             anchor == CheckpointFor(view, f.epoch, f.height)
  <2>1. /\ pc = "idle" /\ m_state \in Journal
        /\ Derivable(view, f.epoch, f.height)
    BY <1>0, <1>6
       DEF UnlockByCertificate, Orphaned, StartsPass, CertificateUnlocks
  <2>2. anchor \in Checkpoint
    BY <1>0, <2>1, CheckpointForType
  <2>3. Remembers(m_state)
    BY <2>1 DEF SafetyInv, SafeMemory
  <2>4. CertifiedAnchorAllowed(m_state, anchor)
           => Remembers(CertifiedAnchor(m_state, anchor))
    BY <2>1, <2>2, <2>3, VoteTyped, CertifiedAnchorCovers DEF Remembers
  <2> QED BY <1>6, <2>1, <2>4, CommitSafe
      DEF UnlockByCertificate, UnlockKinds, storeVars
<1>7. ASSUME NEW r \in PinnedRecoveries \cup OperatorRecoveries, Orphaned,
             NEW kind \in UnlockKinds, CommitRecovery(r, kind)
      PROVE  SafetyInv'
  <2> DEFINE digest ==
        ExpectedFinalizedBlock(view, r.incident.epoch, r.anchor.height)
  <2>1. pc = "idle" /\ m_state \in Journal
    BY <1>0, <1>7 DEF Orphaned, StartsPass
  <2>2. Remembers(m_state) /\ r.anchor.height \in Nat
    BY <2>1, RecoveriesAssumption DEF SafetyInv, SafeMemory
  <2>3. RecoveryAnchorAllowed(m_state, r)
        /\ IsValidState(RecoveryAnchor(m_state, r, digest))
           => Remembers(RecoveryAnchor(m_state, r, digest))
    BY <2>1, <2>2, VoteTyped, RecoveryAnchorCovers DEF Remembers
  <2> QED BY <1>7, <2>1, <2>3, CommitSafe
      DEF CommitRecovery, UnlockKinds, storeVars
<1>8. CASE UnlockByPinnedRecovery
  BY <1>7, <1>8 DEF UnlockByPinnedRecovery, UnlockKinds
<1>9. CASE UnlockByOperator
  <2>1. operator \in OperatorRecoveries
    BY <1>9 DEF UnlockByOperator, TypeOK
  <2> QED BY <1>7, <1>9, <2>1 DEF UnlockByOperator, UnlockKinds
<1>10. CASE Sign
  <2> PICK h \in Candidates :
         LET cp == CheckpointFor(view, EpochAt(view, h), h)
         IN  Commit(SignedCheckpointAllowed(m_state, cp),
                    SignedCheckpoint(m_state, cp), "vote", cp)
    BY <1>10 DEF Sign
  <2> DEFINE cp == CheckpointFor(view, EpochAt(view, h), h)
             next == SignedCheckpoint(m_state, cp)
  <2>1. pc = "armed" /\ m_state \in Journal /\ Remembers(m_state)
    BY <1>10 DEF Sign, SafetyInv, SafeMemory
  <2>2. cp \in Checkpoint /\ cp \in Offered
    BY <1>0, CandidateIsOffered
  <2>3. cp.height = h /\ h > m_state.last.height
    BY DEF Candidates, AboveWatermark, CheckpointFor
  <2>4. SignedCheckpointAllowed(m_state, cp)
           => /\ next # m_state /\ Covers(next, cp)
              /\ Remembers(next) /\ MayBeCast(cp)
    BY <2>1, <2>2, <2>3, VoteTyped, SignedCheckpointCovers
       DEF Remembers, MayBeCast
  <2>5. UNCHANGED <<storeVars, votes>>
    BY <1>10 DEF Sign
  <2> QED BY <2>1, <2>4, <2>5, CommitSafe
<1>11. CASE Submit
  <2>1. /\ pc = "submit" /\ pc' = "armed" /\ UNCHANGED <<file, stable, m_state>>
        /\ votes' = Append(votes, pending.vote)
    BY <1>11 DEF Submit, storeVars
  <2>2. /\ votes \in Seq(Checkpoint) /\ pending.vote \in Checkpoint
        /\ MayBeCast(pending.vote)
    BY <2>1 DEF TypeOK, PendingOK, SafetyInv, SafeSubmit
  <2>3. /\ Len(votes') = Len(votes) + 1 /\ Len(votes) \in Nat
        /\ votes'[Len(votes) + 1] = pending.vote
        /\ \A i \in 1..Len(votes) : votes'[i] = votes[i]
    BY <2>1, <2>2
  <2>4. ASSUME NEW j, Remembers(j), Covers(j, pending.vote)
        PROVE  \A i \in 1..Len(votes') : Covers(j, votes'[i])
    BY <2>3, <2>4 DEF Remembers
  <2>5. SafeImages'
    BY <2>1, <2>4 DEF SafetyInv, SafeImages, SafeSubmit, Remembers
  <2>6. SafeMemory'
    BY <2>1, <2>4 DEF SafetyInv, SafeMemory, SafeSubmit, Remembers
  <2>7. VotesRise'
    <3> SUFFICES ASSUME NEW i \in 1..Len(votes'), NEW j \in 1..Len(votes'),
                        i < j
                 PROVE  Voter!MayFollow(votes'[j], votes'[i])
      BY DEF VotesRise
    <3>1. CASE j = Len(votes) + 1
      BY <2>2, <2>3, <3>1 DEF MayBeCast
    <3>2. CASE j \in 1..Len(votes)
      BY <2>3, <3>2 DEF SafetyInv, VotesRise
    <3> QED BY <2>3, <3>1, <3>2
  <2>8. SafeCommit' /\ SafeSubmit'
    BY <2>1 DEF SafeCommit, SafeSubmit
  <2> QED BY <2>5, <2>6, <2>7, <2>8 DEF SafetyInv
<1>12. CASE SubmitRefused
  <2>1. /\ pc = "submit" /\ pc' = "armed" /\ m_state \in Journal
        /\ UNCHANGED <<storeVars, votes>>
    BY <1>12 DEF SubmitRefused, storeVars, SafetyInv, SafeMemory
  <2> QED BY <2>1, QuietStepSafe
<1>13. CASE EndPass
  <2>1. pc = "armed" /\ pc' = "idle" /\ UNCHANGED <<storeVars, votes>>
    BY <1>13 DEF EndPass, storeVars
  <2> QED BY <2>1, QuietStepSafe
<1>14. CASE Rename
  <2>1. /\ pc = "write" /\ pc' = "sync" /\ file' = pending.next
        /\ UNCHANGED <<stable, m_state, pending, votes>>
    BY <1>14 DEF Rename, RenameOver
  <2> QED BY <2>1 DEF SafetyInv, SafeImages, SafeMemory, SafeCommit,
             SafeSubmit, VotesRise, Remembers, MayBeCast
<1>15. CASE WriteFails
  <2>1. pc = "write" /\ pc' = "idle" /\ UNCHANGED <<storeVars, votes>>
    BY <1>15 DEF WriteFails, Fail, storeVars
  <2> QED BY <2>1, QuietStepSafe
<1>16. CASE SyncDirectory
  <2>1. /\ pc = "sync" /\ UNCHANGED <<file, votes>>
        /\ stable' = file /\ m_state' = pending.next
        /\ file \in {pending.next, INVALID}
        /\ Remembers(pending.next) /\ pending.next \in Journal
    BY <1>16 DEF SyncDirectory, DirectoryCommit, SoundDisk, SafetyInv,
       SafeCommit, TypeOK, PendingOK, IsValidState
  <2>2. \/ pc' = "armed"
        \/ pc' = "submit" /\ pending.kind = "vote" /\ pending' = pending
    BY <1>16 DEF SyncDirectory, AfterCommit
  <2>3. SafeImages' /\ SafeMemory' /\ VotesRise'
    BY <2>1, <2>2 DEF SafetyInv, SafeImages, SafeMemory, VotesRise, Remembers
  <2>4. SafeSubmit'
    BY <2>1, <2>2 DEF SafetyInv, SafeCommit, SafeSubmit, MayBeCast
  <2>5. SafeCommit'
    BY <2>2 DEF SafeCommit
  <2> QED BY <2>3, <2>4, <2>5 DEF SafetyInv
<1>17. CASE Crash
  <2>1. pc' = "down" /\ UNCHANGED <<file, stable, votes>>
    BY <1>17 DEF Crash, ProcessCrash, ProcessGone, diskVars
  <2> QED BY <2>1 DEF SafetyInv, SafeImages, SafeMemory, SafeCommit,
             SafeSubmit, VotesRise, Remembers
<1>18. CASE LosePower
  <2>1. /\ pc' = "down" /\ votes' = votes
        /\ file' \in {file, stable} /\ stable' = file'
    BY <1>18 DEF LosePower, PowerLoss, ProcessGone
  <2> QED BY <2>1 DEF SafetyInv, SafeImages, SafeMemory, SafeCommit,
             SafeSubmit, VotesRise, Remembers
<1>19. CASE DamageJournal
  <2>1. /\ file' = INVALID /\ stable' = INVALID
        /\ UNCHANGED <<m_state, pc, pending, votes>>
    BY <1>19, SignerAssumption DEF DamageJournal, Damage, SoundDisk
  <2> QED BY <2>1 DEF SafetyInv, SafeImages, SafeMemory, SafeCommit,
             SafeSubmit, VotesRise, Remembers, MayBeCast
<1>20. CASE UNCHANGED vars
  BY <1>20 DEF vars, storeVars, SafetyInv, SafeImages, SafeMemory, SafeCommit,
     SafeSubmit, VotesRise, Remembers, MayBeCast
<1> QED
  BY <1>1, <1>2, <1>3, <1>4, <1>5, <1>6, <1>8, <1>9, <1>10, <1>11, <1>12,
     <1>13, <1>14, <1>15, <1>16, <1>17, <1>18, <1>19, <1>20 DEF Next

-----------------------------------------------------------------------------
(* The theorems.                                                           *)

(* What the votes and the journals are to each other, in every reachable
   state of a signer with a sound disk. *)
THEOREM Safety ==
    ASSUME SoundDisk
    PROVE  Spec => []SafetyInv
<1>1. TypeOK /\ SafetyInv /\ [Next]_vars => SafetyInv'
  BY NextSafe
<1> QED BY <1>1, InitSafe, TypeCorrect, PTL DEF Spec

(* However often the process crashes, power fails, the journal is corrupted
   or the chain reorganises, and whatever recoveries are applied, the signer
   never signs two digests at one height. *)
THEOREM NeverEquivocates ==
    ASSUME SoundDisk
    PROVE  Spec => []NoEquivocation
<1>1. TypeOK /\ SafetyInv => NoEquivocation
  <2> SUFFICES ASSUME TypeOK, SafetyInv,
                      NEW i \in 1..Len(votes), NEW j \in 1..Len(votes),
                      votes[i].height = votes[j].height
               PROVE  i = j
    BY DEF NoEquivocation
  <2>1. votes[i].height \in Nat /\ votes[j].height \in Nat
    BY VoteTyped DEF Checkpoint
  <2>2. ~(i < j) /\ ~(j < i)
    BY <2>1 DEF SafetyInv, VotesRise, Voter!MayFollow
  <2> QED BY <2>2 DEF TypeOK
<1> QED BY <1>1, TypeCorrect, Safety, PTL

(* Commit-before-relay: whatever image of the journal survives and is
   accepted by Open, it records every vote that left the process. *)
THEOREM VotesAreDurable ==
    ASSUME SoundDisk
    PROVE  Spec => []VoteIsDurable
<1>1. TypeOK /\ SafetyInv => VoteIsDurable
  <2> SUFFICES ASSUME TypeOK, SafetyInv, NEW i \in 1..Len(votes),
                      NEW image \in {file, stable}, image # INVALID
               PROVE  image # ABSENT /\ image.last.height >= votes[i].height
    BY DEF VoteIsDurable
  <2>1. Covers(image, votes[i])
    BY DEF SafetyInv, SafeImages, Remembers
  <2>2. votes[i].height \in Nat /\ image.last.height \in Int
    BY <2>1, VoteTyped, JournalFields DEF Covers, Checkpoint
  <2> QED BY <2>1, <2>2, SentinelAssumption DEF Covers
<1> QED BY <1>1, TypeCorrect, Safety, PTL

(* The signer implements FinalityVoter: the one step that shows a vote to
   the network is a Cast, every other step a stutter. *)
THEOREM ImplementsVoter ==
    ASSUME SoundDisk
    PROVE  Spec => VoterSpec
<1>1. Init => Voter!Init
  BY DEF Init, Voter!Init
<1>2. TypeOK /\ SafetyInv /\ [Next]_vars => [Voter!Next]_votes
  <2> SUFFICES ASSUME TypeOK, SafetyInv, [Next]_vars, votes' # votes
               PROVE  Voter!Next
    BY DEF Voter!Next
  <2>1. Submit
    BY DEF Next, vars, SetKeysPersistent, SetOperatorTrustedRecovery,
       ChangeView, InitializeEmpty, EnterPass, UnlockByCertificate,
       UnlockByPinnedRecovery, UnlockByOperator, CommitRecovery, Sign,
       SubmitRefused, EndPass, Rename, WriteFails, SyncDirectory, Crash,
       LosePower, ProcessGone, DamageJournal
  <2>2. MayBeCast(pending.vote) /\ votes' = Append(votes, pending.vote)
    BY <2>1 DEF Submit, SafetyInv, SafeSubmit
  <2> QED BY <2>2 DEF MayBeCast, Voter!Next, Voter!Cast
<1> QED BY <1>1, <1>2, TypeCorrect, Safety, PTL
    DEF Spec, VoterSpec, Voter!Spec

-----------------------------------------------------------------------------
(* The ancestry lock.  The inductive invariant follows the lock of every   *)
(* journal from the last vote seen, through the votes that were journalled *)
(* and never shown and through the unlocks, to the chain of the pass.      *)

\* The chain of b contains a.
Below(a, b) == a.height <= b.height /\ OnOneChain(a, b)

\* The lock stands on the chain of the vote u, or was moved (ms) since.
LockFollows(lock, u, ms) ==
    \/ Below(u, lock)
    \/ \E m \in ms : u.height < m.lock.height /\ Below(m.lock, lock)

\* What LockRespected demands of a vote w after a vote u.
VoteFollows(u, w, ms) ==
    \/ OnOneChain(u, w)
    \/ \E m \in ms : /\ u.height < m.lock.height
                     /\ m.lock.height < w.height
                     /\ OnOneChain(m.lock, w)

LastOf(vs) == vs[Len(vs)]
Keeps(lock, vs, ms) == vs # <<>> => LockFollows(lock, LastOf(vs), ms)
Here(v, lock) == lock.height >= 0 => OnChain(v, lock.height, lock.block)

LockImages ==
    \A image \in {file, stable} :
        image # INVALID => Keeps(image.lock, votes, moves)
LockMemory == /\ pc # "down" => Keeps(m_state.lock, votes, moves)
              /\ pc \in {"armed", "submit"} => Here(view, m_state.lock)

\* An unlock is on record from the rename on.
Unlocks(lock, vs) ==
    /\ lock.height >= 0
    /\ vs # <<>> => LastOf(vs).height < lock.height
LockCommit ==
    /\ pc \in {"write", "sync"} => Here(view, pending.next.lock)
    /\ pc = "write" /\ pending.kind \in UnlockKinds
          => Unlocks(pending.next.lock, votes)
    /\ pc = "sync" \/ (pc = "write" /\ pending.kind \notin UnlockKinds)
          => Keeps(pending.next.lock, votes, moves)
Follows(w, vs, ms) == vs # <<>> => VoteFollows(LastOf(vs), w, ms)
LockVote ==
    pc \in {"write", "sync", "submit"} /\ pending.kind = "vote" =>
        /\ pending.next.lock = pending.vote
        /\ OnChain(view, pending.vote.height, pending.vote.block)
        /\ Follows(pending.vote, votes, moves)
LockSubmit ==
    pc = "submit" => /\ m_state.lock = pending.vote
                     /\ \A image \in {file, stable} :
                           image # INVALID => image.lock = pending.vote
LockInv ==
    LockImages /\ LockMemory /\ LockCommit /\ LockVote /\ LockSubmit /\ LockRespected

(* Two chains that share a block share everything below it. *)
LEMMA SharedBelow ==
    ASSUME NEW v \in Views, NEW w \in Views, NEW a, NEW b,
           OnChain(v, a.height, a.block), OnChain(v, b.height, b.block),
           a.height <= b.height, OnChain(w, b.height, b.block)
    PROVE  OnChain(w, a.height, a.block)
<1>1. v.block \in Seq(Block) /\ w.block \in Seq(Block)
  BY ViewsAssumption
<1>2. /\ a.height \in 1..Len(v.block) /\ b.height \in 1..Len(v.block)
      /\ b.height \in 1..Len(w.block)
      /\ v.block[a.height] = a.block /\ v.block[b.height] = w.block[b.height]
  BY <1>1 DEF OnChain
<1>3. a.height \in 1..b.height /\ a.height \in 1..Len(w.block)
  BY <1>1, <1>2
<1>4. b.height \in DOMAIN v.block \cap DOMAIN w.block
  BY DEF OnChain
<1>5. v.block[a.height] = w.block[a.height]
  BY <1>2, <1>3, <1>4, ViewsLinked
<1> QED BY <1>1, <1>2, <1>3, <1>5 DEF OnChain

(* A height of a chain is a positive integer. *)
LEMMA HeightOnChain ==
    ASSUME NEW v \in Views, NEW h, NEW b, OnChain(v, h, b)
    PROVE  h \in Nat
BY ViewsAssumption DEF OnChain

(* A checkpoint of this chain above a lock on this chain follows whatever the
   lock follows. *)
LEMMA ChainFollows ==
    ASSUME NEW v \in Views, NEW u, NEW lock, NEW cp, NEW ms,
           OnChain(v, lock.height, lock.block), OnChain(v, cp.height, cp.block),
           lock.height < cp.height, LockFollows(lock, u, ms)
    PROVE  LockFollows(cp, u, ms) /\ VoteFollows(u, cp, ms)
<1>1. lock.height \in Nat /\ cp.height \in Nat
  BY HeightOnChain
<1>2. ASSUME NEW a, Below(a, lock)
      PROVE  OnOneChain(a, cp) /\ a.height \in Nat /\ a.height < cp.height
  <2>1. PICK w \in Views : OnChain(w, a.height, a.block)
                           /\ OnChain(w, lock.height, lock.block)
    BY <1>2 DEF Below, OnOneChain
  <2>2. a.height \in Nat /\ a.height <= lock.height
    BY <1>2, <2>1, HeightOnChain DEF Below
  <2>3. OnChain(v, a.height, a.block)
    BY <2>1, <2>2, SharedBelow
  <2>4. OnOneChain(a, cp)
    BY <2>3 DEF OnOneChain
  <2> QED BY <1>1, <2>2, <2>4
<1>3. CASE Below(u, lock)
  BY <1>1, <1>2, <1>3 DEF LockFollows, VoteFollows, Below
<1>4. CASE \E m \in ms : u.height < m.lock.height /\ Below(m.lock, lock)
  <2>1. PICK m \in ms : u.height < m.lock.height /\ Below(m.lock, lock)
    BY <1>4
  <2>2. OnOneChain(m.lock, cp) /\ m.lock.height \in Nat /\ m.lock.height < cp.height
    BY <1>2, <2>1
  <2>3. Below(m.lock, cp)
    BY <1>1, <2>2 DEF Below
  <2> QED BY <2>1, <2>2, <2>3 DEF LockFollows, VoteFollows
<1> QED BY <1>3, <1>4 DEF LockFollows

(* A further unlock takes nothing away. *)
LEMMA MovesGrow ==
    ASSUME NEW ms, NEW mt, ms \subseteq mt
    PROVE  /\ \A lock, vs : Keeps(lock, vs, ms) => Keeps(lock, vs, mt)
           /\ \A w, vs : Follows(w, vs, ms) => Follows(w, vs, mt)
           /\ \A u, w : VoteFollows(u, w, ms) => VoteFollows(u, w, mt)
<1>1. \A u, w : VoteFollows(u, w, ms) => VoteFollows(u, w, mt)
  BY DEF VoteFollows
<1>2. \A lock, u : LockFollows(lock, u, ms) => LockFollows(lock, u, mt)
  BY DEF LockFollows
<1> QED BY <1>1, <1>2 DEF Keeps, Follows

(* An unlock on record is a lock that was moved above the last vote. *)
LEMMA UnlockKeeps ==
    ASSUME NEW v \in Views, NEW lock, NEW vs, NEW ms, NEW m \in ms,
           m.lock = lock, Here(v, lock), Unlocks(lock, vs)
    PROVE  Keeps(lock, vs, ms)
<1>1. OnChain(v, lock.height, lock.block)
  BY DEF Here, Unlocks
<1>2. Below(m.lock, lock)
  <2>1. lock.height \in Nat
    BY <1>1, HeightOnChain
  <2> QED BY <1>1, <2>1 DEF Below, OnOneChain
<1> QED BY <1>2 DEF Keeps, Unlocks, LockFollows

(* LockRespected in these terms. *)
LEMMA RespectedMeans ==
    LockRespected <=>
        \A i \in 1..(Len(votes) - 1) : VoteFollows(votes[i], votes[i + 1], moves)
BY DEF LockRespected, VoteFollows

(* Steps that touch neither journal nor votes, outside the disk steps. *)
LEMMA LockQuiet ==
    ASSUME LockInv, UNCHANGED <<storeVars, votes, moves>>,
           pc' \in {"down", "idle", "armed"},
           pc' # "down" => pc # "down",
           pc' = "armed" => Here(view, m_state.lock)'
    PROVE  LockInv'
<1>1. UNCHANGED <<file, stable, m_state, votes, moves>>
  BY DEF storeVars
<1>2. LockImages' /\ LockMemory'
  BY <1>1 DEF LockInv, LockImages, LockMemory
<1>3. LockCommit' /\ LockVote' /\ LockSubmit'
  BY DEF LockCommit, LockVote, LockSubmit
<1>4. LockRespected'
  BY <1>1 DEF LockInv, LockRespected
<1> QED BY <1>2, <1>3, <1>4 DEF LockInv

(* Commit keeps the invariant when what it would write stands on this chain
   and follows the last vote. *)
LEMMA CommitLock ==
    ASSUME TypeOK, LockInv, pc \in {"idle", "armed"},
           NEW allowed, NEW next, NEW vote,
           NEW kind \in UnlockKinds \cup {"open", "vote"},
           Commit(allowed, next, kind, vote),
           UNCHANGED <<storeVars, view, votes, moves>>,
           allowed /\ IsValidState(next) =>
              /\ Here(view, next.lock)
              /\ kind \in UnlockKinds => next # m_state /\ Unlocks(next.lock, votes)
              /\ kind \notin UnlockKinds => Keeps(next.lock, votes, moves)
              /\ kind = "vote" => /\ next # m_state /\ next.lock = vote
                                  /\ OnChain(view, vote.height, vote.block)
                                  /\ Follows(vote, votes, moves)
    PROVE  LockInv'
<1>0. UNCHANGED <<file, stable, m_state, view, votes, moves>>
  BY DEF storeVars
<1>1. CASE allowed /\ IsValidState(next) /\ PredecessorIntact
  <2>1. /\ pending' = [next |-> next, kind |-> kind, vote |-> vote]
        /\ pc' \in {"armed", "write"}
        /\ pc' = "armed" => next = m_state
    BY <1>1 DEF Commit, AfterCommit
  <2>2. pending'.next = next /\ pending'.kind = kind /\ pending'.vote = vote
    BY <2>1
  <2>3. LockImages'
    BY <1>0 DEF LockInv, LockImages
  <2>4. LockMemory'
    BY <1>0, <1>1, <2>1 DEF LockInv, LockMemory
  <2>5. LockCommit'
    BY <1>0, <1>1, <2>1, <2>2 DEF LockCommit
  <2>6. LockVote'
    BY <1>0, <1>1, <2>1, <2>2 DEF LockVote
  <2>7. LockSubmit'
    BY <2>1 DEF LockSubmit
  <2>8. LockRespected'
    BY <1>0 DEF LockInv, LockRespected
  <2> QED BY <2>3, <2>4, <2>5, <2>6, <2>7, <2>8 DEF LockInv
<1>2. CASE ~(allowed /\ IsValidState(next) /\ PredecessorIntact)
  <2>1. pc' = "idle"
    BY <1>2 DEF Commit, Fail
  <2> QED BY <1>0, <2>1, LockQuiet DEF storeVars
<1> QED BY <1>1, <1>2

(* The journal in force is not behind the last vote. *)
LEMMA LastVoteCovered ==
    ASSUME TypeOK, NEW j \in Journal, Remembers(j), votes # <<>>
    PROVE  /\ LastOf(votes).height \in Nat /\ j.lock.height \in Int
           /\ LastOf(votes).height <= j.lock.height
           /\ j.lock.height >= 0
<1>1. votes \in Seq(Checkpoint) /\ Len(votes) \in 1..Len(votes)
  BY DEF TypeOK
<1>2. Covers(j, votes[Len(votes)]) /\ votes[Len(votes)] \in Checkpoint
  BY <1>1, VoteTyped DEF Remembers
<1>3. j.lock.height \in Int
  BY JournalFields
<1> QED BY <1>2, <1>3 DEF LastOf, Covers, Checkpoint

(* A lock moved to an anchor of this chain above the old lock. *)
LEMMA AnchorUnlocks ==
    ASSUME TypeOK, m_state \in Journal, Remembers(m_state), NEW next,
           OnChain(view, next.lock.height, next.lock.block),
           next.lock.height > m_state.lock.height
    PROVE  /\ Here(view, next.lock) /\ next # m_state
           /\ Unlocks(next.lock, votes)
<1>1. view \in Views
  BY DEF TypeOK
<1>2. next.lock.height \in Nat
  BY <1>1, HeightOnChain
<1>3. m_state.lock.height \in Int
  BY JournalFields
<1>4. votes # <<>> => LastOf(votes).height < next.lock.height
  BY <1>2, <1>3, LastVoteCovered
<1> QED BY <1>2, <1>3, <1>4 DEF Here, Unlocks

(* Every step keeps the lock of every journal on the chain of the last vote,
   or the record of how it left it. *)
LEMMA NextLock ==
    ASSUME SoundDisk, TypeOK, SafetyInv, LockInv, [Next]_vars
    PROVE  LockInv'
<1>0. view \in Views /\ m_state \in Journal \cup {ABSENT}
  BY DEF TypeOK, StoreTypeOK
<1>1. CASE SetKeysPersistent
  <2>1. /\ pc' = "idle" /\ m_state' = file /\ file # INVALID
        /\ UNCHANGED <<file, stable, votes, moves>>
    BY <1>1 DEF SetKeysPersistent, Open, diskVars
  <2> QED BY <2>1 DEF LockInv, LockImages, LockMemory, LockCommit, LockVote,
             LockSubmit, LockRespected
<1>2. CASE SetOperatorTrustedRecovery
  <2>1. pc = "idle" /\ pc' = "idle" /\ UNCHANGED <<storeVars, votes, moves>>
    BY <1>2 DEF SetOperatorTrustedRecovery, StartsPass, storeVars
  <2> QED BY <2>1, LockQuiet
<1>3. CASE ChangeView
  <2>1. pc \in {"down", "idle"} /\ UNCHANGED <<storeVars, votes, moves, pc>>
    BY <1>3 DEF ChangeView, storeVars
  <2> QED BY <2>1, LockQuiet
<1>4. CASE InitializeEmpty
  <2>1. /\ pc = "idle" /\ m_state = ABSENT
        /\ Commit(TRUE, EmptyJournal, "open", NoLock)
        /\ UNCHANGED <<storeVars, view, votes, moves>>
    BY <1>4 DEF InitializeEmpty, StartsPass, storeVars
  <2>2. Len(votes) \in Nat /\ ABSENT \notin Journal /\ votes \in Seq(Checkpoint)
    BY SentinelAssumption DEF TypeOK
  <2>3. votes = <<>>
    BY <2>1, <2>2 DEF SafetyInv, SafeMemory, Remembers, Covers
  <2>4. Here(view, EmptyJournal.lock) /\ Keeps(EmptyJournal.lock, votes, moves)
    BY <2>3 DEF Here, Keeps, EmptyJournal, NoLock
  <2> QED BY <2>1, <2>4, CommitLock DEF UnlockKinds
<1>5. CASE EnterPass
  <2>1. /\ pc = "idle" /\ pc' = "armed" /\ LockOnChain
        /\ UNCHANGED <<storeVars, votes, moves>> /\ m_state' = m_state /\ view' = view
    BY <1>5 DEF EnterPass, StartsPass, storeVars
  <2>2. Here(view, m_state.lock)'
    BY <2>1 DEF LockOnChain, Here
  <2> QED BY <2>1, <2>2, LockQuiet
<1>6. CASE UnlockByCertificate
  <2> DEFINE f == view.state.finalized
             anchor == CheckpointFor(view, f.epoch, f.height)
             next == CertifiedAnchor(m_state, anchor)
  <2>1. /\ pc = "idle" /\ m_state \in Journal
        /\ Derivable(view, f.epoch, f.height) /\ f.height > m_state.lock.height
        /\ Commit(CertifiedAnchorAllowed(m_state, anchor), next, "certificate", NoLock)
        /\ UNCHANGED <<storeVars, view, votes, moves>>
    BY <1>0, <1>6 DEF UnlockByCertificate, Orphaned, StartsPass,
       CertificateUnlocks, storeVars
  <2>2. Remembers(m_state)
    BY <2>1 DEF SafetyInv, SafeMemory
  <2>3. next.lock = anchor
    BY <2>1 DEF CertifiedAnchor, Journal
  <2>4. /\ anchor.height = f.height
        /\ OnChain(view, anchor.height, anchor.block)
    BY <2>1 DEF CheckpointFor, Derivable, Expectable, OnChain
  <2> HIDE DEF next, anchor, f
  <2>5. Here(view, next.lock) /\ next # m_state /\ Unlocks(next.lock, votes)
    BY <2>1, <2>2, <2>3, <2>4, AnchorUnlocks
  <2> QED BY <2>1, <2>5, CommitLock DEF UnlockKinds
<1>7. ASSUME NEW r \in PinnedRecoveries \cup OperatorRecoveries, Orphaned,
             NEW kind \in UnlockKinds, CommitRecovery(r, kind),
             OnChain(view, r.anchor.height, r.anchor.block)
      PROVE  LockInv'
  <2> DEFINE digest ==
        ExpectedFinalizedBlock(view, r.incident.epoch, r.anchor.height)
             next == RecoveryAnchor(m_state, r, digest)
  <2>1. /\ pc = "idle" /\ m_state \in Journal /\ m_state.lock.height >= 0
        /\ Commit(RecoveryAnchorAllowed(m_state, r), next, kind, NoLock)
        /\ UNCHANGED <<storeVars, view, votes, moves>>
    BY <1>0, <1>7 DEF Orphaned, StartsPass, LockOnChain, CommitRecovery, storeVars
  <2>2. Remembers(m_state)
    BY <2>1 DEF SafetyInv, SafeMemory
  <2>3. m_state.lock \in Checkpoint
    BY <2>1, JournalFields DEF Lock, NoLock
  <2>4. next.lock.height = r.anchor.height /\ next.lock.block = r.anchor.block
    BY <2>1, <2>3 DEF RecoveryAnchor, Journal, Checkpoint
  <2>5. RecoveryAnchorAllowed(m_state, r) => r.anchor.height > m_state.lock.height
    BY DEF RecoveryAnchorAllowed
  <2> HIDE DEF next, digest
  <2>6. RecoveryAnchorAllowed(m_state, r) =>
           Here(view, next.lock) /\ next # m_state /\ Unlocks(next.lock, votes)
    BY <1>7, <2>1, <2>2, <2>4, <2>5, AnchorUnlocks
  <2> QED BY <1>7, <2>1, <2>6, CommitLock DEF UnlockKinds
<1>8. CASE UnlockByPinnedRecovery
  <2>1. PICK r \in PinnedRecoveries : PinnedApplies(r) /\ CommitRecovery(r, "pinned")
    BY <1>8 DEF UnlockByPinnedRecovery
  <2>2. OnChain(view, r.anchor.height, r.anchor.block) /\ Orphaned
    BY <1>8, <2>1 DEF UnlockByPinnedRecovery, PinnedApplies, RecoveryApplies
  <2> QED BY <1>7, <2>1, <2>2 DEF UnlockKinds
<1>9. CASE UnlockByOperator
  <2>1. operator \in OperatorRecoveries
    BY <1>9 DEF UnlockByOperator, TypeOK
  <2>2. /\ OnChain(view, operator.anchor.height, operator.anchor.block)
        /\ Orphaned /\ CommitRecovery(operator, "operator")
    BY <1>9 DEF UnlockByOperator, RecoveryApplies
  <2> QED BY <1>7, <2>1, <2>2 DEF UnlockKinds
<1>10. CASE Sign
  <2> PICK h \in Candidates :
         LET cp == CheckpointFor(view, EpochAt(view, h), h)
         IN  Commit(SignedCheckpointAllowed(m_state, cp),
                    SignedCheckpoint(m_state, cp), "vote", cp)
    BY <1>10 DEF Sign
  <2> DEFINE cp == CheckpointFor(view, EpochAt(view, h), h)
             next == SignedCheckpoint(m_state, cp)
  <2>1. /\ pc = "armed" /\ m_state \in Journal /\ Remembers(m_state)
        /\ Here(view, m_state.lock) /\ Keeps(m_state.lock, votes, moves)
        /\ UNCHANGED <<storeVars, view, votes, moves>>
    BY <1>10 DEF Sign, SafetyInv, SafeMemory, LockInv, LockMemory, storeVars
  <2>2. cp \in Checkpoint
    BY <1>0, CandidateIsOffered
  <2>3. /\ cp.height = h /\ h > m_state.last.height /\ h > m_state.lock.height
        /\ OnChain(view, cp.height, cp.block)
    BY DEF Candidates, AboveWatermark, CheckpointFor, Derivable, Expectable, OnChain
  <2>4. Commit(SignedCheckpointAllowed(m_state, cp), next, "vote", cp)
    OBVIOUS
  <2> HIDE DEF cp
  <2>5. /\ m_state.last.height \in Int /\ m_state.lock.height \in Int
        /\ cp.height \in Nat
    BY <2>1, <2>2, JournalFields DEF Checkpoint
  <2>6. next = [last |-> VoteOf(cp), lock |-> cp]
    BY <2>3, <2>5 DEF SignedCheckpoint
  <2>7. next.lock = cp /\ next # m_state
    BY <2>3, <2>5, <2>6
  <2>8. Follows(cp, votes, moves) /\ Keeps(cp, votes, moves)
    <3> SUFFICES ASSUME votes # <<>>
                 PROVE  /\ VoteFollows(LastOf(votes), cp, moves)
                        /\ LockFollows(cp, LastOf(votes), moves)
      BY DEF Follows, Keeps
    <3>1. m_state.lock.height >= 0
      BY <2>1, LastVoteCovered
    <3>2. OnChain(view, m_state.lock.height, m_state.lock.block)
      BY <2>1, <3>1 DEF Here
    <3>3. LockFollows(m_state.lock, LastOf(votes), moves)
      BY <2>1 DEF Keeps
    <3>4. m_state.lock.height < cp.height
      BY <2>3, <2>5
    <3> QED BY <1>0, <2>3, <3>2, <3>3, <3>4, ChainFollows
  <2>9. Here(view, cp)
    BY <2>3 DEF Here
  <2> HIDE DEF next
  <2> QED BY <2>1, <2>3, <2>4, <2>7, <2>8, <2>9, CommitLock DEF UnlockKinds
<1>11. CASE Submit
  <2>1. /\ pc = "submit" /\ pc' = "armed"
        /\ UNCHANGED <<file, stable, m_state, view, moves>>
        /\ votes' = Append(votes, pending.vote)
    BY <1>11 DEF Submit, storeVars
  <2>2. /\ votes \in Seq(Checkpoint) /\ pending.vote \in Checkpoint
        /\ pending.kind = "vote"
    BY <2>1 DEF TypeOK, PendingOK
  <2>3. /\ Len(votes') = Len(votes) + 1 /\ Len(votes) \in Nat
        /\ votes'[Len(votes) + 1] = pending.vote
        /\ \A i \in 1..Len(votes) : votes'[i] = votes[i]
    BY <2>1, <2>2
  <2>4. /\ OnChain(view, pending.vote.height, pending.vote.block)
        /\ Follows(pending.vote, votes, moves)
        /\ m_state.lock = pending.vote
        /\ \A image \in {file, stable} :
              image # INVALID => image.lock = pending.vote
        /\ Here(view, m_state.lock)
    BY <2>1, <2>2 DEF LockInv, LockVote, LockSubmit, LockMemory
  <2>5. Keeps(pending.vote, votes', moves)
    <3>1. LastOf(votes') = pending.vote
      BY <2>3 DEF LastOf
    <3>2. Below(pending.vote, pending.vote)
      BY <1>0, <2>2, <2>4 DEF Below, OnOneChain, Checkpoint
    <3> QED BY <3>1, <3>2 DEF Keeps, LockFollows
  <2>6. LockImages' /\ LockMemory'
    BY <2>1, <2>4, <2>5 DEF LockImages, LockMemory
  <2>7. LockCommit' /\ LockVote' /\ LockSubmit'
    BY <2>1 DEF LockCommit, LockVote, LockSubmit
  <2>8. LockRespected'
    <3>1. \A i \in 1..(Len(votes) - 1) :
             VoteFollows(votes[i], votes[i + 1], moves)
      BY RespectedMeans DEF LockInv
    <3>2. ASSUME NEW i \in 1..(Len(votes') - 1)
          PROVE  VoteFollows(votes'[i], votes'[i + 1], moves)
      <4>1. CASE i = Len(votes)
        <5>1. votes # <<>> /\ votes'[i] = LastOf(votes)
              /\ votes'[i + 1] = pending.vote
          BY <2>3, <3>2, <4>1 DEF LastOf
        <5> QED BY <2>4, <5>1 DEF Follows
      <4>2. CASE i # Len(votes)
        <5>1. i \in 1..(Len(votes) - 1) /\ i + 1 \in 1..Len(votes)
              /\ i \in 1..Len(votes)
          BY <2>3, <3>2, <4>2
        <5> QED BY <2>3, <3>1, <5>1
      <4> QED BY <4>1, <4>2
    <3>3. (\A i \in 1..(Len(votes) - 1) :
              VoteFollows(votes[i], votes[i + 1], moves))'
      BY <2>1, <3>2
    <3> QED BY <3>3 DEF LockRespected, VoteFollows
  <2> QED BY <2>6, <2>7, <2>8 DEF LockInv
<1>12. CASE SubmitRefused
  <2>1. /\ pc = "submit" /\ pc' = "armed" /\ Here(view, m_state.lock)
        /\ UNCHANGED <<storeVars, votes, moves>> /\ m_state' = m_state /\ view' = view
    BY <1>12 DEF SubmitRefused, storeVars, LockInv, LockMemory
  <2>2. Here(view, m_state.lock)'
    BY <2>1
  <2> QED BY <2>1, <2>2, LockQuiet
<1>13. CASE EndPass
  <2>1. pc = "armed" /\ pc' = "idle" /\ UNCHANGED <<storeVars, votes, moves>>
    BY <1>13 DEF EndPass, storeVars
  <2> QED BY <2>1, LockQuiet
<1>14. CASE Rename
  <2>1. /\ pc = "write" /\ pc' = "sync" /\ file' = pending.next
        /\ UNCHANGED <<stable, m_state, pending, votes, view>>
        /\ moves \subseteq moves'
        /\ pending.kind \in UnlockKinds =>
              \E m \in moves' : m.lock = pending.next.lock
    <3> DEFINE move == [lock |-> pending.next.lock, by |-> pending.kind]
    <3>1. /\ pc = "write" /\ pc' = "sync" /\ file' = pending.next
          /\ UNCHANGED <<stable, m_state, pending, votes, view>>
          /\ moves' = IF pending.kind \in UnlockKinds THEN moves \cup {move} ELSE moves
      BY <1>14 DEF Rename, RenameOver
    <3>2. move.lock = pending.next.lock
      OBVIOUS
    <3>3. pending.kind \in UnlockKinds => move \in moves'
      BY <3>1
    <3> QED BY <3>1, <3>2, <3>3
  <2>2. Keeps(pending.next.lock, votes, moves')
    <3>1. CASE pending.kind \in UnlockKinds
      <4>1. PICK m \in moves' : m.lock = pending.next.lock
        BY <2>1, <3>1
      <4>2. Here(view, pending.next.lock) /\ Unlocks(pending.next.lock, votes)
        BY <2>1, <3>1 DEF LockInv, LockCommit
      <4> QED BY <1>0, <4>1, <4>2, UnlockKeeps
    <3>2. CASE pending.kind \notin UnlockKinds
      <4>1. Keeps(pending.next.lock, votes, moves)
        BY <2>1, <3>2 DEF LockInv, LockCommit
      <4> QED BY <2>1, <4>1, MovesGrow
    <3> QED BY <3>1, <3>2
  <2>3. /\ \A lock : Keeps(lock, votes, moves) => Keeps(lock, votes, moves')
        /\ \A w : Follows(w, votes, moves) => Follows(w, votes, moves')
        /\ \A u, w : VoteFollows(u, w, moves) => VoteFollows(u, w, moves')
    BY <2>1, MovesGrow
  <2>4. LockImages' /\ LockMemory'
    BY <2>1, <2>2, <2>3 DEF LockInv, LockImages, LockMemory
  <2>5. LockCommit' /\ LockVote' /\ LockSubmit'
    BY <2>1, <2>2, <2>3 DEF LockInv, LockCommit, LockVote, LockSubmit
  <2>6. LockRespected'
    <3>1. \A i \in 1..(Len(votes) - 1) :
             VoteFollows(votes[i], votes[i + 1], moves)
      BY RespectedMeans DEF LockInv
    <3>2. (\A i \in 1..(Len(votes) - 1) :
              VoteFollows(votes[i], votes[i + 1], moves))'
      BY <2>1, <2>3, <3>1
    <3> QED BY <3>2 DEF LockRespected, VoteFollows
  <2> QED BY <2>4, <2>5, <2>6 DEF LockInv
<1>15. CASE WriteFails
  <2>1. pc = "write" /\ pc' = "idle" /\ UNCHANGED <<storeVars, votes, moves>>
    BY <1>15 DEF WriteFails, Fail, storeVars
  <2> QED BY <2>1, LockQuiet
<1>16. CASE SyncDirectory
  <2>1. /\ pc = "sync" /\ UNCHANGED <<file, votes, moves, view>>
        /\ stable' = file /\ m_state' = pending.next
        /\ file \in {pending.next, INVALID}
    BY <1>16 DEF SyncDirectory, DirectoryCommit, SoundDisk, SafetyInv, SafeCommit
  <2>2. \/ pc' = "armed"
        \/ pc' = "submit" /\ pending.kind = "vote" /\ pending' = pending
    BY <1>16 DEF SyncDirectory, AfterCommit
  <2>3. /\ Keeps(pending.next.lock, votes, moves) /\ Here(view, pending.next.lock)
    BY <2>1 DEF LockInv, LockCommit
  <2>4. LockImages' /\ LockMemory'
    BY <2>1, <2>2, <2>3 DEF LockImages, LockMemory
  <2>5. LockCommit'
    BY <2>2 DEF LockCommit
  <2>6. LockVote' /\ LockSubmit'
    BY <2>1, <2>2 DEF LockInv, LockVote, LockSubmit
  <2>7. LockRespected'
    BY <2>1 DEF LockInv, LockRespected
  <2> QED BY <2>4, <2>5, <2>6, <2>7 DEF LockInv
<1>17. CASE Crash
  <2>1. pc' = "down" /\ UNCHANGED <<file, stable, votes, moves>>
    BY <1>17 DEF Crash, ProcessCrash, ProcessGone, diskVars
  <2> QED BY <2>1 DEF LockInv, LockImages, LockMemory, LockCommit, LockVote,
             LockSubmit, LockRespected
<1>18. CASE LosePower
  <2>1. /\ pc' = "down" /\ UNCHANGED <<votes, moves>>
        /\ file' \in {file, stable} /\ stable' = file'
    BY <1>18 DEF LosePower, PowerLoss, ProcessGone
  <2> QED BY <2>1 DEF LockInv, LockImages, LockMemory, LockCommit, LockVote,
             LockSubmit, LockRespected
<1>19. CASE DamageJournal
  <2>1. /\ file' = INVALID /\ stable' = INVALID
        /\ UNCHANGED <<m_state, view, pc, pending, votes, moves>>
    BY <1>19, SignerAssumption DEF DamageJournal, Damage, SoundDisk
  <2>2. LockImages' /\ LockMemory' /\ LockCommit'
    BY <2>1 DEF LockInv, LockImages, LockMemory, LockCommit
  <2>3. LockVote' /\ LockSubmit' /\ LockRespected'
    BY <2>1 DEF LockInv, LockVote, LockSubmit, LockRespected
  <2> QED BY <2>2, <2>3 DEF LockInv
<1>20. CASE UNCHANGED vars
  <2>1. UNCHANGED <<file, stable, m_state, view, pc, pending, votes, moves>>
    BY <1>20 DEF vars, storeVars
  <2>2. LockImages' /\ LockMemory' /\ LockCommit'
    BY <2>1 DEF LockInv, LockImages, LockMemory, LockCommit
  <2>3. LockVote' /\ LockSubmit' /\ LockRespected'
    BY <2>1 DEF LockInv, LockVote, LockSubmit, LockRespected
  <2> QED BY <2>2, <2>3 DEF LockInv
<1> QED
  BY <1>1, <1>2, <1>3, <1>4, <1>5, <1>6, <1>8, <1>9, <1>10, <1>11, <1>12,
     <1>13, <1>14, <1>15, <1>16, <1>17, <1>18, <1>19, <1>20 DEF Next

(* The ancestry lock holds through crashes, votes that were journalled and
   never shown, and unlocks: two consecutive votes lie on one chain, or the
   lock was moved in between, on evidence, onto the chain of the later one. *)
THEOREM LockIsRespected ==
    ASSUME SoundDisk
    PROVE  Spec => []LockRespected
<1>1. Init => LockInv
  <2> SUFFICES ASSUME Init PROVE LockInv
    OBVIOUS
  <2>1. votes = <<>> /\ pc = "down"
    BY DEF Init
  <2>2. LockImages /\ LockMemory /\ LockCommit
    BY <2>1 DEF LockImages, LockMemory, LockCommit, Keeps
  <2>3. LockVote /\ LockSubmit
    BY <2>1 DEF LockVote, LockSubmit
  <2>4. LockRespected
    BY <2>1 DEF LockRespected
  <2> QED BY <2>2, <2>3, <2>4 DEF LockInv
<1>2. TypeOK /\ SafetyInv /\ LockInv /\ [Next]_vars => LockInv'
  BY NextLock
<1>3. LockInv => LockRespected
  BY DEF LockInv
<1> QED BY <1>1, <1>2, <1>3, TypeCorrect, Safety, PTL DEF Spec
=============================================================================
