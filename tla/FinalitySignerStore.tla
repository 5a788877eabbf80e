------------------------ MODULE FinalitySignerStore -------------------------
(***************************************************************************)
(* node::FinalitySignerStore: the journal a validator keeps of its finality *)
(* votes, and the file that holds it.                                      *)
(*                                                                         *)
(* A journal holds the last vote and the ancestry lock, which a vote and   *)
(* an unlock both move.  The file is installed by writing and flushing a   *)
(* temporary file, renaming it over the old one, and flushing the          *)
(* directory; `file' is what an open of the path sees, `stable' what a     *)
(* power loss is certain to leave.  INVALID stands for every file Open     *)
(* refuses: corrupt, of another version, of another chain or validator.    *)
(***************************************************************************)
EXTENDS Integers

CONSTANTS
    Block,           \* block hashes
    SetHash,         \* validator-set hashes
    NullHash,        \* the all-zero hash
    MaxEpoch,        \* 2^64 - 1, the epoch field of an empty lock
    DirectorySyncs,  \* DirectoryCommit really flushes the directory
    ABSENT, INVALID  \* no file; a file that Open refuses

ASSUME StoreAssumption ==
    /\ MaxEpoch \in Nat \ {0}
    /\ DirectorySyncs \in BOOLEAN
    /\ NullHash \notin Block \cup SetHash
    /\ ABSENT # INVALID

Height == Nat \cup {-1}
Epoch == 0..(MaxEpoch - 1)

\* modern::FinalizedBlock, which is also what its digest stands for.
FinalizedBlock ==
    [height : Nat, block : Block, validator_set_hash : SetHash, epoch : Epoch]

\* A checkpoint a vote or a lock can name.
Checkpoint ==
    [height : Nat, block : Block, digest : FinalizedBlock, epoch : Epoch,
     signing : SetHash, successor : SetHash]

NoVote == [height |-> -1, block |-> NullHash, digest |-> NullHash]
NoLock == [height |-> -1, block |-> NullHash, digest |-> NullHash,
           epoch |-> MaxEpoch, signing |-> NullHash, successor |-> NullHash]

Vote == [height : Nat, block : Block, digest : FinalizedBlock] \cup {NoVote}
Lock == Checkpoint \cup {NoLock}
Journal == [last : Vote, lock : Lock]
EmptyJournal == [last |-> NoVote, lock |-> NoLock]

ASSUME SentinelAssumption ==
    /\ ABSENT \notin Journal /\ INVALID \notin Journal
    /\ NullHash \notin FinalizedBlock

-----------------------------------------------------------------------------
(* What each commit operation demands of the journal, and what it writes.  *)

VoteOf(cp) == [height |-> cp.height, block |-> cp.block, digest |-> cp.digest]

\* IsValidState: the empty sentinels are all or nothing (the types say so),
\* and the lock is never behind the last vote.
IsValidState(s) ==
    /\ s \in Journal
    /\ s.lock.height >= s.last.height

\* The exact validator set of the lock, or the successor it committed to.
SameEpoch(lock, cp) == cp.epoch = lock.epoch /\ cp.signing = lock.signing
NextEpoch(lock, cp) == /\ lock.epoch < MaxEpoch - 1
                       /\ cp.epoch = lock.epoch + 1
                       /\ cp.signing = lock.successor
FollowsLineage(lock, cp) ==
    lock.height >= 0 => SameEpoch(lock, cp) \/ NextEpoch(lock, cp)

\* CommitSignedCheckpoint: repeating the last vote is allowed and writes
\* nothing, any other vote lies above both the last vote and the lock.
SignedCheckpointAllowed(s, cp) ==
    \/ VoteOf(cp) = s.last
    \/ /\ cp.height > s.last.height
       /\ cp.height > s.lock.height
       /\ FollowsLineage(s.lock, cp)

SignedCheckpoint(s, cp) ==
    IF cp.height = s.last.height THEN s
                                 ELSE [last |-> VoteOf(cp), lock |-> cp]

\* CommitCertifiedAnchor: only the lock moves, up, within its validator set.
CertifiedAnchorAllowed(s, cp) ==
    \/ cp = s.lock
    \/ /\ cp.height > s.lock.height
       /\ s.lock.height >= 0 => SameEpoch(s.lock, cp)

CertifiedAnchor(s, cp) == [s EXCEPT !.lock = cp]

\* A recovery names one orphaned vote, as last vote and lock of the journal.
ExactIncident(s, r) ==
    /\ s.last.height = r.incident.height
    /\ s.last.block = r.incident.block
    /\ s.lock.height = r.incident.height
    /\ s.lock.block = r.incident.block
    /\ s.lock.digest = s.last.digest
    /\ s.lock.epoch = r.incident.epoch
    /\ s.lock.signing = r.incident.signing
    /\ s.lock.successor = r.incident.successor

\* CommitPinnedRecoveryAnchor: the lock's lineage fields stay as they are.
RecoveryAnchorAllowed(s, r) ==
    /\ ExactIncident(s, r)
    /\ r.anchor.height > s.lock.height
    /\ r.anchor.height > s.last.height

RecoveryAnchor(s, r, digest) ==
    [s EXCEPT !.lock.height = r.anchor.height,
              !.lock.block = r.anchor.block,
              !.lock.digest = digest]

-----------------------------------------------------------------------------
(* The file.                                                               *)

VARIABLES
    file,     \* what an open of the journal path sees
    stable,   \* what is certain to survive a power loss
    m_state   \* FinalitySignerStore::m_state, ABSENT when it has no value

diskVars == <<file, stable>>
storeVars == <<file, stable, m_state>>

StoreTypeOK ==
    /\ file \in Journal \cup {ABSENT, INVALID}
    /\ stable \in Journal \cup {ABSENT, INVALID}
    /\ m_state \in Journal \cup {ABSENT}

StoreInit == file = ABSENT /\ stable = ABSENT /\ m_state = ABSENT

\* Commit re-reads the file and refuses when it is not the predecessor.
PredecessorIntact == file = m_state

\* The flushed temporary file is renamed over the journal.
RenameOver(next) ==
    /\ file' = next
    /\ UNCHANGED <<stable, m_state>>

\* Mutant: the directory is never flushed.
DirectoryNotCommitted(next) == m_state' = next /\ UNCHANGED <<file, stable>>

\* DirectoryCommit, whose failure nobody sees; the journal is in force.
DirectoryCommit(next) ==
    /\ stable' = IF DirectorySyncs THEN file ELSE stable
    /\ m_state' = next
    /\ UNCHANGED file

\* Mutant: the file is taken unchecked.
OpenUnchecked == m_state' = file /\ UNCHANGED diskVars

\* Open takes an absent or a valid file.
Open ==
    /\ file # INVALID
    /\ m_state' = file
    /\ UNCHANGED diskVars

\* The process dies; a power loss may also take back a rename.
ProcessCrash == m_state' = ABSENT /\ UNCHANGED diskVars
PowerLoss ==
    /\ file' \in {file, stable}
    /\ stable' = file'
    /\ m_state' = ABSENT

\* The file is damaged, or removed, behind the process's back.
Damage(image) ==
    /\ file' = image /\ stable' = image
    /\ UNCHANGED m_state
=============================================================================
