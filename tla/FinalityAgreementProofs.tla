----------------------- MODULE FinalityAgreementProofs ----------------------
(***************************************************************************)
(* Two checkpoints certified by one validator set lie on one chain, for    *)
(* every tree of blocks, every choice of sets with fewer than a third of   *)
(* faulty members, and every interleaving of votes, blocks and unlocks.    *)
(*                                                                         *)
(* The inductive invariant remembers why a vote b may be off a validator's *)
(* later votes: only if the lock was moved by a certificate that conflicts *)
(* with b.  Whenever a checkpoint is certified, every lower one off its    *)
(* chain has then been passed over by a quorum (ConflictsPassed), either   *)
(* by the signers of this certificate or by those of an earlier one, and   *)
(* what a quorum has passed over stays passed over.                        *)
(***************************************************************************)
EXTENDS FinalityAgreement, FiniteSetTheorems, TLAPS

\* A certificate of b's set, not above a height, conflicts with b.
Overridden(b, height) ==
    \E c \in CertifiedBlocks :
        /\ SetOf[c] = SetOf[b]
        /\ HeightOf[b] < HeightOf[c] /\ HeightOf[c] <= height
        /\ b \notin Ancestors[c]

LocksHold ==
    \A v \in Validators : \A b \in votes[v] :
        /\ lock[v] # NoBlock
        /\ HeightOf[b] <= HeightOf[lock[v]]
        /\ EpochOf(b) <= EpochOf(lock[v])
        /\ SetOf[b] = SetOf[lock[v]] =>
              b \in Ancestors[lock[v]] \/ Overridden(b, HeightOf[lock[v]])

VotesHold ==
    \A v \in Validators : \A b, c \in votes[v] :
        SetOf[b] = SetOf[c] /\ HeightOf[b] <= HeightOf[c] =>
            b \in Ancestors[c] \/ Overridden(b, HeightOf[c])

IncludedCertified ==
    \A t \in Blocks : carried[t] # NoBlock => Certified(carried[t])

SafetyInv ==
    TypeOK /\ LocksHold /\ VotesHold /\ IncludedCertified /\ ConflictsPassed

-----------------------------------------------------------------------------
(* Quorums.                                                                *)

\* Two headcount quorums of one set share a member that is not faulty.
LEMMA QuorumsMeet ==
    ASSUME NEW b \in Blocks, FaultBound,
           NEW q1 \in SUBSET Members(SetOf[b]), QuorumSigned(b, q1),
           NEW q2 \in SUBSET Members(SetOf[b]), QuorumSigned(b, q2)
    PROVE  \E v \in q1 \cap q2 : v \notin Faulty
<1> DEFINE M == Members(SetOf[b])
           n == Cardinality(M)
           F == Faulty \cap M
<1>1. IsFiniteSet(M)
  BY SetAssumption
<1>2. /\ IsFiniteSet(q1) /\ IsFiniteSet(q2) /\ IsFiniteSet(F)
      /\ IsFiniteSet(q1 \cap q2) /\ IsFiniteSet(q1 \cup q2)
  BY <1>1, FS_Subset
<1>3. /\ n \in Nat /\ Cardinality(q1) \in Nat /\ Cardinality(q2) \in Nat
      /\ Cardinality(q1 \cap q2) \in Nat /\ Cardinality(q1 \cup q2) \in Nat
      /\ Cardinality(F) \in Nat
  BY <1>1, <1>2, FS_CardinalityType
<1>4. /\ Cardinality(q1) >= (2 * n) \div 3 + 1
      /\ Cardinality(q2) >= (2 * n) \div 3 + 1
  BY DEF QuorumSigned, VerifyFinalityCertificate, FinalityHeadcountQuorum
<1>5. 3 * ((2 * n) \div 3 + 1) > 2 * n
  BY <1>3
<1>6. 3 * Cardinality(q1) > 2 * n /\ 3 * Cardinality(q2) > 2 * n
  BY <1>3, <1>4, <1>5
<1>7. Cardinality(q1 \cup q2)
         = Cardinality(q1) + Cardinality(q2) - Cardinality(q1 \cap q2)
  BY <1>2, FS_Union
<1>8. Cardinality(q1 \cup q2) <= n
  BY <1>1, FS_Subset
<1>9. 3 * Cardinality(F) < n
  BY DEF FaultBound
<1>10. SUFFICES ASSUME q1 \cap q2 \subseteq F PROVE FALSE
  OBVIOUS
<1>11. Cardinality(q1 \cap q2) <= Cardinality(F)
  BY <1>2, <1>10, FS_Subset
<1>12. QED
  BY <1>3, <1>6, <1>7, <1>8, <1>9, <1>11

\* Being a quorum depends on the set alone.
LEMMA QuorumOfSet ==
    ASSUME NEW b \in Blocks, NEW c \in Blocks, SetOf[b] = SetOf[c],
           NEW signers, QuorumSigned(b, signers)
    PROVE  QuorumSigned(c, signers)
  BY DEF QuorumSigned, VerifyFinalityCertificate

\* What a quorum has passed over is not certified.
LEMMA PassedNotCertified ==
    ASSUME FaultBound, NEW b \in Blocks, Certified(b), Passed(b)
    PROVE  FALSE
<1>1. PICK q1 \in SUBSET Signers(b) : QuorumSigned(b, q1)
  BY DEF Certified
<1>2. PICK q2 \in SUBSET Passers(b) : QuorumSigned(b, q2)
  BY DEF Passed
<1>3. q1 \in SUBSET Members(SetOf[b]) /\ q2 \in SUBSET Members(SetOf[b])
  BY <1>1, <1>2 DEF Signers, Passers
<1>4. PICK v \in q1 \cap q2 : v \notin Faulty
  BY <1>1, <1>2, <1>3, QuorumsMeet
<1>5. QED
  BY <1>1, <1>2, <1>4 DEF Signers, Signs, Passers, HasPassed

-----------------------------------------------------------------------------
(* Type correctness.                                                       *)

\* The initial state is well typed.
LEMMA InitType == Init => TypeOK
  BY DEF Init, TypeOK

\* The members of a validator set are validators.
LEMMA MemberIsValidator ==
    ASSUME NEW b \in Blocks, NEW v \in Members(SetOf[b])
    PROVE  v \in Validators
  BY SetAssumption

\* Every step keeps the variables well typed and the watermark on top.
LEMMA NextType == TypeOK /\ [Next]_vars => TypeOK'
<1> SUFFICES ASSUME TypeOK, [Next]_vars PROVE TypeOK'
  OBVIOUS
<1> USE ChainAssumption
<1>1. ASSUME NEW tip \in Blocks, NEW c \in Blocks \cup {NoBlock},
             Produce(tip, c)
      PROVE  TypeOK'
  BY <1>1 DEF TypeOK, Produce
<1>2. ASSUME NEW v \in Validators, NEW b \in Blocks, NEW tip \in Blocks,
             Vote(v, b, tip)
      PROVE  TypeOK'
  <2>1. /\ mined' \subseteq Blocks
        /\ carried' \in [Blocks -> Blocks \cup {NoBlock}]
        /\ last' \in [Validators -> Blocks \cup {NoBlock}]
        /\ lock' \in [Validators -> Blocks \cup {NoBlock}]
        /\ votes' \in [Validators -> SUBSET Blocks]
    BY <1>2 DEF TypeOK, Vote
  <2>2. ASSUME NEW w \in Validators, NEW x \in votes'[w]
        PROVE  /\ w \in Members(SetOf[x])
               /\ last'[w] # NoBlock /\ HeightOf[x] <= HeightOf[last'[w]]
    <3>1. CASE w = v /\ x = b
      BY <1>2, <3>1 DEF TypeOK, Vote
    <3>2. CASE w = v /\ x # b
      <4>1. x \in votes[v] /\ last'[v] = b
        BY <1>2, <2>2, <3>2 DEF TypeOK, Vote
      <4>2. HeightOf[x] <= HeightOf[last[v]] /\ HeightOf[b] > HeightOf[last[v]]
        BY <1>2, <4>1 DEF TypeOK, Vote, AboveWatermark, Above
      <4>3. x \in Blocks /\ last[v] \in Blocks
        BY <4>1 DEF TypeOK
      <4>4. QED
        BY <3>2, <4>1, <4>2, <4>3 DEF TypeOK
    <3>3. CASE w # v
      BY <1>2, <2>2, <3>3 DEF TypeOK, Vote
    <3>4. QED
      BY <3>1, <3>2, <3>3
  <2>3. QED
    BY <2>1, <2>2 DEF TypeOK
<1>3. ASSUME NEW v \in Validators, NEW c \in Blocks, NEW tip \in Blocks,
             UnlockByCertificate(v, c, tip)
      PROVE  TypeOK'
  BY <1>3 DEF TypeOK, UnlockByCertificate
<1>4. CASE UNCHANGED vars
  BY <1>4 DEF TypeOK, vars
<1>5. QED
  BY <1>1, <1>2, <1>3, <1>4 DEF Next

(* The type invariant: every vote was cast as a member of its set, and none
   lies above the journal's last vote. *)
THEOREM TypeCorrect == Spec => []TypeOK
  BY InitType, NextType, PTL DEF Spec

-----------------------------------------------------------------------------
(* A vote.                                                                 *)

\* Votes only add to certificates.
LEMMA CertifiedGrows ==
    ASSUME TypeOK, NEW v \in Validators, NEW b \in Blocks, NEW tip \in Blocks,
           Vote(v, b, tip), NEW c \in Blocks, Certified(c)
    PROVE  Certified(c)'
<1>1. Signers(c) \subseteq Signers(c)'
  <2> SUFFICES ASSUME NEW w \in Signers(c) PROVE w \in Signers(c)'
    OBVIOUS
  <2>1. w \in Members(SetOf[c]) /\ w \in Validators
    BY MemberIsValidator DEF Signers
  <2>2. votes[w] \subseteq votes'[w]
    BY <2>1 DEF TypeOK, Vote
  <2>3. QED
    BY <2>1, <2>2 DEF Signers, Signs
<1>2. QED
  BY <1>1 DEF Certified, QuorumSigned

\* No journal votes below its watermark, so what was passed over stays so.
LEMMA PassedStays ==
    ASSUME TypeOK, NEW v \in Validators, NEW b \in Blocks, NEW tip \in Blocks,
           Vote(v, b, tip), NEW c \in Blocks, Passed(c)
    PROVE  Passed(c)'
<1>1. Passers(c) \subseteq Passers(c)'
  <2> SUFFICES ASSUME NEW w \in Passers(c), w \notin Faulty
               PROVE  HasPassed(w, c)'
    BY DEF Passers
  <2>1. w \in Validators /\ HasPassed(w, c)
    BY MemberIsValidator DEF Passers
  <2>2. CASE w = v
    <3>1. last'[v] = b /\ votes'[v] = votes[v] \cup {b}
      BY DEF TypeOK, Vote
    <3>2. /\ last[v] \in Blocks /\ HeightOf[c] <= HeightOf[last[v]]
          /\ HeightOf[b] > HeightOf[last[v]]
      BY <2>1, <2>2 DEF TypeOK, Vote, AboveWatermark, Above, HasPassed
    <3>3. {HeightOf[b], HeightOf[c], HeightOf[last[v]]} \subseteq Nat
      BY <3>2, ChainAssumption
    <3>4. HeightOf[c] <= HeightOf[b] /\ b # c
      BY <3>2, <3>3
    <3>5. QED
      BY <2>1, <2>2, <3>1, <3>4, ChainAssumption DEF HasPassed
  <2>3. CASE w # v
    BY <2>1, <2>3 DEF TypeOK, Vote, HasPassed
  <2>4. QED
    BY <2>2, <2>3
<1>2. QED
  BY <1>1 DEF Passed, QuorumSigned

\* A new vote extends the lock, on the chain that both lie on.
LEMMA VoteExtendsLock ==
    ASSUME TypeOK, NEW v \in Validators, NEW b \in Blocks, NEW tip \in Blocks,
           Vote(v, b, tip), lock[v] # NoBlock
    PROVE  lock[v] \in Ancestors[b] /\ HeightOf[lock[v]] < HeightOf[b]
<1>1. /\ lock[v] \in Blocks /\ lock[v] \in Ancestors[tip]
      /\ b \in Ancestors[tip] /\ HeightOf[b] > HeightOf[lock[v]]
  BY DEF TypeOK, Vote, LockOnChain, AboveWatermark, Above
<1>2. HeightOf[b] \in Nat /\ HeightOf[lock[v]] \in Nat
  BY <1>1, ChainAssumption
<1>3. HeightOf[lock[v]] <= HeightOf[b]
  BY <1>1, <1>2
<1>4. QED
  BY <1>1, <1>2, <1>3, ChainAssumption

\* A vote and the voter's earlier ones: each is an ancestor, or a certificate
\* that was there before the vote conflicts with it.
LEMMA NewVoteHolds ==
    ASSUME TypeOK, LocksHold,
           NEW v \in Validators, NEW b \in Blocks, NEW tip \in Blocks,
           Vote(v, b, tip), NEW x \in votes[v]
    PROVE  /\ HeightOf[x] < HeightOf[b]
           /\ EpochOf(x) <= EpochOf(b)
           /\ SetOf[x] = SetOf[b] =>
                 x \in Ancestors[b] \/ Overridden(x, HeightOf[b])
<1> DEFINE k == lock[v]
<1>1. /\ x \in Blocks /\ k \in Blocks /\ k # NoBlock
      /\ HeightOf[x] <= HeightOf[k] /\ EpochOf(x) <= EpochOf(k)
      /\ SetOf[x] = SetOf[k] => x \in Ancestors[k] \/ Overridden(x, HeightOf[k])
  BY DEF TypeOK, LocksHold
<1>2. k \in Ancestors[b] /\ HeightOf[k] < HeightOf[b]
  BY <1>1, VoteExtendsLock
<1>3. {HeightOf[x], HeightOf[k], HeightOf[b]} \subseteq Nat
  BY <1>1, ChainAssumption
<1>4. {EpochOf(x), EpochOf(k), EpochOf(b)} \subseteq Nat
  BY <1>1, SetAssumption
<1>5. SetOf[b] = SetOf[k] \/ EpochOf(b) = EpochOf(k) + 1
  BY <1>1, SetAssumption DEF Vote, FollowsLineage, EpochOf
<1>6. EpochOf(x) <= EpochOf(b)
  BY <1>1, <1>4, <1>5 DEF EpochOf
<1>7. ASSUME SetOf[x] = SetOf[b]
      PROVE  x \in Ancestors[b] \/ Overridden(x, HeightOf[b])
  <2>1. SetOf[b] = SetOf[k]
    BY <1>1, <1>4, <1>5, <1>7 DEF EpochOf
  <2>2. CASE x \in Ancestors[k]
    BY <1>1, <1>2, <2>2, ChainAssumption
  <2>3. CASE Overridden(x, HeightOf[k])
    <3>1. PICK c \in CertifiedBlocks :
             /\ SetOf[c] = SetOf[x]
             /\ HeightOf[x] < HeightOf[c] /\ HeightOf[c] <= HeightOf[k]
             /\ x \notin Ancestors[c]
      BY <2>3 DEF Overridden
    <3>2. HeightOf[c] \in Nat
      BY ChainAssumption DEF CertifiedBlocks
    <3>3. HeightOf[c] <= HeightOf[b]
      BY <1>2, <1>3, <3>1, <3>2
    <3>4. QED
      BY <3>1, <3>3 DEF Overridden
  <2>4. QED
    BY <1>1, <1>7, <2>1, <2>2, <2>3
<1>8. QED
  BY <1>1, <1>2, <1>3, <1>6, <1>7

\* All votes of all validators after the step, by certificates before it.
LEMMA VotesHoldAfter ==
    ASSUME TypeOK, LocksHold, VotesHold,
           NEW v \in Validators, NEW b \in Blocks, NEW tip \in Blocks,
           Vote(v, b, tip),
           NEW w \in Validators, NEW x \in votes'[w], NEW y \in votes'[w],
           SetOf[x] = SetOf[y], HeightOf[x] <= HeightOf[y]
    PROVE  x \in Ancestors[y] \/ Overridden(x, HeightOf[y])
<1>1. votes'[w] = IF w = v THEN votes[v] \cup {b} ELSE votes[w]
  BY DEF TypeOK, Vote
<1>2. CASE x \in votes[w] /\ y \in votes[w]
  BY <1>2 DEF VotesHold
<1>3. CASE w = v /\ x \in votes[v] /\ y = b
  BY <1>3, NewVoteHolds
<1>4. CASE w = v /\ x = b /\ y = b
  BY <1>4, ChainAssumption
<1>5. CASE w = v /\ x = b /\ y \in votes[v]
  <2>1. HeightOf[y] < HeightOf[b] /\ y \in Blocks
    BY <1>5, NewVoteHolds DEF TypeOK
  <2>2. QED
    BY <1>5, <2>1, ChainAssumption
<1>6. QED
  BY <1>1, <1>2, <1>3, <1>4, <1>5

\* The certificate that overrides a vote is still there after the next one.
LEMMA OverriddenStays ==
    ASSUME TypeOK, NEW v \in Validators, NEW b \in Blocks, NEW tip \in Blocks,
           Vote(v, b, tip), NEW x \in Blocks, NEW h, Overridden(x, h)
    PROVE  Overridden(x, h)'
<1>1. PICK c \in CertifiedBlocks :
         /\ SetOf[c] = SetOf[x]
         /\ HeightOf[x] < HeightOf[c] /\ HeightOf[c] <= h
         /\ x \notin Ancestors[c]
  BY DEF Overridden
<1>2. c \in CertifiedBlocks'
  BY CertifiedGrows DEF CertifiedBlocks
<1>3. QED
  BY <1>1, <1>2 DEF Overridden

\* A vote that completes a certificate completes the passing over of every
\* lower checkpoint off its chain.
LEMMA VoteConflictsPassed ==
    ASSUME TypeOK, TypeOK', LocksHold, VotesHold, ConflictsPassed,
           NEW v \in Validators, NEW b \in Blocks, NEW tip \in Blocks,
           Vote(v, b, tip)
    PROVE  ConflictsPassed'
<1> SUFFICES ASSUME NEW c \in Blocks, Certified(c)',
                    NEW x \in Blocks, x \notin Ancestors[c],
                    SetOf[x] = SetOf[c], HeightOf[x] <= HeightOf[c]
             PROVE  Passed(x)'
  BY DEF ConflictsPassed, CertifiedBlocks
<1>1. PICK q \in SUBSET Signers(c)' : QuorumSigned(c, q)
  BY DEF Certified, QuorumSigned
<1>2. QuorumSigned(x, q)
  BY <1>1, QuorumOfSet
<1>3. CASE \E w \in q : w \notin Faulty /\ x \in votes'[w]
  <2>1. PICK w \in q : w \notin Faulty /\ x \in votes'[w]
    BY <1>3
  <2>2. w \in Validators /\ c \in votes'[w]
    BY <1>1, <2>1, MemberIsValidator DEF Signers, Signs
  <2>3. Overridden(x, HeightOf[c])
    BY <2>1, <2>2, VotesHoldAfter
  <2>4. PICK d \in CertifiedBlocks :
           /\ SetOf[d] = SetOf[x]
           /\ HeightOf[x] < HeightOf[d]
           /\ x \notin Ancestors[d]
    BY <2>3 DEF Overridden
  <2>5. HeightOf[x] <= HeightOf[d]
    BY <2>4, ChainAssumption DEF CertifiedBlocks
  <2>6. Passed(x)
    BY <2>4, <2>5 DEF ConflictsPassed
  <2>7. QED
    BY <2>6, PassedStays
<1>4. CASE \A w \in q : w \notin Faulty => x \notin votes'[w]
  <2>1. ASSUME NEW w \in q PROVE w \in Passers(x)'
    <3>1. w \in Members(SetOf[x])
      BY <1>1 DEF Signers
    <3>2. CASE w \in Faulty
      BY <3>1, <3>2 DEF Passers
    <3>3. CASE w \notin Faulty
      <4>1. w \in Validators /\ c \in votes'[w]
        BY <1>1, <3>1, <3>3, MemberIsValidator DEF Signers, Signs
      <4>2. /\ last'[w] # NoBlock /\ last'[w] \in Blocks
            /\ HeightOf[c] <= HeightOf[last'[w]]
        BY <4>1 DEF TypeOK
      <4>3. {HeightOf[x], HeightOf[c], HeightOf[last'[w]]} \subseteq Nat
        BY <4>2, ChainAssumption
      <4>4. HeightOf[x] <= HeightOf[last'[w]]
        BY <4>2, <4>3
      <4>5. QED
        BY <1>4, <3>1, <3>3, <4>2, <4>4 DEF Passers, HasPassed
    <3>4. QED
      BY <3>2, <3>3
  <2>2. q \in SUBSET Passers(x)'
    BY <2>1
  <2>3. QED
    BY <1>2, <2>2 DEF Passed, QuorumSigned
<1>5. QED
  BY <1>3, <1>4

\* A vote keeps the voter's lock above its votes, and every other lock too.
LEMMA VoteLocksHold ==
    ASSUME TypeOK, LocksHold,
           NEW v \in Validators, NEW b \in Blocks, NEW tip \in Blocks,
           Vote(v, b, tip)
    PROVE  LocksHold'
<1> SUFFICES ASSUME NEW w \in Validators, NEW x \in votes'[w],
                    NEW k, k = lock'[w]
             PROVE  /\ k # NoBlock
                    /\ HeightOf[x] <= HeightOf[k]
                    /\ EpochOf(x) <= EpochOf(k)
                    /\ SetOf[x] = SetOf[k] =>
                          x \in Ancestors[k] \/ Overridden(x, HeightOf[k])'
  BY DEF LocksHold, EpochOf, Overridden
<1>1. CASE w = v
  <2>1. k = b /\ b # NoBlock /\ x \in votes[v] \cup {b}
    BY <1>1, ChainAssumption DEF TypeOK, Vote
  <2>2. CASE x = b
    <3>1. HeightOf[b] \in Nat /\ EpochOf(b) \in Nat /\ b \in Ancestors[b]
      BY ChainAssumption, SetAssumption
    <3>2. QED
      BY <2>1, <2>2, <3>1
  <2>3. CASE x \in votes[v]
    <3>1. /\ HeightOf[x] < HeightOf[b] /\ EpochOf(x) <= EpochOf(b)
          /\ SetOf[x] = SetOf[b] =>
                x \in Ancestors[b] \/ Overridden(x, HeightOf[b])
      BY <2>3, NewVoteHolds
    <3>2. x \in Blocks /\ HeightOf[x] \in Nat /\ HeightOf[b] \in Nat
      BY <2>3, ChainAssumption DEF TypeOK
    <3>3. HeightOf[x] <= HeightOf[b]
      BY <3>1, <3>2
    <3>4. Overridden(x, HeightOf[b]) => Overridden(x, HeightOf[b])'
      BY <3>2, OverriddenStays
    <3>5. QED
      BY <2>1, <3>1, <3>3, <3>4
  <2>4. QED
    BY <2>1, <2>2, <2>3
<1>2. CASE w # v
  <2>1. k = lock[w] /\ x \in votes[w]
    BY <1>2 DEF TypeOK, Vote
  <2>2. x \in Blocks
    BY <2>1 DEF TypeOK
  <2>3. Overridden(x, HeightOf[k]) => Overridden(x, HeightOf[k])'
    BY <2>2, OverriddenStays
  <2>4. /\ k # NoBlock
        /\ HeightOf[x] <= HeightOf[k]
        /\ EpochOf(x) <= EpochOf(k)
        /\ SetOf[x] = SetOf[k] =>
              x \in Ancestors[k] \/ Overridden(x, HeightOf[k])
    BY <2>1 DEF LocksHold
  <2>5. QED
    BY <2>3, <2>4
<1>3. QED
  BY <1>1, <1>2

\* A vote keeps what VotesHold says of all votes.
LEMMA VoteVotesHold ==
    ASSUME TypeOK, TypeOK', LocksHold, VotesHold,
           NEW v \in Validators, NEW b \in Blocks, NEW tip \in Blocks,
           Vote(v, b, tip)
    PROVE  VotesHold'
<1> SUFFICES ASSUME NEW w \in Validators,
                    NEW x \in votes'[w], NEW y \in votes'[w],
                    SetOf[x] = SetOf[y], HeightOf[x] <= HeightOf[y]
             PROVE  x \in Ancestors[y] \/ Overridden(x, HeightOf[y])'
  BY DEF VotesHold
<1>1. x \in Ancestors[y] \/ Overridden(x, HeightOf[y])
  BY VotesHoldAfter
<1>2. x \in Blocks
  BY DEF TypeOK
<1>3. QED
  BY <1>1, <1>2, OverriddenStays

-----------------------------------------------------------------------------
(* Blocks and unlocks leave the votes, and so the certificates, alone.     *)

\* Without a vote nothing changes that is said of votes and certificates.
LEMMA SameVotes ==
    ASSUME UNCHANGED <<last, votes>>
    PROVE  /\ \A c \in Blocks : Certified(c)' <=> Certified(c)
           /\ CertifiedBlocks' = CertifiedBlocks
           /\ \A b \in Blocks : Passed(b)' <=> Passed(b)
           /\ VotesHold' <=> VotesHold
           /\ ConflictsPassed' <=> ConflictsPassed
<1>1. \A c \in Blocks : Certified(c)' <=> Certified(c)
  BY DEF Certified, Signers, Signs, QuorumSigned
<1>2. CertifiedBlocks' = CertifiedBlocks
  BY <1>1 DEF CertifiedBlocks
<1>3. \A b \in Blocks : Passed(b)' <=> Passed(b)
  BY DEF Passed, Passers, HasPassed, QuorumSigned
<1>4. VotesHold' <=> VotesHold
  BY <1>2 DEF VotesHold, Overridden
<1>5. ConflictsPassed' <=> ConflictsPassed
  BY <1>2, <1>3 DEF ConflictsPassed
<1>6. QED
  BY <1>1, <1>2, <1>3, <1>4, <1>5

\* A lock moved by a certificate stays above the votes, and the certificate
\* itself overrides those it conflicts with.
LEMMA UnlockLocksHold ==
    ASSUME TypeOK, LocksHold, IncludedCertified,
           NEW v \in Validators, NEW c \in Blocks, NEW tip \in Blocks,
           UnlockByCertificate(v, c, tip)
    PROVE  LocksHold'
<1>1. UNCHANGED <<last, votes>>
  BY DEF UnlockByCertificate
<1>2. CertifiedBlocks' = CertifiedBlocks
  BY <1>1, SameVotes
<1>3. c \in CertifiedBlocks
  <2>1. PICK d \in Ancestors[tip] : carried[d] = c
    BY DEF UnlockByCertificate, Included
  <2>2. d \in Blocks /\ c # NoBlock
    BY ChainAssumption
  <2>3. QED
    BY <2>1, <2>2 DEF IncludedCertified, CertifiedBlocks
<1> SUFFICES ASSUME NEW w \in Validators, NEW x \in votes[w],
                    NEW k, k = lock'[w]
             PROVE  /\ k # NoBlock
                    /\ HeightOf[x] <= HeightOf[k]
                    /\ EpochOf(x) <= EpochOf(k)
                    /\ SetOf[x] = SetOf[k] =>
                          x \in Ancestors[k] \/ Overridden(x, HeightOf[k])
  BY <1>1, <1>2 DEF LocksHold, EpochOf, Overridden
<1>4. CASE w = v
  <2> DEFINE l == lock[v]
  <2>1. k = c /\ c # NoBlock /\ x \in Blocks /\ l \in Blocks
    BY <1>4, ChainAssumption DEF TypeOK, UnlockByCertificate
  <2>2. HeightOf[c] > HeightOf[l] /\ SetOf[c] = SetOf[l]
    BY DEF UnlockByCertificate, Unlocks
  <2>3. HeightOf[x] <= HeightOf[l] /\ EpochOf(x) <= EpochOf(l)
    BY <1>4 DEF LocksHold
  <2>4. {HeightOf[x], HeightOf[c], HeightOf[l]} \subseteq Nat
    BY <2>1, ChainAssumption
  <2>5. HeightOf[x] < HeightOf[c] /\ HeightOf[x] <= HeightOf[c]
        /\ HeightOf[c] <= HeightOf[c]
    BY <2>2, <2>3, <2>4
  <2>6. EpochOf(x) <= EpochOf(c)
    BY <2>2, <2>3 DEF EpochOf
  <2>7. SetOf[x] = SetOf[c] =>
           x \in Ancestors[c] \/ Overridden(x, HeightOf[c])
    BY <1>3, <2>5 DEF Overridden
  <2>8. QED
    BY <2>1, <2>5, <2>6, <2>7
<1>5. CASE w # v
  <2>1. k = lock[w]
    BY <1>5 DEF TypeOK, UnlockByCertificate
  <2>2. QED
    BY <2>1 DEF LocksHold
<1>6. QED
  BY <1>4, <1>5

-----------------------------------------------------------------------------
(* The inductive invariant.                                                *)

\* Before the first vote there is no certificate: a quorum needs a member
\* that is not faulty.
LEMMA InitSafe ==
    ASSUME FaultBound, Init
    PROVE  SafetyInv
<1>1. TypeOK
  BY InitType
<1>2. \A v \in Validators : votes[v] = {}
  BY DEF Init
<1>3. LocksHold /\ VotesHold
  BY <1>2 DEF LocksHold, VotesHold
<1>4. IncludedCertified
  BY DEF Init, IncludedCertified
<1>5. ASSUME NEW c \in Blocks, Certified(c)
      PROVE  FALSE
  <2>1. PICK q \in SUBSET Signers(c) : QuorumSigned(c, q)
    BY <1>5 DEF Certified
  <2>2. q \in SUBSET Members(SetOf[c])
    BY <2>1 DEF Signers
  <2>3. PICK v \in q \cap q : v \notin Faulty
    BY <2>1, <2>2, QuorumsMeet
  <2>4. v \in Validators /\ c \in votes[v]
    BY <2>1, <2>3, MemberIsValidator DEF Signers, Signs
  <2>5. QED
    BY <1>2, <2>4
<1>6. ConflictsPassed
  BY <1>5 DEF ConflictsPassed, CertifiedBlocks
<1>7. QED
  BY <1>1, <1>3, <1>4, <1>6 DEF SafetyInv

\* Every action preserves the invariant.
LEMMA NextSafe == SafetyInv /\ [Next]_vars => SafetyInv'
<1> SUFFICES ASSUME SafetyInv, [Next]_vars PROVE SafetyInv'
  OBVIOUS
<1>1. TypeOK'
  BY NextType DEF SafetyInv
<1>2. ASSUME NEW tip \in Blocks, NEW c \in Blocks \cup {NoBlock},
             Produce(tip, c)
      PROVE  SafetyInv'
  <2>1. UNCHANGED <<last, votes>> /\ lock' = lock
    BY <1>2 DEF Produce
  <2>2. /\ CertifiedBlocks' = CertifiedBlocks
        /\ \A d \in Blocks : Certified(d)' <=> Certified(d)
        /\ VotesHold' /\ ConflictsPassed'
    BY <2>1, SameVotes DEF SafetyInv
  <2>3. LocksHold'
    BY <2>1, <2>2 DEF SafetyInv, LocksHold, Overridden, EpochOf
  <2>4. ASSUME NEW t \in Blocks, NEW d, d = carried'[t], d # NoBlock
        PROVE  Certified(d)
    <3>1. CASE t = tip
      <4>1. d = c
        BY <1>2, <2>4, <3>1 DEF SafetyInv, TypeOK, Produce
      <4>2. QED
        BY <1>2, <2>4, <4>1 DEF Produce, MayCarry
    <3>2. CASE t # tip
      <4>1. d = carried[t]
        BY <1>2, <2>4, <3>2 DEF SafetyInv, TypeOK, Produce
      <4>2. QED
        BY <2>4, <4>1 DEF SafetyInv, IncludedCertified
    <3>3. QED
      BY <3>1, <3>2
  <2>5. IncludedCertified'
    <3> SUFFICES ASSUME NEW t \in Blocks, NEW d, d = carried'[t], d # NoBlock
                 PROVE  Certified(d)'
      BY DEF IncludedCertified, Certified, QuorumSigned, Signers, Signs
    <3>1. d \in Blocks
      BY <1>1 DEF TypeOK
    <3>2. QED
      BY <2>2, <2>4, <3>1
  <2>6. QED
    BY <1>1, <2>2, <2>3, <2>5 DEF SafetyInv
<1>3. ASSUME NEW v \in Validators, NEW b \in Blocks, NEW tip \in Blocks,
             Vote(v, b, tip)
      PROVE  SafetyInv'
  <2>1. LocksHold'
    BY <1>3, VoteLocksHold DEF SafetyInv
  <2>2. VotesHold'
    BY <1>1, <1>3, VoteVotesHold DEF SafetyInv
  <2>3. ConflictsPassed'
    BY <1>1, <1>3, VoteConflictsPassed DEF SafetyInv
  <2>4. IncludedCertified'
    <3> SUFFICES ASSUME NEW t \in Blocks, NEW d, d = carried'[t], d # NoBlock
                 PROVE  Certified(d)'
      BY DEF IncludedCertified, Certified, QuorumSigned, Signers, Signs
    <3>1. d = carried[t] /\ d \in Blocks
      BY <1>1, <1>3 DEF TypeOK, Vote
    <3>2. Certified(d)
      BY <3>1 DEF SafetyInv, IncludedCertified
    <3>3. QED
      BY <1>3, <3>1, <3>2, CertifiedGrows DEF SafetyInv
  <2>5. QED
    BY <1>1, <2>1, <2>2, <2>3, <2>4 DEF SafetyInv
<1>4. ASSUME NEW v \in Validators, NEW c \in Blocks, NEW tip \in Blocks,
             UnlockByCertificate(v, c, tip)
      PROVE  SafetyInv'
  <2>1. UNCHANGED <<last, votes>> /\ carried' = carried
    BY <1>4 DEF UnlockByCertificate
  <2>2. VotesHold' /\ ConflictsPassed'
    BY <2>1, SameVotes DEF SafetyInv
  <2>3. LocksHold'
    BY <1>4, UnlockLocksHold DEF SafetyInv
  <2>4. IncludedCertified'
    BY <2>1 DEF SafetyInv, IncludedCertified, Certified, Signers, Signs,
                QuorumSigned
  <2>5. QED
    BY <1>1, <2>2, <2>3, <2>4 DEF SafetyInv
<1>5. CASE UNCHANGED vars
  <2>1. UNCHANGED <<last, votes>> /\ carried' = carried /\ lock' = lock
    BY <1>5 DEF vars
  <2>2. VotesHold' /\ ConflictsPassed' /\ CertifiedBlocks' = CertifiedBlocks
    BY <2>1, SameVotes DEF SafetyInv
  <2>3. LocksHold'
    BY <2>1, <2>2 DEF SafetyInv, LocksHold, Overridden, EpochOf
  <2>4. IncludedCertified'
    BY <2>1 DEF SafetyInv, IncludedCertified, Certified, Signers, Signs,
                QuorumSigned
  <2>5. QED
    BY <1>1, <2>2, <2>3, <2>4 DEF SafetyInv
<1>6. QED
  BY <1>2, <1>3, <1>4, <1>5 DEF Next

(* Under the fault bound the invariant holds of every behaviour, and with it
   that a conflict with a certificate is passed over for good: no late vote
   can complete the certificate of an abandoned branch. *)
THEOREM ConflictsArePassed ==
    ASSUME FaultBound
    PROVE  Spec => []ConflictsPassed
<1>1. Init => SafetyInv
  BY InitSafe
<1>2. SafetyInv => ConflictsPassed
  BY DEF SafetyInv
<1>3. QED
  BY <1>1, <1>2, NextSafe, PTL DEF Spec

\* The invariant leaves no room for two conflicting certificates of a set.
LEMMA SafeAgrees ==
    ASSUME FaultBound, SafetyInv
    PROVE  Agreement
<1> SUFFICES ASSUME NEW a \in CertifiedBlocks, NEW b \in CertifiedBlocks,
                    SetOf[a] = SetOf[b], ~Compatible(a, b)
             PROVE  FALSE
  BY DEF Agreement
<1>1. /\ a \in Blocks /\ b \in Blocks /\ Certified(a) /\ Certified(b)
      /\ a \notin Ancestors[b] /\ b \notin Ancestors[a]
  BY DEF CertifiedBlocks, Compatible
<1>2. HeightOf[a] <= HeightOf[b] \/ HeightOf[b] <= HeightOf[a]
  BY <1>1, ChainAssumption
<1>3. Passed(a) \/ Passed(b)
  BY <1>1, <1>2 DEF SafetyInv, ConflictsPassed
<1>4. QED
  BY <1>1, <1>3, PassedNotCertified

(* Finality: two checkpoints certified by one validator set never conflict,
   while fewer than a third of its members are faulty. *)
THEOREM AgreementHolds ==
    ASSUME FaultBound
    PROVE  Spec => []Agreement
<1>1. Init => SafetyInv
  BY InitSafe
<1>2. SafetyInv => Agreement
  BY SafeAgrees
<1>3. QED
  BY <1>1, <1>2, NextSafe, PTL DEF Spec
=============================================================================
