------------------------ MODULE FinalityTrackerProofs -----------------------
(***************************************************************************)
(* What TLAPS proves of FinalityTracker and of the epoch rules below it,   *)
(* for every schedule, every registry and chains of any length: the        *)
(* incremental state is the state of a walk, and every walk over judged    *)
(* blocks hands over, rotates and breaks off as the rules promise.         *)
(***************************************************************************)
EXTENDS FinalityTracker, NaturalFacts, SequenceTheorems

-----------------------------------------------------------------------------
(* The walk.                                                               *)

\* The state as of a height on a chain.
StateAt(c, b, h) == StateFrom(c, b, 0, InitialState, h)

\* One block of the walk.
Advance(c, b, s, h) ==
    IF h < ModernStart THEN s
    ELSE ApplyModern(s, h, RegistryOf(c, b, h - 1), c[h].cert)

\* The loop of StateFrom.
IsWalk(f, c, b, n) ==
    f = [h \in 0..n |->
            IF h = 0 THEN InitialState
            ELSE IF h < ModernStart THEN f[h - 1]
            ELSE ApplyModern(f[h - 1], h, RegistryOf(c, b, h - 1), c[h].cert)]

(* A walk starts from the empty state and advances block by block. *)
LEMMA WalkSteps ==
    ASSUME NEW f, NEW c, NEW b, NEW n \in Nat, IsWalk(f, c, b, n)
    PROVE  /\ f[0] = InitialState
           /\ \A h \in 0..n : h # 0 => f[h] = Advance(c, b, f[h - 1], h)
BY DEF IsWalk, Advance

(* A walk reaches every height. *)
LEMMA WalkExists ==
    ASSUME NEW c, NEW b, NEW n \in Nat
    PROVE  \E f : IsWalk(f, c, b, n)
<1> DEFINE T == {m \in 0..n : \E g : IsWalk(g, c, b, m)}
<1>0. n \in Int /\ 0 \in Int /\ 0 <= n
  OBVIOUS
<1>1. 0 \in T
  <2> DEFINE g == [h \in 0..0 |-> InitialState]
  <2>1. IsWalk(g, c, b, 0)
    BY DEF IsWalk
  <2> QED BY <1>0, <2>1
<1>2. ASSUME NEW m \in 0..n, m # 0, m - 1 \in T PROVE m \in T
  <2>1. PICK g : IsWalk(g, c, b, m - 1)
    BY <1>2
  <2>2. m \in Nat /\ m - 1 \in Nat
    BY <1>2
  <2>3. /\ g[0] = InitialState
        /\ \A h \in 0..(m - 1) : h # 0 => g[h] = Advance(c, b, g[h - 1], h)
    BY <2>1, <2>2, WalkSteps
  <2> DEFINE k == [h \in 0..m |-> IF h = m THEN Advance(c, b, g[m - 1], m)
                                           ELSE g[h]]
  <2>4. ASSUME NEW h \in 0..m
        PROVE  k[h] = IF h = 0 THEN InitialState ELSE Advance(c, b, k[h - 1], h)
    <3>1. CASE h = 0
      BY <1>2, <2>2, <2>3, <3>1
    <3>2. CASE h # 0 /\ h = m
      <4>1. k[m - 1] = g[m - 1]
        BY <2>2
      <4> QED BY <3>2, <4>1
    <3>3. CASE h # 0 /\ h # m
      <4>1. h \in 0..(m - 1) /\ h - 1 \in 0..m /\ h - 1 # m
        BY <2>2, <3>3
      <4>2. g[h] = Advance(c, b, g[h - 1], h)
        BY <2>3, <3>3, <4>1
      <4>3. k[h] = g[h] /\ k[h - 1] = g[h - 1]
        BY <3>3, <4>1
      <4> QED BY <3>3, <4>2, <4>3
    <3> QED BY <3>1, <3>2, <3>3
  <2>5. k = [h \in 0..m |-> k[h]]
    OBVIOUS
  <2> HIDE DEF k
  <2>6. k = [h \in 0..m |-> IF h = 0 THEN InitialState
                                      ELSE Advance(c, b, k[h - 1], h)]
    BY <2>4, <2>5
  <2>7. IsWalk(k, c, b, m)
    BY <2>6 DEF IsWalk, Advance
  <2> QED BY <2>7
<1>3. \A m \in 0..n : m # 0 /\ m - 1 \in T => m \in T
  BY <1>2
<1>4. \A m \in 0..n : m \in T
  <2> HIDE DEF T
  <2> QED BY <1>0, <1>1, <1>3, InductionUpTo
<1>5. n \in T
  BY <1>4
<1> QED BY <1>5

\* Two chains with the same blocks up to a height.
SameBlocks(c, d, n) == \A i \in 1..n : c[i] = d[i]

(* Walks of two chains agree as far as the blocks do. *)
LEMMA WalksAgree ==
    ASSUME NEW c, NEW d, NEW b, NEW n \in Nat, \A i \in 1..n : c[i] = d[i],
           NEW m \in Nat, n <= m,
           NEW f, IsWalk(f, c, b, n), NEW g, IsWalk(g, d, b, m)
    PROVE  \A h \in 0..n : f[h] = g[h]
<1> DEFINE T == {h \in 0..n : f[h] = g[h]}
<1>0. n \in Int /\ 0 \in Int /\ 0 <= n
  OBVIOUS
<1>1. f[0] = InitialState /\ g[0] = InitialState
  BY WalkSteps
<1>2. 0 \in T
  BY <1>0, <1>1
<1>3. ASSUME NEW h \in 0..n, h # 0, h - 1 \in T PROVE h \in T
  <2>1. f[h] = Advance(c, b, f[h - 1], h)
    BY <1>3, WalkSteps
  <2>2. h \in 0..m
    OBVIOUS
  <2>3. g[h] = Advance(d, b, g[h - 1], h)
    BY <1>3, <2>2, WalkSteps
  <2>4. c[h] = d[h] /\ (h - 1 # 0 => c[h - 1] = d[h - 1])
    BY <1>3
  <2>5. RegistryOf(c, b, h - 1) = RegistryOf(d, b, h - 1)
    BY <2>4 DEF RegistryOf
  <2>6. f[h - 1] = g[h - 1]
    BY <1>3
  <2>7. f[h] = g[h]
    BY <2>1, <2>3, <2>4, <2>5, <2>6 DEF Advance
  <2> QED BY <2>7
<1>4. \A h \in 0..n : h # 0 /\ h - 1 \in T => h \in T
  BY <1>3
<1>5. \A h \in 0..n : h \in T
  <2> HIDE DEF T
  <2> QED BY <1>0, <1>2, <1>4, InductionUpTo
<1> QED BY <1>5

(* StateFrom is that walk. *)
LEMMA StateAtWalks ==
    ASSUME NEW c, NEW b, NEW n \in Nat
    PROVE  \E f : IsWalk(f, c, b, n) /\ StateAt(c, b, n) = f[n]
<1> DEFINE f == CHOOSE g : IsWalk(g, c, b, n)
<1>1. IsWalk(f, c, b, n)
  BY WalkExists
<1>2. StateAt(c, b, n) = f[n]
  BY DEF StateAt, StateFrom, IsWalk
<1> QED BY <1>1, <1>2

(* The state as of a height depends on the blocks up to it only. *)
LEMMA StateOfPrefix ==
    ASSUME NEW c, NEW d, NEW b, NEW n \in Nat, SameBlocks(c, d, n)
    PROVE  \A h \in 0..n : StateAt(c, b, h) = StateAt(d, b, h)
<1> SUFFICES ASSUME NEW h \in 0..n PROVE StateAt(c, b, h) = StateAt(d, b, h)
  OBVIOUS
<1>1. h \in Nat /\ \A i \in 1..h : c[i] = d[i]
  BY DEF SameBlocks
<1>2. PICK f : IsWalk(f, c, b, h) /\ StateAt(c, b, h) = f[h]
  BY <1>1, StateAtWalks
<1>3. PICK g : IsWalk(g, d, b, h) /\ StateAt(d, b, h) = g[h]
  BY <1>1, StateAtWalks
<1>4. f[h] = g[h]
  BY <1>1, <1>2, <1>3, WalksAgree
<1> QED BY <1>2, <1>3, <1>4

(* Each block of the chain advances the state by one step of the rules. *)
LEMMA StateAdvances ==
    ASSUME NEW c, NEW b
    PROVE  /\ StateAt(c, b, 0) = InitialState
           /\ \A h \in Nat : h # 0 =>
                 StateAt(c, b, h) = Advance(c, b, StateAt(c, b, h - 1), h)
<1>1. StateAt(c, b, 0) = InitialState
  <2>1. PICK f : IsWalk(f, c, b, 0) /\ StateAt(c, b, 0) = f[0]
    BY StateAtWalks
  <2> QED BY <2>1, WalkSteps
<1>2. ASSUME NEW h \in Nat, h # 0
      PROVE  StateAt(c, b, h) = Advance(c, b, StateAt(c, b, h - 1), h)
  <2>0. h - 1 \in Nat /\ h - 1 <= h /\ \A i \in 1..(h - 1) : c[i] = c[i]
    BY <1>2
  <2>1. PICK f : IsWalk(f, c, b, h) /\ StateAt(c, b, h) = f[h]
    BY StateAtWalks
  <2>2. PICK g : IsWalk(g, c, b, h - 1) /\ StateAt(c, b, h - 1) = g[h - 1]
    BY <2>0, StateAtWalks
  <2>3. g[h - 1] = f[h - 1]
    BY <2>0, <2>1, <2>2, WalksAgree
  <2>4. f[h] = Advance(c, b, f[h - 1], h)
    BY <1>2, <2>1, WalkSteps
  <2> QED BY <2>1, <2>2, <2>3, <2>4
<1> QED BY <1>1, <1>2

-----------------------------------------------------------------------------
(* The inductive invariant.                                                *)

Finalizeds == [height : Int, block : Int, epoch : Int, certified_at : Int]
States == [bootstrapped : BOOLEAN, epoch : Nat, epoch_starts : Seq(Nat),
           bootstrap : Sets, previous : Sets, current : Sets, next : Sets,
           handover_certified : BOOLEAN, lineage_broken : BOOLEAN,
           finalized : Finalizeds]
Certs == [height : Int, block : Int, epoch : Int, successor : Sets,
          signers : SignerSets \cup {{}}]
Blocks == [hash : Nat, cert : Certs, registry : Registries]

\* Every certificate on the chain was judged against the projected state of
\* the block that carries it, which is still the state a walk gives there.
ProjectedAt(c, b, h) ==
    Projected(StateAt(c, b, h - 1), h, RegistryOf(c, b, h - 1))
Below(c, h) == [i \in 1..(h - 1) |-> c[i].hash]
JudgedAt(c, b, h) ==
    JudgeCoinbaseCertificate(c[h].cert, h, ProjectedAt(c, b, h), Below(c, h))

ChainOK ==
    /\ chain \in Seq(Blocks) /\ Len(chain) <= MaxHeight
    /\ produced \in 0..MaxBlocks /\ boundary \in Registries
    /\ \A h \in 1..Len(chain) : chain[h].hash \in 1..produced
    /\ \A h \in 1..Len(chain) : JudgedAt(chain, boundary, h)

\* A tracker that is not dirty stands at the tip, with the state of a walk.
TrackerOK ==
    /\ m_state \in States /\ registry \in Registries \cup {<<>>}
    /\ m_synced_height \in Heights \cup {-1} /\ m_dirty \in BOOLEAN
    /\ ~m_dirty => /\ m_synced_tip = HashAt(TipHeight)
                   /\ m_state = StateAt(chain, boundary, TipHeight)
                   /\ registry = RegistryAt(TipHeight)

TrackerInv == ChainOK /\ TrackerOK

-----------------------------------------------------------------------------
(* What holds of the state along a walk.                                   *)

Limit == EpochBlocks + MaxEpochExtension

\* The certificate of an epoch by a double quorum of its set, for its successor.
Authorizes(cert, epoch, old, new) ==
    /\ cert.epoch = epoch /\ old.epoch = epoch /\ new.epoch = epoch + 1
    /\ VerifyFinalityCertificate(cert, old, new)

\* Epoch e was opened at `start' by such a certificate below it.
Opened(c, b, e, start) ==
    \E g \in ModernStart..(start - 1) :
        Authorizes(c[g].cert, e - 1, StateAt(c, b, start - 1).current,
                                     StateAt(c, b, start).current)

\* The state s at a height h >= ModernStart, with the certificates of the
\* blocks up to `top' accounted for (h - 1 for a projected state).
EpochsOK(c, b, s, h, top) ==
    /\ s \in States
    /\ Len(s.epoch_starts) = s.epoch + 1
    /\ EpochStart(s) \in ModernStart..h
    /\ ~s.bootstrapped => /\ s.current = NoSet
                          /\ ~s.handover_certified /\ ~s.lineage_broken
    /\ s.bootstrapped =>
          s.current.epoch = s.epoch /\ s.next.epoch = s.epoch + 1
    /\ \A i \in 1..s.epoch :
          s.epoch_starts[i + 1] - s.epoch_starts[i] \in EpochBlocks..Limit
    /\ s.lineage_broken =>
          /\ ~s.handover_certified
          /\ \A g \in (EpochStart(s) + Limit)..top : c[g].cert = NoCert
    /\ s.bootstrapped /\ ~s.lineage_broken => h - EpochStart(s) < Limit
    /\ s.handover_certified =>
          \E g \in ModernStart..top :
             Authorizes(c[g].cert, s.epoch, s.current, s.next)
    /\ \A e \in 1..s.epoch : Opened(c, b, e, s.epoch_starts[e + 1])

\* The walk along a chain.
WalkOK(c, b, h) ==
    /\ h < ModernStart => StateAt(c, b, h) = InitialState
    /\ h >= ModernStart => EpochsOK(c, b, StateAt(c, b, h), h, h)

-----------------------------------------------------------------------------
(* The rules keep the type of the state.                                   *)

(* The state a tracker is constructed with. *)
LEMMA InitialType == InitialState \in States /\ NoSet \in Sets /\ NoCert \in Certs
BY DEF InitialState, NoSet, NoEpoch, NoFinalized, NoCert, States, Sets,
       Finalizeds, Certs

(* Snapshots and carried-over sets are sets. *)
LEMMA SetType ==
    ASSUME NEW reg \in Registries, NEW e \in Nat, NEW set \in Sets
    PROVE  /\ SnapshotAt(reg, e) \in Sets /\ SnapshotAt(reg, e).epoch = e
           /\ WithEpoch(set, e) \in Sets /\ WithEpoch(set, e).epoch = e
BY DEF SnapshotAt, WithEpoch, Sets

(* Epoch 0. *)
LEMMA BootstrapType ==
    ASSUME NEW reg \in Registries
    PROVE  LET s == Bootstrap(reg)
           IN  /\ s \in States /\ s.epoch = 0 /\ s.epoch_starts = <<ModernStart>>
               /\ ~s.handover_certified /\ ~s.lineage_broken
               /\ ~s.bootstrapped => s.current = NoSet
               /\ s.bootstrapped => s.current.epoch = 0 /\ s.next.epoch = 1
<1> DEFINE opened == [InitialState EXCEPT !.epoch_starts = <<ModernStart>>]
           set_0 == SnapshotAt(reg, 0)
           next_0 == WithEpoch(set_0, 1)
<1>1. /\ set_0 \in Sets /\ set_0.epoch = 0
      /\ next_0 \in Sets /\ next_0.epoch = 1
  BY DEF SnapshotAt, WithEpoch, Sets
<1> HIDE DEF set_0, next_0
<1>2. /\ opened \in States /\ opened.epoch = 0
      /\ opened.epoch_starts = <<ModernStart>>
      /\ ~opened.handover_certified /\ ~opened.lineage_broken
      /\ ~opened.bootstrapped /\ opened.current = NoSet
  <2>1. <<ModernStart>> \in Seq(Nat)
    BY ModernPosParamsValid
  <2>2. InitialState \in States
    BY InitialType
  <2> QED BY <2>1, <2>2 DEF InitialState, States
<1> HIDE DEF opened
<1> DEFINE full == [opened EXCEPT !.bootstrapped = TRUE, !.bootstrap = set_0,
                                  !.current = set_0, !.next = next_0]
<1>3. Bootstrap(reg) = IF MeetsFloor(reg) THEN full ELSE opened
  BY DEF Bootstrap, opened, set_0, next_0
<1>4. /\ full \in States /\ full.epoch = 0
      /\ full.epoch_starts = <<ModernStart>>
      /\ ~full.handover_certified /\ ~full.lineage_broken /\ full.bootstrapped
      /\ full.current.epoch = 0 /\ full.next.epoch = 1
  BY <1>1, <1>2 DEF States
<1> HIDE DEF full
<1> QED BY <1>2, <1>3, <1>4

(* A rotation. *)
LEMMA RotateType ==
    ASSUME NEW s \in States, NEW h \in Nat, NEW reg \in Registries
    PROVE  LET r == Rotate(s, h, reg)
           IN  /\ r \in States /\ r.epoch = s.epoch + 1
               /\ r.epoch_starts = Append(s.epoch_starts, h)
               /\ r.current = s.next /\ r.next.epoch = s.epoch + 2
               /\ ~r.handover_certified /\ r.bootstrapped = s.bootstrapped
               /\ r.lineage_broken = s.lineage_broken
<1> DEFINE m == [s EXCEPT !.previous = s.current, !.current = s.next,
                          !.epoch = @ + 1,
                          !.epoch_starts = Append(@, h),
                          !.handover_certified = FALSE]
           n == SuccessorSet(m, reg)
<1>1. /\ m \in States /\ m.epoch = s.epoch + 1
      /\ m.epoch_starts = Append(s.epoch_starts, h) /\ m.current = s.next
      /\ ~m.handover_certified /\ m.bootstrapped = s.bootstrapped
      /\ m.lineage_broken = s.lineage_broken
  <2>1. s.epoch_starts \in Seq(Nat) /\ s.epoch \in Nat
        /\ Append(s.epoch_starts, h) \in Seq(Nat) /\ s.epoch + 1 \in Nat
    BY DEF States
  <2> QED BY <2>1 DEF States
<1> HIDE DEF m
<1>2. n \in Sets /\ n.epoch = s.epoch + 2
  <2>1. m.current \in Sets /\ m.epoch + 1 \in Nat /\ m.epoch + 1 = s.epoch + 2
    BY <1>1 DEF States
  <2> QED BY <2>1, SetType DEF SuccessorSet
<1> HIDE DEF n
<1>3. Rotate(s, h, reg) = [m EXCEPT !.next = n]
  BY DEF Rotate, m, n
<1> QED BY <1>1, <1>2, <1>3 DEF States

(* The lineage flag. *)
LEMMA BreakType ==
    ASSUME NEW s \in States, NEW h
    PROVE  LET r == BreakLineage(s, h)
           IN  /\ r \in States /\ r.epoch = s.epoch
               /\ r.epoch_starts = s.epoch_starts
               /\ r.current = s.current /\ r.next = s.next
               /\ r.handover_certified = s.handover_certified
               /\ r.bootstrapped = s.bootstrapped
               /\ r.lineage_broken <=>
                     \/ s.lineage_broken
                     \/ ~s.handover_certified /\ h - EpochStart(s) >= Limit
BY DEF BreakLineage, States, Limit

(* The state projected for the next height. *)
LEMMA ProjectedType ==
    ASSUME NEW s \in States, NEW h \in Nat, NEW reg \in Registries
    PROVE  Projected(s, h, reg) \in States
<1>1. Bootstrap(reg) \in States
  BY BootstrapType
<1>2. Rotate(s, h, reg) \in States
  BY RotateType
<1>3. \A r \in States : BreakLineage(r, h) \in States
  BY BreakType
<1> QED BY <1>1, <1>2, <1>3 DEF Projected

(* The effect of a certificate on the projected state. *)
LEMMA ApplyType ==
    ASSUME NEW s \in States, NEW h \in Nat, NEW reg \in Registries,
           NEW cert \in Certs
    PROVE  LET p == Projected(s, h, reg)
               r == ApplyModern(s, h, reg, cert)
           IN  /\ p \in States /\ r \in States
               /\ r.epoch = p.epoch /\ r.epoch_starts = p.epoch_starts
               /\ r.current = p.current /\ r.next = p.next
               /\ r.bootstrapped = p.bootstrapped
               /\ r.lineage_broken = p.lineage_broken
               /\ r.handover_certified <=>
                     p.handover_certified \/ (cert # NoCert /\ cert.epoch = p.epoch)
<1> DEFINE p == Projected(s, h, reg)
           f == [height |-> cert.height, block |-> cert.block,
                 epoch |-> cert.epoch, certified_at |-> h]
           r == [p EXCEPT !.finalized = f,
                          !.handover_certified = @ \/ cert.epoch = p.epoch]
<1>1. p \in States
  BY ProjectedType
<1>2. f \in Finalizeds
  BY DEF Certs, Finalizeds
<1>3. ApplyModern(s, h, reg, cert) = IF cert = NoCert THEN p ELSE r
  BY DEF ApplyModern
<1> HIDE DEF p, f
<1>4. /\ r \in States
      /\ r.epoch = p.epoch /\ r.epoch_starts = p.epoch_starts
      /\ r.current = p.current /\ r.next = p.next
      /\ r.bootstrapped = p.bootstrapped
      /\ r.lineage_broken = p.lineage_broken
      /\ r.handover_certified <=> p.handover_certified \/ cert.epoch = p.epoch
  BY <1>1, <1>2 DEF States
<1> HIDE DEF r
<1> QED BY <1>1, <1>3, <1>4 DEF p

(* The registry as of a height. *)
LEMMA RegistryType ==
    ASSUME NEW c \in Seq(Blocks), NEW b \in Registries, NEW h \in 0..Len(c)
    PROVE  RegistryOf(c, b, h) \in Registries
<1>1. CASE h = 0
  BY <1>1 DEF RegistryOf
<1>2. CASE h # 0
  <2>1. h \in 1..Len(c)
    BY <1>2
  <2>2. c[h] \in Blocks
    BY <2>1
  <2> QED BY <1>2, <2>2 DEF RegistryOf, Blocks
<1> QED BY <1>1, <1>2

(* The walk keeps the type. *)
LEMMA StateType ==
    ASSUME NEW c \in Seq(Blocks), NEW b \in Registries
    PROVE  \A h \in 0..Len(c) : StateAt(c, b, h) \in States
<1> DEFINE N == Len(c)
           T == {h \in 0..N : StateAt(c, b, h) \in States}
<1>0. N \in Int /\ 0 \in Int /\ 0 <= N
  OBVIOUS
<1>1. 0 \in T
  BY <1>0, StateAdvances, InitialType
<1>2. ASSUME NEW h \in 0..N, h # 0, h - 1 \in T PROVE h \in T
  <2>2. h \in Nat /\ h \in 1..Len(c) /\ h - 1 \in 0..Len(c)
    BY <1>0, <1>2
  <2>1. StateAt(c, b, h) = Advance(c, b, StateAt(c, b, h - 1), h)
    <3>1. \A k \in Nat : k # 0 =>
             StateAt(c, b, k) = Advance(c, b, StateAt(c, b, k - 1), k)
      BY StateAdvances
    <3> QED BY <1>2, <2>2, <3>1
  <2>3. c[h].cert \in Certs /\ RegistryOf(c, b, h - 1) \in Registries
    <3>1. c[h] \in Blocks
      BY <2>2
    <3>2. RegistryOf(c, b, h - 1) \in Registries
      BY <2>2, RegistryType
    <3> QED BY <3>1, <3>2 DEF Blocks
  <2>4. StateAt(c, b, h - 1) \in States
    BY <1>2
  <2>5. ApplyModern(StateAt(c, b, h - 1), h, RegistryOf(c, b, h - 1), c[h].cert)
           \in States
    BY <2>2, <2>3, <2>4, ApplyType
  <2>6. StateAt(c, b, h) \in States
    BY <2>1, <2>4, <2>5 DEF Advance
  <2> QED BY <2>6
<1>3. \A h \in 0..N : h # 0 /\ h - 1 \in T => h \in T
  BY <1>2
<1>4. \A h \in 0..N : h \in T
  <2> HIDE DEF T, N
  <2> QED BY <1>0, <1>1, <1>3, InductionUpTo
<1> QED BY <1>4

-----------------------------------------------------------------------------
(* The incremental state.                                                  *)

(* What a block was judged against depends on the blocks below it only. *)
LEMMA JudgedOfPrefix ==
    ASSUME NEW c, NEW d, NEW b, NEW n \in Nat, SameBlocks(c, d, n)
    PROVE  \A h \in 1..n : /\ RegistryOf(c, b, h) = RegistryOf(d, b, h)
                           /\ JudgedAt(c, b, h) => JudgedAt(d, b, h)
<1> SUFFICES ASSUME NEW h \in 1..n
             PROVE  /\ RegistryOf(c, b, h) = RegistryOf(d, b, h)
                    /\ JudgedAt(c, b, h) => JudgedAt(d, b, h)
  OBVIOUS
<1>1. h \in Nat /\ h - 1 \in 0..n /\ c[h] = d[h] /\ (h - 1 # 0 => c[h - 1] = d[h - 1])
  BY DEF SameBlocks
<1>2. StateAt(c, b, h - 1) = StateAt(d, b, h - 1)
  BY <1>1, StateOfPrefix
<1>3. RegistryOf(c, b, h - 1) = RegistryOf(d, b, h - 1)
      /\ RegistryOf(c, b, h) = RegistryOf(d, b, h)
  BY <1>1 DEF RegistryOf
<1>4. \A i \in 1..(h - 1) : c[i] = d[i]
  BY <1>1 DEF SameBlocks
<1>5. Below(c, h) = Below(d, h)
  BY <1>4 DEF Below
<1> QED BY <1>1, <1>2, <1>3, <1>5 DEF JudgedAt, ProjectedAt

(* A judged block joins a chain of judged blocks. *)
LEMMA JudgedAppend ==
    ASSUME NEW c \in Seq(Blocks), NEW b \in Registries,
           \A h \in 1..Len(c) : JudgedAt(c, b, h), NEW block \in Blocks,
           JudgeCoinbaseCertificate(block.cert, Len(c) + 1,
               Projected(StateAt(c, b, Len(c)), Len(c) + 1,
                         RegistryOf(c, b, Len(c))),
               [i \in 1..Len(c) |-> c[i].hash])
    PROVE  LET d == Append(c, block)
               h == Len(c) + 1
           IN  /\ d \in Seq(Blocks) /\ Len(d) = h
               /\ \A i \in 1..Len(d) : JudgedAt(d, b, i)
               /\ RegistryOf(d, b, h) = block.registry
               /\ StateAt(d, b, h) =
                     IF h < ModernStart THEN StateAt(c, b, Len(c))
                     ELSE ApplyModern(StateAt(c, b, Len(c)), h,
                                      RegistryOf(c, b, Len(c)), block.cert)
<1> DEFINE n == Len(c)
           h == n + 1
           d == Append(c, block)
<1>0. n \in Nat /\ h \in Nat /\ h # 0 /\ h - 1 = n /\ n \in 0..n
  OBVIOUS
<1>1. /\ d \in Seq(Blocks) /\ Len(d) = h /\ d[h] = block
      /\ \A i \in 1..n : d[i] = c[i]
  OBVIOUS
<1> HIDE DEF d, n
<1>12. SameBlocks(c, d, n)
  BY <1>1 DEF SameBlocks
<1>2. \A k \in 0..n : StateAt(d, b, k) = StateAt(c, b, k)
  BY <1>0, <1>12, StateOfPrefix
<1>3. \A i \in 1..n : JudgedAt(d, b, i) /\ RegistryOf(d, b, i) = RegistryOf(c, b, i)
  BY <1>0, <1>12, JudgedOfPrefix DEF n
<1>4. RegistryOf(d, b, n) = RegistryOf(c, b, n)
  <2>1. CASE n = 0
    BY <2>1 DEF RegistryOf
  <2>2. CASE n # 0
    BY <1>0, <1>1, <2>2 DEF RegistryOf
  <2> QED BY <2>1, <2>2
<1>5. StateAt(d, b, n) = StateAt(c, b, n)
  BY <1>0, <1>2
<1>6. StateAt(d, b, h) = Advance(d, b, StateAt(c, b, n), h)
  <2>1. \A k \in Nat : k # 0 =>
           StateAt(d, b, k) = Advance(d, b, StateAt(d, b, k - 1), k)
    BY StateAdvances
  <2>2. StateAt(d, b, h) = Advance(d, b, StateAt(d, b, h - 1), h)
    BY <1>0, <2>1
  <2> QED BY <1>0, <1>5, <2>2
<1>7. Below(d, h) = [i \in 1..n |-> c[i].hash]
  BY <1>0, <1>1 DEF Below
<1>8. JudgedAt(d, b, h)
  BY <1>0, <1>1, <1>4, <1>5, <1>7 DEF JudgedAt, ProjectedAt, n
<1>9. \A i \in 1..Len(d) : JudgedAt(d, b, i)
  BY <1>0, <1>1, <1>3, <1>8
<1>10. RegistryOf(d, b, h) = block.registry
  BY <1>0, <1>1 DEF RegistryOf
<1>11. StateAt(d, b, h) = IF h < ModernStart THEN StateAt(c, b, n)
                          ELSE ApplyModern(StateAt(c, b, n), h,
                                           RegistryOf(c, b, n), block.cert)
  BY <1>0, <1>1, <1>4, <1>6 DEF Advance
<1> QED BY <1>1, <1>9, <1>10, <1>11 DEF d, n

(* What Sync leaves is the state of the walk, dirty or not. *)
LEMMA SyncedIsWalk ==
    ASSUME TrackerInv
    PROVE  /\ SyncedState = StateAt(chain, boundary, TipHeight)
           /\ SyncedRegistry = RegistryAt(TipHeight)
           /\ SyncedState \in States /\ SyncedRegistry \in Registries
           /\ TipHeight \in Nat
<1>1. SyncedState = StateAt(chain, boundary, TipHeight)
      /\ SyncedRegistry = RegistryAt(TipHeight)
  <2>1. CASE m_dirty
    <3>1. SyncBase = 0 /\ ~Synced(HashAt(TipHeight))
      BY <2>1 DEF SyncBase, Synced
    <3> QED BY <3>1 DEF SyncedState, SyncedRegistry, StateAt
  <2>2. CASE ~m_dirty
    <3>1. Synced(HashAt(TipHeight))
      BY <2>2 DEF Synced, TrackerInv, TrackerOK
    <3> QED BY <2>2, <3>1 DEF SyncedState, SyncedRegistry, TrackerInv, TrackerOK
  <2> QED BY <2>1, <2>2 DEF TrackerInv, TrackerOK
<1>2. chain \in Seq(Blocks) /\ boundary \in Registries /\ TipHeight \in Nat
      /\ TipHeight \in 0..Len(chain)
  BY DEF TrackerInv, ChainOK, TipHeight
<1>3. StateAt(chain, boundary, TipHeight) \in States
  BY <1>2, StateType
<1>4. RegistryAt(TipHeight) \in Registries
  BY <1>2, RegistryType DEF RegistryAt
<1> QED BY <1>1, <1>2, <1>3, <1>4

(* The certificates a producer tries are well-formed. *)
LEMMA CandidateType ==
    ASSUME ChainOK, NEW p \in States, NEW cert \in Candidates(p)
    PROVE  cert \in Certs
<1>1. CASE cert = NoCert
  BY <1>1, InitialType
<1>2. CASE cert # NoCert
  <2>1. PICK h \in 1..TipHeight :
           cert \in [height : {h}, block : {BlockAt[h], BlockAt[TipHeight]},
                     epoch : {p.epoch - 1, p.epoch},
                     successor : {p.current, p.next}, signers : SignerSets]
    BY <1>2 DEF Candidates
  <2>2. Len(chain) \in Nat /\ TipHeight = Len(chain) /\ h \in Int
        /\ TipHeight \in 1..TipHeight
    BY <2>1 DEF ChainOK, TipHeight
  <2>3. \A i \in 1..Len(chain) : chain[i].hash \in Int
    BY DEF ChainOK, Blocks
  <2>4. BlockAt[h] \in Int /\ BlockAt[TipHeight] \in Int
    BY <2>1, <2>2, <2>3 DEF BlockAt
  <2>5. p.epoch - 1 \in Int /\ p.epoch \in Int /\ p.current \in Sets /\ p.next \in Sets
    BY DEF States
  <2> QED BY <2>1, <2>2, <2>4, <2>5 DEF Certs
<1> QED BY <1>1, <1>2

(* BlockConnected: the tracker follows the chain by one block. *)
LEMMA ConnectKeeps ==
    ASSUME TrackerInv, MayExtend, NEW cert \in Certs, NEW reg \in Registries,
           JudgeCoinbaseCertificate(cert, TipHeight + 1,
               Projected(StateAt(chain, boundary, TipHeight), TipHeight + 1,
                         RegistryAt(TipHeight)), BlockAt),
           ExtendChain(cert, reg)
    PROVE  /\ ChainOK'
           /\ TrackBlock(StateAt(chain, boundary, TipHeight),
                         RegistryAt(TipHeight), cert, reg) => TrackerOK'
<1> DEFINE h == TipHeight + 1
           block == [hash |-> produced + 1, cert |-> cert, registry |-> reg]
<1>1. /\ chain' = Append(chain, block) /\ produced' = produced + 1
      /\ boundary' = boundary
  BY DEF ExtendChain
<1>2. /\ chain \in Seq(Blocks) /\ boundary \in Registries
      /\ \A i \in 1..Len(chain) : JudgedAt(chain, boundary, i)
      /\ \A i \in 1..Len(chain) : chain[i].hash \in 1..produced
      /\ produced \in Nat /\ TipHeight = Len(chain) /\ Len(chain) \in Nat
      /\ produced < MaxBlocks /\ Len(chain) < MaxHeight
      /\ MaxBlocks \in Nat /\ MaxHeight \in Nat
  BY TrackerAssumption DEF TrackerInv, ChainOK, TipHeight, MayExtend
<1>3. block \in Blocks
  BY <1>2 DEF Blocks
<1>4. /\ chain' \in Seq(Blocks) /\ Len(chain') = h
      /\ \A i \in 1..Len(chain') : JudgedAt(chain', boundary, i)
      /\ RegistryOf(chain', boundary, h) = reg
      /\ StateAt(chain', boundary, h) =
            IF h < ModernStart THEN StateAt(chain, boundary, TipHeight)
            ELSE ApplyModern(StateAt(chain, boundary, TipHeight), h,
                             RegistryAt(TipHeight), cert)
  <2>1. block.cert = cert /\ block.registry = reg
    OBVIOUS
  <2>2. JudgeCoinbaseCertificate(block.cert, Len(chain) + 1,
            Projected(StateAt(chain, boundary, Len(chain)), Len(chain) + 1,
                      RegistryOf(chain, boundary, Len(chain))),
            [i \in 1..Len(chain) |-> chain[i].hash])
    BY <1>2, <2>1 DEF RegistryAt, BlockAt
  <2> HIDE DEF block
  <2> QED BY <1>1, <1>2, <1>3, <2>1, <2>2, JudgedAppend DEF RegistryAt
<1>5. ChainOK'
  <2>1. /\ Len(chain') <= MaxHeight /\ produced' \in 0..MaxBlocks
    BY <1>1, <1>2, <1>4
  <2>2. ASSUME NEW i \in 1..Len(chain') PROVE chain'[i].hash \in 1..produced'
    <3>1. CASE i = Len(chain) + 1
      BY <1>1, <1>2, <3>1
    <3>2. CASE i # Len(chain) + 1
      <4>1. i \in 1..Len(chain)
        BY <1>2, <1>4, <3>2
      <4>2. chain'[i] = chain[i] /\ chain[i].hash \in 1..produced
        BY <1>1, <1>2, <4>1
      <4> QED BY <1>1, <1>2, <4>2
    <3> QED BY <3>1, <3>2
  <2>3. boundary' \in Registries /\ \A i \in 1..Len(chain') : JudgedAt(chain', boundary', i)
    BY <1>1, <1>2, <1>4
  <2> QED BY <1>4, <2>1, <2>2, <2>3 DEF ChainOK, JudgedAt, ProjectedAt, Below, StateAt
<1>6. ASSUME TrackBlock(StateAt(chain, boundary, TipHeight),
                        RegistryAt(TipHeight), cert, reg)
      PROVE  TrackerOK'
  <2> DEFINE s == StateAt(chain, boundary, TipHeight)
             applied == IF h < ModernStart THEN s
                        ELSE ApplyModern(s, h, RegistryAt(TipHeight), cert)
  <2>1. CASE /\ m_state' = applied /\ registry' = reg
             /\ m_synced_tip' = produced + 1 /\ m_synced_height' = h
             /\ m_dirty' = FALSE
    <3>1. /\ m_state' = StateAt(chain', boundary', h)
          /\ registry' = reg /\ m_synced_tip' = produced + 1
          /\ m_synced_height' = h /\ m_dirty' = FALSE
      BY <1>1, <1>4, <2>1
    <3>2. TipHeight' = h /\ h \in Nat /\ h # 0 /\ h \in 0..Len(chain')
      BY <1>2, <1>4 DEF TipHeight
    <3>3. HashAt(TipHeight)' = produced + 1
      <4>1. chain'[h].hash = produced + 1
        BY <1>1, <1>2
      <4> QED BY <3>2, <4>1 DEF HashAt
    <3>4. RegistryAt(TipHeight)' = reg
      BY <1>1, <1>4, <3>2 DEF RegistryAt
    <3>5. StateAt(chain', boundary', h) \in States
      BY <1>1, <1>2, <1>4, <3>2, StateType
    <3>6. m_synced_height' \in Heights
      BY <1>2, <3>1 DEF Heights
    <3> QED BY <3>1, <3>2, <3>3, <3>4, <3>5, <3>6 DEF TrackerOK, StateAt
  <2>2. CASE /\ m_state' \in {s, applied} /\ registry' = RegistryAt(TipHeight)
             /\ m_synced_height' = TipHeight /\ m_dirty' = TRUE
    <3>1. s \in States /\ RegistryAt(TipHeight) \in Registries
      BY SyncedIsWalk
    <3>2. StateAt(chain', boundary, h) \in States
      BY <1>2, <1>4, StateType
    <3>3. applied = StateAt(chain', boundary, h)
      BY <1>4
    <3>4. m_synced_height' \in Heights
      BY <1>2, <2>2 DEF Heights
    <3> HIDE DEF s, applied
    <3> QED BY <2>2, <3>1, <3>2, <3>3, <3>4 DEF TrackerOK
  <2> QED BY <1>6, <2>1, <2>2 DEF TrackBlock
<1> QED BY <1>5, <1>6

(* DisconnectTip: a prefix of a judged chain is judged. *)
LEMMA DisconnectKeeps ==
    ASSUME ChainOK, DisconnectBlock
    PROVE  ChainOK'
<1> DEFINE n == Len(chain) - 1
<1>1. /\ chain \in Seq(Blocks) /\ Len(chain) \in Nat /\ n \in Nat /\ n <= Len(chain)
      /\ chain' = SubSeq(chain, 1, n) /\ produced' = produced
      /\ boundary' = boundary
  BY DEF ChainOK, DisconnectBlock, TipHeight
<1>2. /\ chain' \in Seq(Blocks) /\ Len(chain') = n
      /\ \A i \in 1..n : chain'[i] = chain[i]
  <2> HIDE DEF n
  <2> QED BY <1>1
<1> HIDE DEF n
<1>3. SameBlocks(chain, chain', n)
  BY <1>2 DEF SameBlocks
<1>4. \A i \in 1..n : JudgedAt(chain', boundary, i)
  <2>1. \A i \in 1..n : JudgedAt(chain, boundary, i)
    BY <1>1 DEF ChainOK
  <2> QED BY <1>1, <1>3, <2>1, JudgedOfPrefix
<1>5. \A i \in 1..n : chain'[i].hash \in 1..produced
  BY <1>1, <1>2 DEF ChainOK
<1>6. Len(chain') <= MaxHeight
  BY <1>1, <1>2, TrackerAssumption DEF ChainOK
<1>7. \A i \in 1..Len(chain') : JudgedAt(chain', boundary', i)
  BY <1>1, <1>2, <1>4
<1> QED BY <1>1, <1>2, <1>5, <1>6, <1>7
        DEF ChainOK, JudgedAt, ProjectedAt, Below, StateAt

(* Every step keeps the invariant. *)
LEMMA TrackerStep ==
    ASSUME TrackerInv, [Next]_vars
    PROVE  TrackerInv'
<1>0. /\ chain \in Seq(Blocks) /\ boundary \in Registries /\ TipHeight = Len(chain)
      /\ Len(chain) \in Nat
  BY DEF TrackerInv, ChainOK, TipHeight
<1>1. ASSUME UNCHANGED chainVars PROVE ChainOK'
  <2>1. chain' = chain /\ produced' = produced /\ boundary' = boundary
    BY <1>1 DEF chainVars
  <2> QED BY <2>1 DEF TrackerInv, ChainOK, JudgedAt, ProjectedAt, Below, StateAt
<1>2. CASE ConnectBlock
  <2>0. /\ SyncedState = StateAt(chain, boundary, TipHeight)
        /\ SyncedRegistry = RegistryAt(TipHeight)
        /\ SyncedState \in States /\ SyncedRegistry \in Registries
        /\ TipHeight \in Nat
    BY SyncedIsWalk
  <2> DEFINE p == Projected(SyncedState, TipHeight + 1, SyncedRegistry)
  <2>1. PICK cert \in Candidates(p), reg \in Registries :
           /\ JudgeCoinbaseCertificate(cert, TipHeight + 1, p, BlockAt)
           /\ ExtendChain(cert, reg)
           /\ TrackBlock(SyncedState, SyncedRegistry, cert, reg)
    BY <1>2 DEF ConnectBlock
  <2>2. p \in States
    BY <2>0, ProjectedType
  <2>3. cert \in Certs
    BY <2>1, <2>2, CandidateType DEF TrackerInv
  <2>4. MayExtend
    BY <1>2 DEF ConnectBlock
  <2>5. /\ ChainOK'
        /\ TrackBlock(StateAt(chain, boundary, TipHeight),
                      RegistryAt(TipHeight), cert, reg) => TrackerOK'
    BY <2>0, <2>1, <2>3, <2>4, ConnectKeeps
  <2> QED BY <2>0, <2>1, <2>5 DEF TrackerInv
<1>3. ASSUME NEW reg \in Registries, ConnectPlainBlock(reg) PROVE TrackerInv'
  <2>1. MayExtend /\ ExtendChain(NoCert, reg) /\ NoCert \in Certs
    BY <1>3, InitialType DEF ConnectPlainBlock
  <2>2. JudgeCoinbaseCertificate(NoCert, TipHeight + 1,
               Projected(StateAt(chain, boundary, TipHeight), TipHeight + 1,
                         RegistryAt(TipHeight)), BlockAt)
    BY DEF JudgeCoinbaseCertificate
  <2>3. /\ ChainOK'
        /\ TrackBlock(StateAt(chain, boundary, TipHeight),
                      RegistryAt(TipHeight), NoCert, reg) => TrackerOK'
    BY <2>1, <2>2, ConnectKeeps
  <2>4. CASE Synced(HashAt(TipHeight))
    <3>1. /\ m_state = StateAt(chain, boundary, TipHeight)
          /\ registry = RegistryAt(TipHeight)
      BY <2>4 DEF Synced, TrackerInv, TrackerOK
    <3>2. TrackBlock(m_state, registry, NoCert, reg)
      BY <1>3, <2>4 DEF ConnectPlainBlock
    <3> QED BY <2>3, <3>1, <3>2 DEF TrackerInv
  <2>5. CASE ~Synced(HashAt(TipHeight))
    <3>1. /\ m_dirty' = TRUE /\ m_state' = m_state /\ registry' = registry
          /\ m_synced_height' = m_synced_height
      BY <1>3, <2>5 DEF ConnectPlainBlock
    <3>2. TrackerOK'
      BY <3>1 DEF TrackerInv, TrackerOK
    <3> QED BY <2>3, <3>2 DEF TrackerInv
  <2> QED BY <2>4, <2>5
<1>4. CASE DisconnectBlock
  <2>1. ChainOK'
    BY <1>4, DisconnectKeeps DEF TrackerInv
  <2>2. TrackerOK'
    BY <1>4 DEF DisconnectBlock, TrackerInv, TrackerOK
  <2> QED BY <2>1, <2>2 DEF TrackerInv
<1>5. CASE Sync
  <2>1. /\ chain' = chain /\ boundary' = boundary
        /\ m_state' = SyncedState /\ registry' = RegistryAt(TipHeight)
        /\ m_synced_tip' = HashAt(TipHeight)
        /\ m_synced_height' = TipHeight /\ m_dirty' = FALSE
    BY <1>5 DEF Sync, chainVars
  <2>2. /\ SyncedState = StateAt(chain, boundary, TipHeight)
        /\ SyncedState \in States /\ RegistryAt(TipHeight) \in Registries
    BY SyncedIsWalk
  <2>3. /\ TipHeight' = TipHeight /\ HashAt(TipHeight)' = HashAt(TipHeight)
        /\ RegistryAt(TipHeight)' = RegistryAt(TipHeight)
        /\ m_state' = StateAt(chain', boundary', TipHeight')
    BY <2>1, <2>2 DEF TipHeight, HashAt, RegistryAt
  <2>4. m_synced_height' \in Heights
    BY <1>0, <2>1 DEF Heights, TrackerInv, ChainOK
  <2>5. TrackerOK'
    BY <2>1, <2>2, <2>3, <2>4 DEF TrackerOK, StateAt
  <2>6. ChainOK'
    BY <1>1, <1>5 DEF Sync
  <2> QED BY <2>5, <2>6 DEF TrackerInv
<1>6. CASE SyncFails \/ Restart
  <2>1. ResetTracker /\ UNCHANGED chainVars
    BY <1>6 DEF SyncFails, Restart
  <2>2. TrackerOK'
    BY <2>1, InitialType DEF ResetTracker, TrackerOK
  <2> QED BY <1>1, <2>1, <2>2 DEF TrackerInv
<1>7. CASE UNCHANGED vars
  <2>1. UNCHANGED chainVars /\ UNCHANGED trackerVars
    BY <1>7 DEF vars
  <2>2. TrackerOK'
    BY <2>1 DEF trackerVars, chainVars, TrackerInv, TrackerOK, TipHeight, HashAt,
                RegistryAt, StateAt
  <2> QED BY <1>1, <2>1, <2>2 DEF TrackerInv
<1> QED BY <1>2, <1>3, <1>4, <1>5, <1>6, <1>7 DEF Next

(* The invariant holds of every run. *)
THEOREM TrackerInvariant == Spec => []TrackerInv
<1>1. Init => TrackerInv
  <2> SUFFICES ASSUME Init PROVE TrackerInv
    OBVIOUS
  <2>1. chain = <<>> /\ Len(chain) = 0 /\ chain \in Seq(Blocks)
    BY DEF Init
  <2>2. ChainOK
    BY <2>1, TrackerAssumption DEF Init, ChainOK
  <2>3. TrackerOK
    BY InitialType DEF Init, TrackerOK
  <2> QED BY <2>2, <2>3 DEF TrackerInv
<1>2. TrackerInv /\ [Next]_vars => TrackerInv'
  BY TrackerStep
<1> QED BY <1>1, <1>2, PTL DEF Spec

(* Spec => []TypeOK, for chains and registries of any size. *)
THEOREM TypeCorrect == Spec => []TypeOK
<1>1. TrackerInv => TypeOK
  <2> SUFFICES ASSUME TrackerInv PROVE TypeOK
    OBVIOUS
  <2>0. \A h \in 1..Len(chain) : chain[h] \in Blocks
    BY DEF TrackerInv, ChainOK
  <2>1. \A h \in 1..Len(chain) : chain[h].registry \in Registries
    BY <2>0 DEF Blocks
  <2>2. m_state \in States
    BY DEF TrackerInv, TrackerOK
  <2>3. /\ m_state.epoch \in Nat
        /\ \A set \in {m_state.bootstrap, m_state.previous, m_state.current,
                       m_state.next} : set \in Sets
        /\ {m_state.bootstrapped, m_state.handover_certified,
            m_state.lineage_broken} \subseteq BOOLEAN
    BY <2>2 DEF States
  <2> QED BY <2>1, <2>3 DEF TrackerInv, ChainOK, TrackerOK, TypeOK
<1> QED BY <1>1, TrackerInvariant, PTL

(* "Restart, reindex and reconstruction reproduce the identical epoch state",
   on every run: a tracker that claims to be synced holds the state that a
   walk of the whole chain gives. *)
THEOREM IncrementalIsWalk == Spec => []IncrementalMatchesWalk
<1>1. TrackerInv => IncrementalMatchesWalk
  BY DEF TrackerInv, TrackerOK, IncrementalMatchesWalk, TrackerSynced, Synced,
         Walk, StateAt
<1> QED BY <1>1, TrackerInvariant, PTL

-----------------------------------------------------------------------------
(* The walk over judged blocks.                                            *)

(* A certificate judged valid belongs to an unbroken lineage, and one of the
   current epoch authorizes the successor. *)
LEMMA JudgedCert ==
    ASSUME NEW p \in States, NEW cert, cert # NoCert, NEW h, NEW below,
           JudgeCoinbaseCertificate(cert, h, p, below)
    PROVE  /\ p.bootstrapped /\ ~p.lineage_broken
           /\ cert.epoch = p.epoch =>
                 VerifyFinalityCertificate(cert, p.current, p.next)
<1>1. /\ SetSizeKnown(p, cert.epoch)
      /\ JudgeFinalityCertificate(cert, h, p, below)
  BY DEF JudgeCoinbaseCertificate
<1>2. p.bootstrapped /\ ~p.lineage_broken
  BY <1>1 DEF SetSizeKnown, JudgeFinalityCertificate, CheckCertificatePlacement
<1>3. cert.epoch = p.epoch => VerifyFinalityCertificate(cert, p.current, p.next)
  BY <1>1 DEF JudgeFinalityCertificate
<1> QED BY <1>2, <1>3

(* Including the certificate of the block itself. *)
LEMMA CertificateStep ==
    ASSUME NEW c, NEW b, NEW h \in Nat, h >= ModernStart, NEW p, NEW r \in States,
           EpochsOK(c, b, p, h, h - 1), NEW below,
           JudgeCoinbaseCertificate(c[h].cert, h, p, below),
           r.epoch = p.epoch, r.epoch_starts = p.epoch_starts,
           r.current = p.current, r.next = p.next,
           r.bootstrapped = p.bootstrapped, r.lineage_broken = p.lineage_broken,
           r.handover_certified <=>
              p.handover_certified \/ (c[h].cert # NoCert /\ c[h].cert.epoch = p.epoch)
    PROVE  EpochsOK(c, b, r, h, h)
<1> DEFINE cert == c[h].cert
<1>0. p \in States /\ EpochStart(r) = EpochStart(p) /\ EpochStart(p) \in Int
      /\ ModernStart \in Int /\ Limit \in Int
  BY ModernPosParamsValid DEF EpochsOK, EpochStart, Limit
<1>1. cert # NoCert =>
         /\ p.bootstrapped /\ ~p.lineage_broken
         /\ cert.epoch = p.epoch => VerifyFinalityCertificate(cert, p.current, p.next)
  BY <1>0, JudgedCert
<1>2. r.lineage_broken =>
         /\ ~r.handover_certified
         /\ \A g \in (EpochStart(r) + Limit)..h : c[g].cert = NoCert
  <2> SUFFICES ASSUME r.lineage_broken
               PROVE  /\ ~r.handover_certified
                      /\ \A g \in (EpochStart(r) + Limit)..h : c[g].cert = NoCert
    OBVIOUS
  <2>1. cert = NoCert
    BY <1>1
  <2>2. ~p.handover_certified
        /\ \A g \in (EpochStart(p) + Limit)..(h - 1) : c[g].cert = NoCert
    BY DEF EpochsOK
  <2> DEFINE lo == EpochStart(p) + Limit
  <2>3. lo \in Int /\ EpochStart(r) + Limit = lo
    BY <1>0
  <2>4. \A g \in lo..(h - 1) : c[g].cert = NoCert
    BY <2>2
  <2> HIDE DEF lo
  <2>5. \A g \in lo..h : g = h \/ g \in lo..(h - 1)
    BY <2>3
  <2>6. \A g \in lo..h : c[g].cert = NoCert
    BY <2>1, <2>4, <2>5
  <2> QED BY <2>1, <2>2, <2>3, <2>6
<1>3. r.handover_certified =>
         \E g \in ModernStart..h : Authorizes(c[g].cert, r.epoch, r.current, r.next)
  <2> SUFFICES ASSUME r.handover_certified
               PROVE  \E g \in ModernStart..h :
                         Authorizes(c[g].cert, r.epoch, r.current, r.next)
    OBVIOUS
  <2>1. CASE p.handover_certified
    <3>1. PICK g \in ModernStart..(h - 1) :
             Authorizes(c[g].cert, p.epoch, p.current, p.next)
      BY <2>1 DEF EpochsOK
    <3>2. g \in ModernStart..h
      BY <1>0
    <3> QED BY <3>1, <3>2
  <2>2. CASE cert # NoCert /\ cert.epoch = p.epoch
    <3>1. p.current.epoch = p.epoch /\ p.next.epoch = p.epoch + 1
      BY <1>1, <2>2 DEF EpochsOK
    <3>2. Authorizes(cert, r.epoch, r.current, r.next)
      BY <1>1, <2>2, <3>1 DEF Authorizes
    <3>3. h \in ModernStart..h
      BY <1>0
    <3> QED BY <3>2, <3>3
  <2> QED BY <2>1, <2>2
<1>4. ~r.bootstrapped => r.current = NoSet /\ ~r.handover_certified /\ ~r.lineage_broken
  BY <1>1 DEF EpochsOK
<1> QED BY <1>0, <1>2, <1>3, <1>4 DEF EpochsOK

(* Epoch 0 opens at ModernStart. *)
LEMMA BootstrapStep ==
    ASSUME NEW c, NEW b, NEW reg \in Registries
    PROVE  EpochsOK(c, b, Bootstrap(reg), ModernStart, ModernStart - 1)
<1> DEFINE s == Bootstrap(reg)
<1>1. /\ s \in States /\ s.epoch = 0 /\ s.epoch_starts = <<ModernStart>>
      /\ ~s.handover_certified /\ ~s.lineage_broken
      /\ ~s.bootstrapped => s.current = NoSet
      /\ s.bootstrapped => s.current.epoch = 0 /\ s.next.epoch = 1
  BY BootstrapType
<1>2. ModernStart \in Nat /\ Limit \in Nat /\ Limit > 0
  BY ModernPosParamsValid DEF Limit
<1> HIDE DEF s
<1>3. EpochStart(s) = ModernStart /\ Len(s.epoch_starts) = 1
  BY <1>1 DEF EpochStart
<1>4. EpochsOK(c, b, s, ModernStart, ModernStart - 1)
  BY <1>1, <1>2, <1>3 DEF EpochsOK
<1> QED BY <1>4 DEF s

(* Above ModernStart: rotation, and the lineage flag after it. *)
LEMMA ProjectionStep ==
    ASSUME NEW c, NEW b, NEW h \in Nat, h > ModernStart, NEW reg \in Registries,
           NEW s, s = StateAt(c, b, h - 1), EpochsOK(c, b, s, h - 1, h - 1),
           StateAt(c, b, h).current = Projected(s, h, reg).current
    PROVE  EpochsOK(c, b, Projected(s, h, reg), h, h - 1)
<1> DEFINE p == Projected(s, h, reg)
           start == EpochStart(s)
           N == Len(s.epoch_starts)
<1>0. /\ s \in States /\ s.epoch \in Nat /\ s.epoch_starts \in Seq(Nat)
      /\ N = s.epoch + 1 /\ start \in ModernStart..(h - 1) /\ start \in Int
      /\ ModernStart \in Nat /\ EpochBlocks \in Nat /\ EpochBlocks > 0
      /\ Limit \in Nat /\ Limit >= EpochBlocks
      /\ start = s.epoch_starts[N]
  BY ModernPosParamsValid DEF EpochsOK, States, Limit, EpochStart
<1>1. CASE ~s.bootstrapped
  <2>1. p = s
    <3>1. ~(h < ModernStart) /\ h # ModernStart
      BY <1>0
    <3> QED BY <1>1, <3>1 DEF Projected
  <2>2. start \in ModernStart..h
    BY <1>0
  <2> QED BY <1>1, <2>1, <2>2 DEF EpochsOK
<1>2. CASE s.bootstrapped
  <2>1. s.epoch_starts # <<>>
    BY <1>0
  <2>2. p = BreakLineage(IF RotationFires(s, h) THEN Rotate(s, h, reg) ELSE s, h)
    <3>1. ~(h < ModernStart) /\ h # ModernStart
      BY <1>0
    <3> QED BY <1>2, <2>1, <3>1 DEF Projected
  <2>3. CASE RotationFires(s, h)
    <3> DEFINE r == Rotate(s, h, reg)
    <3>1. /\ r \in States /\ r.epoch = s.epoch + 1
          /\ r.epoch_starts = Append(s.epoch_starts, h)
          /\ r.current = s.next /\ r.next.epoch = s.epoch + 2
          /\ ~r.handover_certified /\ r.bootstrapped = s.bootstrapped
          /\ r.lineage_broken = s.lineage_broken
      BY <1>0, RotateType
    <3> HIDE DEF r
    <3>2. p = BreakLineage(r, h)
      BY <2>2, <2>3 DEF r
    <3>3. /\ Len(r.epoch_starts) = N + 1 /\ r.epoch_starts[N + 1] = h
          /\ \A i \in 1..N : r.epoch_starts[i] = s.epoch_starts[i]
          /\ EpochStart(r) = h
      BY <1>0, <3>1 DEF EpochStart
    <3>4. s.handover_certified /\ h >= start + EpochBlocks /\ ~s.lineage_broken
      BY <2>3 DEF RotationFires, EpochsOK
    <3>5. /\ p \in States /\ p.epoch = r.epoch
          /\ p.epoch_starts = r.epoch_starts
          /\ p.current = r.current /\ p.next = r.next
          /\ p.handover_certified = r.handover_certified
          /\ p.bootstrapped = r.bootstrapped
          /\ p.lineage_broken <=>
                \/ r.lineage_broken
                \/ ~r.handover_certified /\ h - EpochStart(r) >= Limit
      BY <3>1, <3>2, BreakType
    <3> HIDE DEF p
    <3>6. ~p.lineage_broken /\ EpochStart(p) = h /\ h - EpochStart(p) < Limit
      <4>1. EpochStart(p) = h
        BY <3>3, <3>5 DEF EpochStart
      <4>2. Limit \in Int /\ Limit > 0
        BY <1>0
      <4>3. h - h < Limit /\ ~(h - h >= Limit)
        BY <4>2
      <4>4. ~(h - EpochStart(r) >= Limit)
        BY <3>3, <4>3
      <4>5. ~r.lineage_broken
        BY <3>1, <3>4
      <4>6. ~p.lineage_broken
        BY <3>5, <4>4, <4>5
      <4> QED BY <4>1, <4>3, <4>6
    <3>7. (h - 1) - start < Limit
      BY <1>2, <3>4 DEF EpochsOK
    <3>8. \A i \in 1..p.epoch :
             p.epoch_starts[i + 1] - p.epoch_starts[i] \in EpochBlocks..Limit
      <4> SUFFICES ASSUME NEW i \in 1..p.epoch
                   PROVE  p.epoch_starts[i + 1] - p.epoch_starts[i]
                             \in EpochBlocks..Limit
        OBVIOUS
      <4>1. p.epoch_starts = r.epoch_starts /\ p.epoch = N /\ i \in 1..N
        BY <1>0, <3>1, <3>5
      <4>2. CASE i = N
        <5>1. p.epoch_starts[i + 1] = h /\ p.epoch_starts[i] = start
          BY <1>0, <3>3, <4>1, <4>2
        <5>2. h - start \in EpochBlocks..Limit
          <6>1. start \in Int /\ EpochBlocks \in Int /\ Limit \in Int
                /\ h >= start + EpochBlocks /\ (h - 1) - start < Limit
            BY <1>0, <3>4, <3>7
          <6> HIDE DEF start
          <6> QED BY <6>1
        <5> QED BY <5>1, <5>2
      <4>3. CASE i # N
        <5>1. i \in 1..s.epoch /\ i + 1 \in 1..N
          BY <1>0, <4>1, <4>3, SMTT(30)
        <5>2. s.epoch_starts[i + 1] - s.epoch_starts[i] \in EpochBlocks..Limit
          BY <5>1 DEF EpochsOK
        <5> QED BY <3>3, <4>1, <5>1, <5>2
      <4> QED BY <4>2, <4>3
    <3>9. \A e \in 1..p.epoch : Opened(c, b, e, p.epoch_starts[e + 1])
      <4> SUFFICES ASSUME NEW e \in 1..p.epoch
                   PROVE  Opened(c, b, e, p.epoch_starts[e + 1])
        OBVIOUS
      <4>1. p.epoch_starts = r.epoch_starts /\ p.epoch = N /\ e \in 1..N
        BY <1>0, <3>1, <3>5
      <4>2. CASE e = N
        <5>1. p.epoch_starts[e + 1] = h
          BY <3>3, <4>1, <4>2
        <5>2. PICK g \in ModernStart..(h - 1) :
                 Authorizes(c[g].cert, s.epoch, s.current, s.next)
          BY <3>4 DEF EpochsOK
        <5>3. e - 1 = s.epoch
          BY <1>0, <4>2
        <5>4. StateAt(c, b, h).current = s.next
          BY <3>1, <3>5 DEF p
        <5>5. Opened(c, b, e, h)
          BY <5>2, <5>3, <5>4 DEF Opened
        <5> QED BY <5>1, <5>5
      <4>3. CASE e # N
        <5>1. e \in 1..s.epoch /\ e + 1 \in 1..N
          BY <1>0, <4>1, <4>3, SMTT(30)
        <5>2. Opened(c, b, e, s.epoch_starts[e + 1])
          BY <5>1 DEF EpochsOK
        <5> QED BY <3>3, <4>1, <5>1, <5>2
      <4> QED BY <4>2, <4>3
    <3>10. /\ Len(p.epoch_starts) = p.epoch + 1
           /\ EpochStart(p) \in ModernStart..h
           /\ p.bootstrapped /\ ~p.handover_certified
           /\ p.current.epoch = p.epoch /\ p.next.epoch = p.epoch + 1
      <4>1. s.next.epoch = s.epoch + 1
        BY <1>2 DEF EpochsOK
      <4>2. p.epoch = s.epoch + 1 /\ p.next.epoch = s.epoch + 2
            /\ p.current.epoch = s.epoch + 1
        BY <3>1, <3>5, <4>1
      <4> QED BY <1>0, <1>2, <3>1, <3>3, <3>5, <3>6, <4>2, SMTT(30)
    <3> QED BY <3>5, <3>6, <3>8, <3>9, <3>10 DEF EpochsOK, p
  <2>4. CASE ~RotationFires(s, h)
    <3>1. p = BreakLineage(s, h)
      BY <2>2, <2>4
    <3>2. /\ p \in States /\ p.epoch = s.epoch
          /\ p.epoch_starts = s.epoch_starts
          /\ p.current = s.current /\ p.next = s.next
          /\ p.handover_certified = s.handover_certified
          /\ p.bootstrapped = s.bootstrapped
          /\ p.lineage_broken <=>
                \/ s.lineage_broken
                \/ ~s.handover_certified /\ h - start >= Limit
      BY <1>0, <3>1, BreakType, SMTT(30)
    <3> HIDE DEF p
    <3>3. EpochStart(p) = start /\ start \in ModernStart..h
      BY <1>0, <3>2 DEF EpochStart
    <3>4. s.handover_certified => h < start + EpochBlocks
      BY <1>0, <2>4 DEF RotationFires
    <3>5. ~p.lineage_broken => h - start < Limit
      BY <1>0, <3>2, <3>4, SMTT(30)
    <3>6. p.lineage_broken =>
             /\ ~p.handover_certified
             /\ \A g \in (start + Limit)..(h - 1) : c[g].cert = NoCert
      <4>1. CASE s.lineage_broken
        <5>1. ~s.handover_certified
              /\ \A g \in (start + Limit)..(h - 1) : c[g].cert = NoCert
          BY <4>1 DEF EpochsOK
        <5> QED BY <3>2, <5>1
      <4>2. CASE ~s.lineage_broken
        <5>1. (h - 1) - start < Limit
          BY <1>2, <4>2 DEF EpochsOK
        <5>2. \A g \in (start + Limit)..(h - 1) : FALSE
          BY <1>0, <5>1
        <5> QED BY <3>2, <4>2, <5>2
      <4> QED BY <4>1, <4>2
    <3> QED BY <1>2, <3>2, <3>3, <3>5, <3>6 DEF EpochsOK, p
  <2> QED BY <2>3, <2>4
<1> QED BY <1>1, <1>2

(* Every height of a chain of judged blocks. *)
LEMMA JudgedWalk ==
    ASSUME NEW c \in Seq(Blocks), NEW b \in Registries,
           \A h \in 1..Len(c) : JudgedAt(c, b, h)
    PROVE  \A h \in 0..Len(c) : WalkOK(c, b, h)
<1> DEFINE N == Len(c)
           T == {h \in 0..N : WalkOK(c, b, h)}
<1>0. N \in Int /\ 0 \in Int /\ 0 <= N /\ ModernStart \in Nat \ {0}
  BY ModernPosParamsValid
<1>1. 0 \in T
  <2>1. StateAt(c, b, 0) = InitialState
    BY StateAdvances
  <2>2. WalkOK(c, b, 0)
    BY <1>0, <2>1 DEF WalkOK
  <2> QED BY <1>0, <2>2
<1>2. ASSUME NEW h \in 0..N, h # 0, h - 1 \in T PROVE h \in T
  <2>0. h \in Nat /\ h \in 1..Len(c) /\ h - 1 \in 0..Len(c) /\ h - 1 \in Nat
    BY <1>0, <1>2
  <2> DEFINE s == StateAt(c, b, h - 1)
             r == StateAt(c, b, h)
             reg == RegistryOf(c, b, h - 1)
             cert == c[h].cert
             p == Projected(s, h, reg)
  <2>1. r = Advance(c, b, s, h)
    <3>1. \A k \in Nat : k # 0 =>
             StateAt(c, b, k) = Advance(c, b, StateAt(c, b, k - 1), k)
      BY StateAdvances
    <3> QED BY <1>2, <2>0, <3>1
  <2>2. WalkOK(c, b, h - 1)
    BY <1>2
  <2>3. s \in States /\ r \in States
    BY <2>0, StateType
  <2>4. reg \in Registries
    BY <2>0, RegistryType
  <2>5. c[h] \in Blocks
    BY <2>0
  <2>6. cert \in Certs
    BY <2>5 DEF Blocks
  <2>7. JudgeCoinbaseCertificate(cert, h, p, Below(c, h))
    <3>1. JudgedAt(c, b, h)
      BY <2>0
    <3> QED BY <3>1 DEF JudgedAt, ProjectedAt
  <2>8. CASE h < ModernStart
    <3>1. s = InitialState
      BY <1>0, <2>0, <2>2, <2>8 DEF WalkOK
    <3>2. r = InitialState
      BY <2>1, <2>8, <3>1 DEF Advance
    <3>3. WalkOK(c, b, h)
      BY <1>0, <2>0, <2>8, <3>2 DEF WalkOK
    <3> QED BY <3>3
  <2>9. CASE h >= ModernStart
    <3>1. r = ApplyModern(s, h, reg, cert)
      BY <1>0, <2>0, <2>1, <2>9 DEF Advance
    <3>2. /\ p \in States
          /\ r.epoch = p.epoch /\ r.epoch_starts = p.epoch_starts
          /\ r.current = p.current /\ r.next = p.next
          /\ r.bootstrapped = p.bootstrapped
          /\ r.lineage_broken = p.lineage_broken
          /\ r.handover_certified <=>
                p.handover_certified \/ (cert # NoCert /\ cert.epoch = p.epoch)
      <4> DEFINE P == Projected(s, h, reg)
                 R == ApplyModern(s, h, reg, cert)
      <4> HIDE DEF s, r, reg, cert
      <4>1. /\ P \in States /\ R \in States
            /\ R.epoch = P.epoch /\ R.epoch_starts = P.epoch_starts
            /\ R.current = P.current /\ R.next = P.next
            /\ R.bootstrapped = P.bootstrapped
            /\ R.lineage_broken = P.lineage_broken
            /\ R.handover_certified <=>
                  P.handover_certified \/ (cert # NoCert /\ cert.epoch = P.epoch)
        BY <2>0, <2>3, <2>4, <2>6, ApplyType
      <4>2. R = r /\ P = p
        BY <3>1
      <4> HIDE DEF P, R, p
      <4> QED BY <4>1, <4>2
    <3>3. EpochsOK(c, b, p, h, h - 1)
      <4>1. CASE h = ModernStart
        <5>1. p = Bootstrap(reg)
          BY <1>0, <4>1 DEF Projected
        <5> HIDE DEF p, reg
        <5> QED BY <2>4, <4>1, <5>1, BootstrapStep
      <4>2. CASE h # ModernStart
        <5>1. h > ModernStart /\ h - 1 >= ModernStart
          BY <1>0, <2>0, <2>9, <4>2
        <5>2. EpochsOK(c, b, s, h - 1, h - 1)
          BY <2>2, <5>1 DEF WalkOK
        <5>3. StateAt(c, b, h).current = Projected(s, h, reg).current
          BY <3>2
        <5> HIDE DEF reg, p
        <5>4. EpochsOK(c, b, Projected(s, h, reg), h, h - 1)
          BY <2>0, <2>4, <5>1, <5>2, <5>3, ProjectionStep
        <5> QED BY <5>4 DEF p
      <4> QED BY <4>1, <4>2
    <3>4. EpochsOK(c, b, r, h, h)
      <4> HIDE DEF p, r
      <4> QED BY <2>0, <2>3, <2>7, <2>9, <3>2, <3>3, CertificateStep
    <3>5. WalkOK(c, b, h)
      BY <1>0, <2>0, <2>9, <3>4 DEF WalkOK
    <3> QED BY <3>5
  <2> QED BY <1>0, <2>0, <2>8, <2>9
<1>3. \A h \in 0..N : h # 0 /\ h - 1 \in T => h \in T
  BY <1>2
<1>4. \A h \in 0..N : h \in T
  <2> HIDE DEF T, N
  <2> QED BY <1>0, <1>1, <1>3, InductionUpTo
<1> QED BY <1>4

-----------------------------------------------------------------------------
(* What a synced tracker holds.                                            *)

(* A synced tracker stands on a walk over judged blocks. *)
LEMMA SyncedWalk ==
    ASSUME TrackerInv, TrackerSynced
    PROVE  /\ m_state \in States /\ TipHeight \in Nat /\ registry \in Registries
           /\ \A h : Walk(h) = StateAt(chain, boundary, h)
           /\ m_state = StateAt(chain, boundary, TipHeight)
           /\ TipHeight < ModernStart => m_state = InitialState
           /\ TipHeight >= ModernStart =>
                 EpochsOK(chain, boundary, m_state, TipHeight, TipHeight)
<1>1. chain \in Seq(Blocks) /\ boundary \in Registries
      /\ \A h \in 1..Len(chain) : JudgedAt(chain, boundary, h)
  BY DEF TrackerInv, ChainOK
<1>2. m_state \in States /\ m_state = StateAt(chain, boundary, TipHeight)
      /\ registry = RegistryAt(TipHeight)
  BY DEF TrackerInv, TrackerOK, TrackerSynced, Synced
<1>3. TipHeight \in Nat /\ TipHeight = Len(chain) /\ TipHeight \in 0..Len(chain)
  BY <1>1 DEF TipHeight
<1>4. \A h \in 0..Len(chain) : WalkOK(chain, boundary, h)
  BY <1>1, JudgedWalk
<1>5. WalkOK(chain, boundary, TipHeight)
  BY <1>3, <1>4
<1>6. registry \in Registries
  <2>1. RegistryOf(chain, boundary, TipHeight) \in Registries
    BY <1>1, <1>3, RegistryType
  <2> QED BY <1>2, <2>1 DEF RegistryAt
<1>7. \A h : Walk(h) = StateAt(chain, boundary, h)
  BY DEF Walk, StateAt
<1> QED BY <1>2, <1>3, <1>5, <1>6, <1>7 DEF WalkOK

(* The old set authorizes the successor before the successor gains authority,
   on every chain the tracker can be synced to. *)
THEOREM HandoversAuthorized == Spec => []HandoverAuthorized
<1>1. TrackerInv => HandoverAuthorized
  <2> SUFFICES ASSUME TrackerInv, TrackerSynced, NEW e \in 1..m_state.epoch
               PROVE  LET start == m_state.epoch_starts[e + 1]
                          old == Walk(start - 1).current
                          new == Walk(start).current
                      IN  \E h \in ModernStart..(start - 1) :
                             /\ chain[h].cert.epoch = e - 1
                             /\ old.epoch = e - 1 /\ new.epoch = e
                             /\ VerifyFinalityCertificate(chain[h].cert, old, new)
    BY DEF HandoverAuthorized
  <2> DEFINE start == m_state.epoch_starts[e + 1]
             old == Walk(start - 1).current
             new == Walk(start).current
  <2>1. /\ \A h : Walk(h) = StateAt(chain, boundary, h)
        /\ TipHeight < ModernStart => m_state = InitialState
        /\ TipHeight >= ModernStart =>
              EpochsOK(chain, boundary, m_state, TipHeight, TipHeight)
        /\ TipHeight \in Int /\ ModernStart \in Int
    BY SyncedWalk, ModernPosParamsValid
  <2>2. m_state # InitialState
    <3>1. m_state = InitialState => m_state.epoch = 0
      BY DEF InitialState
    <3> QED BY <3>1
  <2>3. EpochsOK(chain, boundary, m_state, TipHeight, TipHeight)
    <3>1. TipHeight < ModernStart \/ TipHeight >= ModernStart
      BY <2>1
    <3> QED BY <2>1, <2>2, <3>1
  <2>4. Opened(chain, boundary, e, start)
    BY <2>3 DEF EpochsOK
  <2>5. old = StateAt(chain, boundary, start - 1).current
        /\ new = StateAt(chain, boundary, start).current
    BY <2>1
  <2> HIDE DEF start, old, new
  <2>6. PICK h \in ModernStart..(start - 1) :
           Authorizes(chain[h].cert, e - 1, old, new)
    BY <2>4, <2>5 DEF Opened
  <2>7. /\ chain[h].cert.epoch = e - 1 /\ old.epoch = e - 1 /\ new.epoch = e
        /\ VerifyFinalityCertificate(chain[h].cert, old, new)
    <3>1. (e - 1) + 1 = e
      OBVIOUS
    <3> QED BY <2>6, <3>1 DEF Authorizes
  <2>8. \E g \in ModernStart..(start - 1) :
           /\ chain[g].cert.epoch = e - 1
           /\ old.epoch = e - 1 /\ new.epoch = e
           /\ VerifyFinalityCertificate(chain[g].cert, old, new)
    BY <2>7
  <2> QED BY <2>8 DEF start, old, new
<1> QED BY <1>1, TrackerInvariant, PTL

(* Every epoch of the chain lasts E to E + extension blocks, and a broken
   lineage carries no certificate any more, for every value of E, of the
   extension and of the registries. *)
THEOREM EpochsAreBounded == Spec => []EpochsBounded
<1>1. TrackerInv => EpochsBounded
  <2> SUFFICES ASSUME TrackerInv, TrackerSynced PROVE EpochsBounded
    BY DEF EpochsBounded
  <2>1. /\ TipHeight < ModernStart => m_state = InitialState
        /\ TipHeight >= ModernStart =>
              EpochsOK(chain, boundary, m_state, TipHeight, TipHeight)
        /\ TipHeight \in Int /\ ModernStart \in Int
        /\ m_state \in States
    BY SyncedWalk, ModernPosParamsValid
  <2>2. CASE m_state = InitialState
    <3>1. /\ m_state.epoch_starts = <<>> /\ ~m_state.lineage_broken
          /\ ~m_state.bootstrapped
      BY <2>2 DEF InitialState
    <3>2. Len(m_state.epoch_starts) - 1 = -1
      BY <3>1
    <3>3. 1..(-1) = {}
      OBVIOUS
    <3> QED BY <3>1, <3>2, <3>3 DEF EpochsBounded
  <2>3. CASE EpochsOK(chain, boundary, m_state, TipHeight, TipHeight)
    <3>1. Len(m_state.epoch_starts) - 1 = m_state.epoch
      BY <2>1, <2>3 DEF EpochsOK, States
    <3>2. \A i \in 1..m_state.epoch :
             m_state.epoch_starts[i + 1] - m_state.epoch_starts[i]
                \in EpochBlocks..Limit
      BY <2>3 DEF EpochsOK
    <3>3. m_state.lineage_broken =>
             \A h \in (EpochStart(m_state) + Limit)..TipHeight :
                chain[h].cert = NoCert
      BY <2>3 DEF EpochsOK
    <3>4. m_state.bootstrapped /\ ~m_state.lineage_broken =>
             TipHeight - EpochStart(m_state) < Limit
      BY <2>3 DEF EpochsOK
    <3> QED BY <3>1, <3>2, <3>3, <3>4 DEF EpochsBounded, Limit
  <2>4. TipHeight < ModernStart \/ TipHeight >= ModernStart
    BY <2>1
  <2> QED BY <2>1, <2>2, <2>3, <2>4
<1> QED BY <1>1, TrackerInvariant, PTL

(* Block production and validation name the same set for the next block, on
   every chain: SetInForceAt and Projected never disagree. *)
THEOREM SetsInForceAgree == Spec => []SetInForceAgrees
<1>1. TrackerInv => SetInForceAgrees
  <2> DEFINE h == TipHeight + 1
             p == Projected(m_state, h, registry)
  <2> SUFFICES ASSUME TrackerInv, TrackerSynced
               PROVE  /\ h >= ModernStart =>
                            SetInForceAt(m_state, h, registry) = p.current
                      /\ p.bootstrapped => /\ p.current.epoch = p.epoch
                                           /\ p.next.epoch = p.epoch + 1
    BY DEF SetInForceAgrees
  <2>1. /\ m_state \in States /\ TipHeight \in Nat /\ registry \in Registries
        /\ TipHeight < ModernStart => m_state = InitialState
        /\ TipHeight >= ModernStart =>
              EpochsOK(chain, boundary, m_state, TipHeight, TipHeight)
        /\ ModernStart \in Nat /\ h \in Nat
    BY SyncedWalk, ModernPosParamsValid
  <2>2. CASE h < ModernStart
    <3>1. m_state = InitialState /\ ~(h >= ModernStart)
      BY <2>1, <2>2
    <3>2. p = m_state
      BY <2>2 DEF Projected
    <3>3. ~p.bootstrapped
      BY <3>1, <3>2 DEF InitialState
    <3> QED BY <3>1, <3>3
  <2>3. CASE h = ModernStart
    <3>1. ~(h < ModernStart)
      BY <2>1, <2>3
    <3>2. p = Bootstrap(registry)
      BY <2>3, <3>1 DEF Projected
    <3>3. SetInForceAt(m_state, h, registry) = p.current
      BY <2>3, <3>1 DEF SetInForceAt
    <3>4. p.epoch = 0 /\ (p.bootstrapped => p.current.epoch = 0 /\ p.next.epoch = 1)
      <4> HIDE DEF p
      <4> QED BY <2>1, <3>2, BootstrapType
    <3>5. p.epoch + 1 = 1
      BY <3>4
    <3> QED BY <3>3, <3>4, <3>5
  <2>4. CASE h > ModernStart
    <3>1. ~(h < ModernStart) /\ h # ModernStart /\ TipHeight >= ModernStart
      BY <2>1, <2>4
    <3>2. EpochsOK(chain, boundary, m_state, TipHeight, TipHeight)
      BY <2>1, <3>1
    <3>3. m_state.epoch_starts # <<>>
      <4>1. Len(m_state.epoch_starts) = m_state.epoch + 1 /\ m_state.epoch \in Nat
        BY <2>1, <3>2 DEF EpochsOK, States
      <4> QED BY <4>1
    <3>4. CASE ~m_state.bootstrapped
      <4>1. p = m_state
        BY <3>1, <3>4 DEF Projected
      <4>2. SetInForceAt(m_state, h, registry) = NoSet
        BY <3>1, <3>4 DEF SetInForceAt
      <4>3. m_state.current = NoSet
        BY <3>2, <3>4 DEF EpochsOK
      <4> QED BY <3>4, <4>1, <4>2, <4>3
    <3>5. CASE m_state.bootstrapped
      <4>1. m_state.current.epoch = m_state.epoch
            /\ m_state.next.epoch = m_state.epoch + 1 /\ m_state.epoch \in Nat
        BY <2>1, <3>2, <3>5 DEF EpochsOK, States
      <4>2. p = BreakLineage(IF RotationFires(m_state, h)
                             THEN Rotate(m_state, h, registry) ELSE m_state, h)
        BY <3>1, <3>3, <3>5 DEF Projected
      <4>3. CASE RotationFires(m_state, h)
        <5> DEFINE r == Rotate(m_state, h, registry)
        <5>1. /\ r \in States /\ r.epoch = m_state.epoch + 1
              /\ r.current = m_state.next /\ r.next.epoch = m_state.epoch + 2
          BY <2>1, RotateType
        <5>2. p = BreakLineage(r, h)
          BY <4>2, <4>3
        <5>3. SetInForceAt(m_state, h, registry) = m_state.next
          BY <3>1, <3>3, <3>5, <4>3 DEF SetInForceAt
        <5> HIDE DEF r
        <5>4. p.current = r.current /\ p.next = r.next /\ p.epoch = r.epoch
          BY <5>1, <5>2, BreakType
        <5>5. p.epoch + 1 = m_state.epoch + 2
          BY <4>1, <5>1, <5>4
        <5> QED BY <4>1, <5>1, <5>3, <5>4, <5>5
      <4>4. CASE ~RotationFires(m_state, h)
        <5>1. p = BreakLineage(m_state, h)
          BY <4>2, <4>4
        <5>2. SetInForceAt(m_state, h, registry) = m_state.current
          BY <3>1, <3>3, <3>5, <4>4 DEF SetInForceAt
        <5>3. p.current = m_state.current /\ p.next = m_state.next
              /\ p.epoch = m_state.epoch
          <6> HIDE DEF p, h
          <6> QED BY <2>1, <5>1, BreakType
        <5> QED BY <4>1, <5>2, <5>3
      <4> QED BY <4>3, <4>4
    <3> QED BY <3>4, <3>5
  <2>5. h < ModernStart \/ h = ModernStart \/ h > ModernStart
    BY <2>1
  <2> QED BY <2>2, <2>3, <2>4, <2>5
<1> QED BY <1>1, TrackerInvariant, PTL
=============================================================================
