------------------------- MODULE FinalityPinProofs -------------------------
(***************************************************************************)
(* What TLAPS proves of FinalityPin, for every block tree, every placement *)
(* of certificates, every reorganisation horizon and unbounded runs with   *)
(* crashes, failed pin writes, unsynced trackers and reindexes.            *)
(***************************************************************************)
EXTENDS FinalityPin, NaturalFacts, SequenceTheorems

-----------------------------------------------------------------------------
(* Blocks as paths.                                                        *)

(* An ancestor is what agrees with a block up to its own height. *)
LEMMA PrefixPointwise ==
    ASSUME NEW s \in Seq(Int), NEW t \in Seq(Int)
    PROVE  IsPrefix(s, t) <=>
              Len(s) <= Len(t) /\ \A i \in 1..Len(s) : s[i] = t[i]
<1>1. SubSeq(s, 1, Len(s)) = s
  BY SubSeqFull
<1>2. CASE Len(s) <= Len(t)
  <2>1. \A i \in 1..Len(s) : t[i] \in Int
    BY <1>2
  <2>2. /\ SubSeq(t, 1, Len(s)) \in Seq(Int)
        /\ Len(SubSeq(t, 1, Len(s))) = Len(s)
        /\ \A i \in 1..Len(s) : SubSeq(t, 1, Len(s))[i] = t[i]
    <3>1. /\ SubSeq(t, 1, Len(s)) \in Seq(Int)
          /\ Len(SubSeq(t, 1, Len(s))) = IF 1 <= Len(s) THEN Len(s) - 1 + 1 ELSE 0
          /\ \A i \in 1..(Len(s) - 1 + 1) : SubSeq(t, 1, Len(s))[i] = t[1 + i - 1]
      BY <2>1, SubSeqProperties
    <3> QED BY <3>1
  <2>3. ASSUME \A i \in 1..Len(s) : s[i] = t[i]
        PROVE  s = SubSeq(t, 1, Len(s))
    <3>1. \A i \in 1..Len(s) : s[i] = SubSeq(t, 1, Len(s))[i]
      BY <2>2, <2>3
    <3> HIDE DEF IsPrefix
    <3> QED BY <2>2, <3>1, SeqEqual
  <2> QED BY <1>1, <1>2, <2>2, <2>3 DEF IsPrefix
<1>3. CASE ~(Len(s) <= Len(t))
  BY <1>3 DEF IsPrefix
<1> QED BY <1>2, <1>3

(* The ancestor of a block at a height. *)
LEMMA AncestorAt ==
    ASSUME NEW b \in Seq(Int), NEW h \in 0..Len(b)
    PROVE  /\ SubSeq(b, 1, h) \in Seq(Int)
           /\ Len(SubSeq(b, 1, h)) = h
           /\ \A i \in 1..h : SubSeq(b, 1, h)[i] = b[i]
           /\ IsPrefix(SubSeq(b, 1, h), b)
<1>1. \A i \in 1..h : b[i] \in Int
  OBVIOUS
<1>2. /\ SubSeq(b, 1, h) \in Seq(Int)
      /\ Len(SubSeq(b, 1, h)) = IF 1 <= h THEN h - 1 + 1 ELSE 0
      /\ \A i \in 1..(h - 1 + 1) : SubSeq(b, 1, h)[i] = b[1 + i - 1]
  BY <1>1, SubSeqProperties
<1>3. /\ Len(SubSeq(b, 1, h)) = h
      /\ \A i \in 1..h : SubSeq(b, 1, h)[i] = b[i]
  BY <1>2
<1>4. Len(SubSeq(b, 1, h)) <= Len(b)
  BY <1>3
<1> QED BY <1>2, <1>3, <1>4, PrefixPointwise

(* The parent of a block. *)
LEMMA ParentIsBelow ==
    ASSUME NEW b \in Seq(Int), b # <<>>
    PROVE  /\ Parent(b) \in Seq(Int)
           /\ Len(b) \in Nat \ {0} /\ Len(Parent(b)) = Len(b) - 1
           /\ Parent(b) = SubSeq(b, 1, Len(b) - 1)
           /\ IsPrefix(Parent(b), b)
<1>1. Len(b) \in Nat \ {0}
  BY EmptySeq
<1>2. Len(b) - 1 \in 0..Len(b)
  BY <1>1
<1>3. Parent(b) = SubSeq(b, 1, Len(b) - 1)
  BY DEF Parent, Front
<1> QED BY <1>1, <1>2, <1>3, AncestorAt

(* Ancestry is an order. *)
LEMMA PrefixOrder ==
    ASSUME NEW a \in Seq(Int), NEW b \in Seq(Int), NEW c \in Seq(Int)
    PROVE  /\ IsPrefix(a, a)
           /\ IsPrefix(a, b) => Len(a) <= Len(b)
           /\ IsPrefix(a, b) /\ Len(a) = Len(b) => a = b
           /\ IsPrefix(a, b) /\ IsPrefix(b, c) => IsPrefix(a, c)
           /\ IsPrefix(a, c) /\ IsPrefix(b, c) /\ Len(a) <= Len(b)
                 => IsPrefix(a, b)
           /\ IsStrictPrefix(a, b) <=> IsPrefix(a, b) /\ Len(a) < Len(b)
<1>0. Len(a) \in Nat /\ Len(b) \in Nat /\ Len(c) \in Nat
  OBVIOUS
<1>1. IsPrefix(a, b) <=> Len(a) <= Len(b) /\ \A i \in 1..Len(a) : a[i] = b[i]
  BY PrefixPointwise
<1>2. IsPrefix(b, c) <=> Len(b) <= Len(c) /\ \A i \in 1..Len(b) : b[i] = c[i]
  BY PrefixPointwise
<1>3. IsPrefix(a, c) <=> Len(a) <= Len(c) /\ \A i \in 1..Len(a) : a[i] = c[i]
  BY PrefixPointwise
<1>4. IsPrefix(a, a)
  BY <1>0, PrefixPointwise
<1>5. IsPrefix(a, b) /\ Len(a) = Len(b) => a = b
  BY <1>1, SeqEqual
<1>6. IsPrefix(a, b) /\ IsPrefix(b, c) => IsPrefix(a, c)
  BY <1>0, <1>1, <1>2, <1>3
<1>7. IsPrefix(a, c) /\ IsPrefix(b, c) /\ Len(a) <= Len(b) => IsPrefix(a, b)
  BY <1>0, <1>1, <1>2, <1>3
<1>8. IsStrictPrefix(a, b) <=> IsPrefix(a, b) /\ Len(a) < Len(b)
  BY <1>0, <1>1, <1>5, SMTT(30) DEF IsStrictPrefix
<1> QED BY <1>1, <1>4, <1>5, <1>6, <1>7, <1>8

\* A set of blocks with the parent of each of its blocks.
Closed(S) == \A b \in S : b = <<>> \/ Parent(b) \in S

(* Such a set, as the block index is one, holds every ancestor. *)
LEMMA ClosedHoldsAncestors ==
    ASSUME NEW S, S \subseteq Seq(Int), Closed(S), NEW b \in S,
           NEW h \in 0..Len(b)
    PROVE  SubSeq(b, 1, h) \in S
<1> DEFINE Missing == {k \in 0..Len(b) : SubSeq(b, 1, k) \notin S}
<1> SUFFICES ASSUME Missing # {} PROVE FALSE
  OBVIOUS
<1>1. b \in Seq(Int) /\ Len(b) \in Nat /\ Missing \subseteq 0..Len(b)
  OBVIOUS
<1>2. PICK k \in Missing : \A g \in Missing : g <= k
  <2> HIDE DEF Missing
  <2> QED BY <1>1, GreatestExists
<1>3. SubSeq(b, 1, Len(b)) = b
  BY SubSeqFull, SMTT(30)
<1>4. k \in 0..Len(b) /\ k # Len(b)
  BY <1>3
<1>5. k + 1 \in 0..Len(b) /\ k + 1 > k
  BY <1>1, <1>4
<1> DEFINE c == SubSeq(b, 1, k + 1)
<1>6. c \in S
  BY <1>2, <1>5
<1>7. c \in Seq(Int) /\ Len(c) = k + 1 /\ IsPrefix(c, b)
  BY <1>5, AncestorAt
<1>8. c # <<>>
  BY <1>4, <1>7, SMTT(30)
<1> HIDE DEF c
<1>9. Parent(c) \in S /\ Parent(c) \in Seq(Int) /\ Len(Parent(c)) = k
      /\ IsPrefix(Parent(c), c)
  BY <1>1, <1>4, <1>6, <1>7, <1>8, ParentIsBelow DEF Closed
<1>10. SubSeq(b, 1, k) \in Seq(Int) /\ Len(SubSeq(b, 1, k)) = k
       /\ IsPrefix(SubSeq(b, 1, k), b)
  BY <1>4, AncestorAt
<1>11. IsPrefix(Parent(c), b)
  BY <1>7, <1>9, PrefixOrder
<1>12. IsPrefix(Parent(c), SubSeq(b, 1, k))
  BY <1>9, <1>10, <1>11, <1>1, <1>4, PrefixOrder
<1>13. Parent(c) = SubSeq(b, 1, k)
  BY <1>9, <1>10, <1>12, PrefixOrder
<1> QED BY <1>2, <1>9, <1>13

(* CChain::FindFork finds a block of the first chain that is an ancestor of
   the second. *)
LEMMA ForkOnBoth ==
    ASSUME NEW b \in Seq(Int), NEW c \in Seq(Int)
    PROVE  /\ ForkHeight(b, c) \in 0..Len(b)
           /\ IsPrefix(SubSeq(b, 1, ForkHeight(b, c)), c)
<1> DEFINE Common == {h \in 0..Len(b) : IsPrefix(SubSeq(b, 1, h), c)}
<1>1. Len(b) \in Nat /\ Common \subseteq 0..Len(b)
  OBVIOUS
<1>2. 0 \in Common
  <2>1. 0 \in 0..Len(b)
    BY <1>1
  <2>2. SubSeq(b, 1, 0) \in Seq(Int) /\ Len(SubSeq(b, 1, 0)) = 0
    BY <2>1, AncestorAt
  <2>3. IsPrefix(SubSeq(b, 1, 0), c)
    <3> DEFINE s == SubSeq(b, 1, 0)
    <3>1. s \in Seq(Int) /\ Len(s) = 0
      BY <2>2
    <3> HIDE DEF s
    <3>2. Len(s) <= Len(c) /\ \A i \in 1..Len(s) : s[i] = c[i]
      BY <3>1
    <3>3. IsPrefix(s, c)
      BY <3>1, <3>2, PrefixPointwise
    <3> QED BY <3>3 DEF s
  <2> QED BY <2>1, <2>3
<1>3. PICK h \in Common : \A g \in Common : g <= h
  <2> HIDE DEF Common
  <2> QED BY <1>1, <1>2, GreatestExists
<1>4. \A g \in (h + 1)..Len(b) : ~IsPrefix(SubSeq(b, 1, g), c)
  <2> SUFFICES ASSUME NEW g \in (h + 1)..Len(b), IsPrefix(SubSeq(b, 1, g), c)
               PROVE  FALSE
    OBVIOUS
  <2>1. g \in 0..Len(b) /\ g > h
    BY <1>1, <1>3
  <2> QED BY <1>1, <1>3, <2>1
<1>5. \E k \in 0..Height(b) :
         /\ IsPrefix(SubSeq(b, 1, k), c)
         /\ \A g \in (k + 1)..Height(b) : ~IsPrefix(SubSeq(b, 1, g), c)
  BY <1>3, <1>4 DEF Height
<1> QED BY <1>5 DEF ForkHeight, Height

-----------------------------------------------------------------------------
(* The finalized checkpoint of a chain.                                    *)

Certified(b) == {Certificate[SubSeq(b, 1, h)] : h \in 0..Height(b)} \ {NoBlock}

(* Every path of the tree holds its ancestors. *)
LEMMA TreeClosed == Closed(Blocks) /\ Blocks \subseteq Seq(Int)
BY TreeAssumption DEF Closed, Parent

(* The certificates on a chain name blocks of it, below its tip. *)
LEMMA CertifiedOnChain ==
    ASSUME NEW b \in Blocks, NEW c \in Certified(b)
    PROVE  c \in Blocks /\ IsPrefix(c, b) /\ Len(c) < Len(b)
<1>1. b \in Seq(Int) /\ Blocks \subseteq Seq(Int)
  BY TreeClosed
<1>2. PICK h \in 0..Len(b) : c = Certificate[SubSeq(b, 1, h)] /\ c # NoBlock
  BY DEF Certified, Height
<1> DEFINE a == SubSeq(b, 1, h)
<1>3. a \in Blocks /\ Len(a) = h /\ IsPrefix(a, b)
  BY <1>1, TreeClosed, ClosedHoldsAncestors, AncestorAt
<1> HIDE DEF a
<1>4. c \in Blocks /\ IsStrictPrefix(c, a)
  BY <1>2, <1>3, TreeAssumption DEF a
<1>5. a \in Seq(Int) /\ c \in Seq(Int)
  BY <1>1, <1>3, <1>4
<1>6. IsPrefix(c, a) /\ Len(c) < Len(a)
  BY <1>4, <1>5, PrefixOrder
<1>7. IsPrefix(c, b) /\ Len(a) <= Len(b)
  BY <1>1, <1>3, <1>5, <1>6, PrefixOrder
<1>8. Len(a) \in Nat /\ Len(b) \in Nat /\ Len(c) \in Nat
  BY <1>1, <1>5
<1> QED BY <1>4, <1>6, <1>7, <1>8

(* The tracker's finalized checkpoint is the highest of them. *)
LEMMA FinalizedHighest ==
    ASSUME NEW b \in Blocks
    PROVE  /\ Certified(b) = {} => Finalized(b) = NoBlock
           /\ Certified(b) # {} =>
                 /\ Finalized(b) \in Certified(b)
                 /\ \A d \in Certified(b) : Len(d) <= Len(Finalized(b))
<1>1. CASE Certified(b) = {}
  BY <1>1 DEF Finalized, Certified
<1>2. CASE Certified(b) # {}
  <2> DEFINE H == {Len(c) : c \in Certified(b)}
  <2>1. b \in Seq(Int) /\ Len(b) \in Nat
    BY TreeClosed
  <2>2. ASSUME NEW c \in Certified(b) PROVE Len(c) \in 0..Len(b)
    <3>1. c \in Seq(Int) /\ Len(c) < Len(b)
      BY CertifiedOnChain, TreeClosed
    <3> QED BY <2>1, <3>1
  <2>3. H \subseteq 0..Len(b) /\ H # {}
    BY <1>2, <2>2
  <2>4. PICK m \in H : \A n \in H : n <= m
    <3> HIDE DEF H
    <3> QED BY <2>1, <2>3, GreatestExists
  <2>5. PICK c \in Certified(b) : m = Len(c)
    BY <2>4
  <2>6. \A d \in Certified(b) : Height(d) <= Height(c)
    BY <2>4, <2>5 DEF Height
  <2>7. Finalized(b) = CHOOSE e \in Certified(b) :
                          \A d \in Certified(b) : Height(d) <= Height(e)
    BY <1>2 DEF Finalized, Certified
  <2> HIDE DEF H
  <2>8. /\ Finalized(b) \in Certified(b)
        /\ \A d \in Certified(b) : Height(d) <= Height(Finalized(b))
    BY <2>6, <2>7
  <2> QED BY <1>2, <2>8 DEF Height
<1> QED BY <1>1, <1>2

(* It is NoBlock or an ancestor of the chain's tip, and not the tip. *)
LEMMA FinalizedOnChain ==
    ASSUME NEW b \in Blocks, Finalized(b) # NoBlock
    PROVE  /\ Finalized(b) \in Blocks
           /\ IsPrefix(Finalized(b), b) /\ Len(Finalized(b)) < Len(b)
BY FinalizedHighest, CertifiedOnChain

-----------------------------------------------------------------------------
(* The inductive invariant.                                                *)

\* The checkpoint c, if there is one, is no higher than a.
Covers(a, c) == c # NoBlock => a # NoBlock /\ Len(c) <= Len(a)

\* The block index holds the parents of its blocks, the target among them.
IndexOK ==
    /\ Closed(index) /\ Closed(disk.index)
    /\ target # NoBlock => target \in index

\* Nothing is activated while the block files are read back.
PhaseOK ==
    /\ loading \/ ~up => phase = "idle"
    /\ ~up => dropped = {}
    /\ up /\ loading => tip = Genesis

\* The file holds the pin last written, at or below the anchor, and lags behind
\* it only in a node that is shutting down because the write failed.
PinOK ==
    /\ pinned # INVALID /\ pin \in {pinned, INVALID}
    /\ up => Covers(anchor, pinned)
    /\ up /\ ~fatal => pin \in {anchor, INVALID}

\* What ActivateBestChain relies on between its steps.
PinBelowAnchor == pin \in index => IsPrefix(pin, anchor) /\ anchor \in index

ActivationOK ==
    /\ phase # "idle" => PinBelowAnchor
    /\ phase = "select" => ~TipMustUnwind
    /\ phase = "step" =>
          /\ anchor \in index => ~OffAnchor(target, anchor)
          /\ anchor # NoBlock /\ IsPrefix(anchor, tip)
                => IsPrefix(anchor, target) \/ IsPrefix(tip, target)

PinInv ==
    TypeOK /\ IndexOK /\ PhaseOK /\ PinOK /\ ActivationOK

-----------------------------------------------------------------------------
(* Facts about blocks in the form the steps use them.                      *)

(* Genesis and the parents of blocks are blocks; the sentinels are not. *)
LEMMA BlockFacts ==
    /\ Genesis \in Blocks /\ Len(Genesis) = 0
    /\ NoBlock \notin Blocks /\ INVALID \notin Blocks /\ NoBlock # INVALID
    /\ \A a \in Blocks : /\ Len(a) \in Nat /\ IsPrefix(a, a)
                         /\ a # Genesis =>
                               /\ Parent(a) \in Blocks /\ IsPrefix(Parent(a), a)
                               /\ Len(a) \in Nat \ {0}
                               /\ Len(Parent(a)) = Len(a) - 1
<1>1. Genesis \in Blocks /\ Len(Genesis) = 0
  BY TreeAssumption DEF Genesis
<1>2. NoBlock \notin Blocks /\ INVALID \notin Blocks /\ NoBlock # INVALID
  BY PinAssumption
<1>3. ASSUME NEW a \in Blocks
      PROVE  /\ Len(a) \in Nat /\ IsPrefix(a, a)
             /\ a # Genesis =>
                   /\ Parent(a) \in Blocks /\ IsPrefix(Parent(a), a)
                   /\ Len(a) \in Nat \ {0}
                   /\ Len(Parent(a)) = Len(a) - 1
  <2>1. a \in Seq(Int)
    BY TreeClosed
  <2>2. Len(a) \in Nat /\ IsPrefix(a, a)
    BY <2>1, PrefixOrder
  <2>3. ASSUME a # <<>>
        PROVE  /\ Parent(a) \in Blocks /\ IsPrefix(Parent(a), a)
               /\ Len(a) \in Nat \ {0} /\ Len(Parent(a)) = Len(a) - 1
    BY <2>1, <2>3, ParentIsBelow, TreeClosed DEF Closed
  <2> QED BY <2>2, <2>3 DEF Genesis
<1> QED BY <1>1, <1>2, <1>3

(* Ancestry of blocks: bounded by height, transitive, linear below a block. *)
LEMMA Ancestry ==
    ASSUME NEW a \in Blocks, NEW b \in Blocks, NEW c \in Blocks
    PROVE  /\ IsPrefix(a, b) => Len(a) <= Len(b)
           /\ IsPrefix(a, b) /\ Len(a) = Len(b) => a = b
           /\ IsPrefix(a, b) /\ IsPrefix(b, c) => IsPrefix(a, c)
           /\ IsPrefix(a, c) /\ IsPrefix(b, c) /\ Len(a) <= Len(b)
                 => IsPrefix(a, b)
<1>1. a \in Seq(Int) /\ b \in Seq(Int) /\ c \in Seq(Int)
  BY TreeClosed
<1> QED BY <1>1, PrefixOrder

(* An ancestor of an indexed block is indexed. *)
LEMMA IndexedAncestor ==
    ASSUME TypeOK, IndexOK, NEW b \in index, NEW a \in Blocks, IsPrefix(a, b)
    PROVE  a \in index
<1>1. a \in Seq(Int) /\ b \in Seq(Int) /\ index \subseteq Seq(Int)
      /\ Closed(index)
  BY TreeClosed DEF TypeOK, IndexOK
<1>2. Len(a) \in 0..Len(b)
  <2>1. Len(a) <= Len(b) /\ Len(a) \in Nat /\ Len(b) \in Nat
    BY <1>1, PrefixOrder
  <2> QED BY <2>1
<1>3. SubSeq(b, 1, Len(a)) \in index
  BY <1>1, <1>2, ClosedHoldsAncestors
<1>4. SubSeq(b, 1, Len(a)) = a
  BY <1>1, SubSeqFull DEF IsPrefix
<1> QED BY <1>3, <1>4

(* Genesis is an ancestor of every block. *)
LEMMA GenesisIsAncestor == \A b \in Blocks : IsPrefix(Genesis, b)
<1> SUFFICES ASSUME NEW b \in Blocks PROVE IsPrefix(Genesis, b)
  OBVIOUS
<1>1. b \in Seq(Int) /\ Genesis \in Seq(Int) /\ Len(Genesis) = 0
      /\ Len(b) \in Nat
  BY TreeClosed, BlockFacts
<1>2. Len(Genesis) <= Len(b) /\ \A i \in 1..Len(Genesis) : Genesis[i] = b[i]
  BY <1>1
<1> QED BY <1>1, <1>2, PrefixPointwise

-----------------------------------------------------------------------------
(* Raising the pin.                                                        *)

(* RaiseFinalityAnchor leaves everything, or moves the anchor to a checkpoint
   above it, with the file or, if the write fails, without. *)
LEMMA RaiseEffect ==
    ASSUME TypeOK, PinOK, up, NEW cp \in Blocks \cup {NoBlock},
           RaiseFinalityAnchor(cp)
    PROVE  /\ pinned' \in Blocks \cup {NoBlock}
           /\ pin' \in {pinned', INVALID}
           /\ fatal' \in BOOLEAN
           /\ Covers(anchor', pinned')
           /\ ~fatal' => pin' \in {anchor', INVALID}
           /\ \/ anchor' = anchor /\ pin' = pin
              \/ /\ cp \in Blocks /\ ~Covers(anchor, cp)
                 /\ anchor' = cp /\ pin' \in {pin, cp}
<1>0. /\ anchor \in Blocks \cup {NoBlock} /\ fatal \in BOOLEAN
      /\ pinned \in Blocks \cup {NoBlock}
      /\ Covers(anchor, pinned) /\ pin \in {pinned, INVALID}
      /\ ~fatal => pin \in {anchor, INVALID}
  BY DEF TypeOK, PinOK
<1>1. CASE cp = NoBlock \/ ~HigherThan(cp, anchor)
  <2>1. UNCHANGED <<anchor, pin, pinned, fatal>>
    BY <1>1 DEF RaiseFinalityAnchor
  <2> QED BY <1>0, <2>1
<1>2. CASE cp # NoBlock /\ HigherThan(cp, anchor)
  <2>1. anchor' = cp /\ WriteFinalityPin(cp)
    BY <1>2 DEF RaiseFinalityAnchor
  <2>2. cp \in Blocks /\ Len(cp) \in Nat /\ cp # INVALID
    BY <1>2, BlockFacts
  <2>3. anchor # NoBlock => Len(cp) > Len(anchor) /\ Len(anchor) \in Nat
    BY <1>0, <1>2, BlockFacts DEF HigherThan, Height
  <2>4. ~Covers(anchor, cp)
    BY <2>2, <2>3, <1>2 DEF Covers
  <2>5. pinned # NoBlock => Len(pinned) < Len(cp) /\ Len(pinned) \in Nat
    <3> SUFFICES ASSUME pinned # NoBlock
                 PROVE  Len(pinned) < Len(cp) /\ Len(pinned) \in Nat
      OBVIOUS
    <3>1. anchor # NoBlock /\ Len(pinned) <= Len(anchor) /\ Len(pinned) \in Nat
      BY <1>0, BlockFacts DEF Covers
    <3> QED BY <2>2, <2>3, <3>1
  <2>6. Covers(cp, cp) /\ Covers(cp, pinned)
    BY <1>2, <2>2, <2>5 DEF Covers
  <2>7. pin # INVALID => HigherThan(cp, pin)
    BY <1>0, <2>5 DEF HigherThan, Height
  <2>8. \/ pin' = cp /\ pinned' = cp /\ fatal' = fatal
        \/ pin' = pin /\ pinned' = pinned /\ fatal' = TRUE
    BY <2>1, <2>7 DEF WriteFinalityPin
  <2> QED BY <1>0, <2>1, <2>2, <2>4, <2>6, <2>8
<1> QED BY <1>1, <1>2

(* What is raised from a chain lies on it, above the anchor and below its end;
   PinOK survives, also when nothing could be raised. *)
LEMMA RefreshEffect ==
    ASSUME TypeOK, PinOK, up, up', NEW t \in Blocks, RefreshFinalityAnchor(t)
    PROVE  /\ PinOK'
           /\ anchor' \in Blocks \cup {NoBlock} /\ fatal' \in BOOLEAN
           /\ {pin', pinned'} \subseteq Blocks \cup {NoBlock, INVALID}
           /\ \/ anchor' = anchor /\ pin' = pin
              \/ /\ anchor' \in Blocks /\ ~Covers(anchor, anchor')
                 /\ IsPrefix(anchor', t) /\ Len(anchor') < Len(t)
                 /\ pin' \in {pin, anchor'}
<1>1. PICK cp \in {Finalized(t), NoBlock} : RaiseFinalityAnchor(cp)
  BY DEF RefreshFinalityAnchor
<1>2. /\ cp \in Blocks \cup {NoBlock}
      /\ cp \in Blocks => IsPrefix(cp, t) /\ Len(cp) < Len(t)
  BY <1>1, FinalizedOnChain, BlockFacts
<1>3. /\ pinned' \in Blocks \cup {NoBlock} /\ pin' \in {pinned', INVALID}
      /\ fatal' \in BOOLEAN /\ Covers(anchor', pinned')
      /\ ~fatal' => pin' \in {anchor', INVALID}
      /\ \/ anchor' = anchor /\ pin' = pin
         \/ /\ cp \in Blocks /\ ~Covers(anchor, cp)
            /\ anchor' = cp /\ pin' \in {pin, cp}
  BY <1>1, <1>2, RaiseEffect
<1>4. anchor \in Blocks \cup {NoBlock}
  BY DEF TypeOK
<1>5. PinOK'
  BY <1>3, BlockFacts DEF PinOK
<1> QED BY <1>2, <1>3, <1>4, <1>5

(* A checkpoint above a block that does not conflict with the chain it is on
   extends that block. *)
LEMMA CheckpointExtends ==
    ASSUME NEW p \in Blocks, NEW c \in Blocks, NEW t \in Blocks,
           IsPrefix(c, t), Len(c) < Len(t), Len(p) <= Len(c), ~OffAnchor(t, p)
    PROVE  IsPrefix(p, c)
<1>1. Len(p) \in Nat /\ Len(c) \in Nat /\ Len(t) \in Nat
  BY BlockFacts
<1>2. ~IsPrefix(t, p)
  <2> SUFFICES ASSUME IsPrefix(t, p) PROVE FALSE
    OBVIOUS
  <2>1. Len(t) <= Len(p)
    BY Ancestry
  <2> QED BY <1>1, <2>1
<1>3. IsPrefix(p, t)
  BY <1>2 DEF OffAnchor
<1> QED BY <1>3, Ancestry

(* On a chain that does not conflict with the anchor, the pin and the anchor
   only move along one chain. *)
LEMMA RefreshOnChain ==
    ASSUME TypeOK, IndexOK, PinOK, up, up', PinBelowAnchor,
           NEW t \in index, RefreshFinalityAnchor(t),
           anchor \in index => ~OffAnchor(t, anchor)
    PROVE  /\ pin' \in index => IsPrefix(pin', anchor') /\ anchor' \in index
           /\ pin' # pin /\ pin \in index => IsPrefix(pin, pin')
           /\ anchor' \in index => ~OffAnchor(t, anchor')
<1>0. /\ t \in Blocks /\ index \subseteq Blocks
      /\ anchor \in Blocks \cup {NoBlock}
  BY DEF TypeOK
<1>1. \/ anchor' = anchor /\ pin' = pin
      \/ /\ anchor' \in Blocks /\ ~Covers(anchor, anchor')
         /\ IsPrefix(anchor', t) /\ Len(anchor') < Len(t)
         /\ pin' \in {pin, anchor'}
  BY <1>0, RefreshEffect
<1>2. CASE anchor' = anchor /\ pin' = pin
  BY <1>2 DEF PinBelowAnchor
<1> DEFINE c == anchor'
<1>3. CASE /\ c \in Blocks /\ ~Covers(anchor, c) /\ IsPrefix(c, t)
           /\ Len(c) < Len(t) /\ pin' \in {pin, c}
  <2> HIDE DEF c
  <2>1. c \in index /\ IsPrefix(c, c) /\ ~OffAnchor(t, c)
    BY <1>0, <1>3, IndexedAncestor, BlockFacts DEF OffAnchor
  <2>2. ASSUME pin \in index PROVE IsPrefix(pin, c)
    <3>1. anchor \in index /\ anchor \in Blocks /\ IsPrefix(pin, anchor)
          /\ pin \in Blocks
      BY <1>0, <2>2 DEF PinBelowAnchor
    <3>2. Len(anchor) <= Len(c)
      <4>1. Len(anchor) \in Nat /\ Len(c) \in Nat /\ anchor # NoBlock
        BY <1>3, <3>1, BlockFacts
      <4> QED BY <1>3, <4>1 DEF Covers
    <3>3. IsPrefix(anchor, c)
      BY <1>0, <1>3, <3>1, <3>2, CheckpointExtends
    <3> QED BY <1>3, <3>1, <3>3, Ancestry
  <2>3. anchor' = c /\ pin' \in {pin, c}
    BY <1>3 DEF c
  <2> QED BY <2>1, <2>2, <2>3
<1> QED BY <1>1, <1>2, <1>3

-----------------------------------------------------------------------------
(* One lemma per operation that moves the tip, the index or the pin.       *)

(* A new block lies above the anchor: a pinned block that is not indexed is
   never accepted, so a pin does not come into force under a running step. *)
LEMMA ReceivedAboveAnchor ==
    ASSUME TypeOK, IndexOK, up, NEW b \in Blocks, b # Genesis,
           HeaderAcceptable(b), anchor # NoBlock
    PROVE  Len(anchor) < Len(b)
<1> DEFINE f == ForkHeight(Parent(b), tip)
<1>1. Parent(b) \in Seq(Int) /\ tip \in Seq(Int) /\ Len(Parent(b)) = Len(b) - 1
      /\ Len(b) \in Nat /\ anchor \in Blocks /\ Len(anchor) \in Nat
  BY BlockFacts, TreeClosed DEF TypeOK
<1>2. f \in 0..(Len(b) - 1)
  BY <1>1, ForkOnBoth
<1>3. ~(f < Len(anchor))
  BY DEF HeaderAcceptable, ReorgViolatesFinality, Height
<1> HIDE DEF f
<1> QED BY <1>1, <1>2, <1>3

(* A block that arrives, or is read back by a reindex. *)
LEMMA BlockArrives ==
    ASSUME PinInv, NEW b \in Blocks, ReceiveBlock(b) \/ ImportBlock(b)
    PROVE  PinInv'
<1>0. TypeOK /\ IndexOK /\ PhaseOK /\ PinOK /\ ActivationOK
  BY DEF PinInv
<1>1. /\ up /\ b \notin index /\ b # Genesis /\ Parent(b) \in index
      /\ index' = index \cup {b} /\ stored' \subseteq Blocks
      /\ UNCHANGED <<up, loading, fatal, failed, tip, phase, target, start,
                     dropped, anchor, pin, disk, pinned>>
  BY <1>0 DEF ReceiveBlock, ImportBlock, activation, TypeOK
<1>2. ~loading => HeaderAcceptable(b)
  BY DEF ReceiveBlock, ImportBlock
<1>3. TypeOK'
  BY <1>0, <1>1 DEF TypeOK
<1>4. IndexOK'
  BY <1>0, <1>1 DEF IndexOK, Closed
<1>5. ASSUME ~loading PROVE b # anchor /\ b # pin
  <2>1. CASE anchor = NoBlock
    <3>1. pin \in {NoBlock, INVALID}
      BY <1>0, <1>1, <2>1 DEF PinOK, Covers
    <3> QED BY <2>1, <3>1, BlockFacts
  <2>2. CASE anchor # NoBlock
    <3>1. Len(anchor) < Len(b) /\ Len(anchor) \in Nat /\ Len(b) \in Nat
      BY <1>0, <1>1, <1>2, <1>5, <2>2, ReceivedAboveAnchor, BlockFacts DEF TypeOK
    <3>2. ASSUME pin = b PROVE FALSE
      <4>1. pinned = b /\ b # NoBlock
        BY <1>0, <3>2, BlockFacts DEF PinOK
      <4>2. Len(b) <= Len(anchor)
        BY <1>0, <1>1, <4>1 DEF PinOK, Covers
      <4> QED BY <3>1, <4>2
    <3> QED BY <3>1, <3>2
  <2> QED BY <2>1, <2>2
<1>6. PinOK' /\ PhaseOK'
  BY <1>0, <1>1 DEF PinOK, PhaseOK
<1>9. ActivationOK'
  <2>1. CASE loading
    BY <1>0, <1>1, <2>1 DEF PhaseOK, ActivationOK
  <2>2. CASE ~loading
    BY <1>0, <1>1, <1>5, <2>2
       DEF ActivationOK, PinBelowAnchor, TipMustUnwind, IsAnchorIneligible
  <2> QED BY <2>1, <2>2
<1> QED BY <1>3, <1>4, <1>6, <1>9 DEF PinInv

(* Unwinding a tip that is off the anchor. *)
LEMMA TipUnwound ==
    ASSUME PinInv, AbandonOffAnchorTip
    PROVE  PinInv'
<1>0. TypeOK /\ IndexOK /\ PhaseOK /\ PinOK /\ ActivationOK
  BY DEF PinInv
<1>1. /\ up /\ phase = "unwind" /\ UnwindTip /\ ~loading
      /\ UNCHANGED <<up, loading, fatal, index, failed, target, start, anchor,
                     pin, disk, stored, pinned>>
  BY <1>0 DEF AbandonOffAnchorTip, PhaseOK
<1>2. CASE ~TipMustUnwind
  <2>1. phase' = "select" /\ UNCHANGED <<tip, dropped>>
    BY <1>1, <1>2 DEF UnwindTip
  <2>2. TypeOK' /\ IndexOK' /\ PhaseOK'
    BY <1>0, <1>1, <2>1 DEF TypeOK, IndexOK, PhaseOK
  <2>3. PinOK'
    BY <1>0, <1>1 DEF PinOK
  <2>4. ActivationOK'
    BY <1>0, <1>1, <1>2, <2>1
       DEF ActivationOK, PinBelowAnchor, TipMustUnwind, IsAnchorIneligible
  <2> QED BY <2>2, <2>3, <2>4 DEF PinInv
<1>3. CASE TipMustUnwind
  <2>1. tip' = Parent(tip) /\ dropped' = {} /\ phase' = phase
    BY <1>1, <1>3 DEF UnwindTip
  <2>2. tip # Genesis /\ tip \in index /\ tip \in Blocks
    BY <1>0, <1>1, <1>3 DEF TipMustUnwind, TypeOK
  <2>3. tip' \in index /\ tip' \in Blocks /\ IsPrefix(tip', tip)
    BY <1>0, <2>1, <2>2, BlockFacts DEF IndexOK, Closed, Genesis
  <2>4. TypeOK' /\ IndexOK' /\ PhaseOK'
    BY <1>0, <1>1, <2>1, <2>3 DEF TypeOK, IndexOK, PhaseOK
  <2>5. PinOK'
    BY <1>0, <1>1 DEF PinOK
  <2>6. ActivationOK'
    BY <1>0, <1>1, <2>1 DEF ActivationOK, PinBelowAnchor
  <2> QED BY <2>4, <2>5, <2>6 DEF PinInv
<1> QED BY <1>2, <1>3

(* FindMostWorkChain: the target it returns keeps the anchor, or extends the
   tip. *)
LEMMA TargetSelected ==
    ASSUME PinInv, Select
    PROVE  PinInv'
<1>0. TypeOK /\ IndexOK /\ PhaseOK /\ PinOK /\ ActivationOK
  BY DEF PinInv
<1>1. /\ up /\ up' /\ phase = "select" /\ ~loading
      /\ RefreshFinalityAnchor(tip)
      /\ UNCHANGED <<up, loading, index, failed, tip, disk, stored>>
      /\ tip \in index /\ tip \in Blocks
      /\ index \subseteq Blocks /\ PinBelowAnchor
  BY <1>0 DEF Select, PhaseOK, TypeOK, ActivationOK
<1>2. /\ PinOK'
      /\ anchor' \in Blocks \cup {NoBlock} /\ fatal' \in BOOLEAN
      /\ {pin', pinned'} \subseteq Blocks \cup {NoBlock, INVALID}
  BY <1>0, <1>1, RefreshEffect
<1>3. anchor \in index => ~OffAnchor(tip, anchor)
  BY <1>0, <1>1, GenesisIsAncestor
     DEF ActivationOK, TipMustUnwind, IsAnchorIneligible, OffAnchor
<1>4. /\ pin' \in index => IsPrefix(pin', anchor') /\ anchor' \in index
      /\ anchor' \in index => ~OffAnchor(tip, anchor')
  BY <1>0, <1>1, <1>3, RefreshOnChain
<1>5. CASE phase' = "idle" /\ UNCHANGED <<target, start, dropped>>
  <2>1. TypeOK' /\ IndexOK' /\ PhaseOK' /\ ActivationOK'
    BY <1>0, <1>1, <1>2, <1>5 DEF TypeOK, IndexOK, PhaseOK, ActivationOK
  <2> QED BY <1>2, <2>1 DEF PinInv
<1>6. ASSUME NEW b \in Candidates(anchor') \ {tip},
             dropped' = dropped \cup {b}, UNCHANGED <<phase, target, start>>
      PROVE  PinInv'
  <2>1. b \in index
    BY DEF Candidates
  <2>2. TypeOK' /\ IndexOK' /\ PhaseOK'
    BY <1>0, <1>1, <1>2, <1>6, <2>1 DEF TypeOK, IndexOK, PhaseOK
  <2>3. ActivationOK'
    BY <1>0, <1>1, <1>4, <1>6
       DEF ActivationOK, PinBelowAnchor, TipMustUnwind, IsAnchorIneligible,
           OffAnchor, TypeOK
  <2> QED BY <1>2, <2>2, <2>3 DEF PinInv
<1>7. ASSUME NEW b \in Candidates(anchor') \ {tip},
             ~(/\ ForkHeight(tip, b) < Height(tip) /\ anchor' # NoBlock
               /\ ForkHeight(tip, b) < Height(anchor')),
             phase' = "step", target' = b, start' = tip, UNCHANGED dropped
      PROVE  PinInv'
  <2>1. b \in index /\ b \in Blocks /\ b # NoBlock
        /\ (anchor' \in index => ~OffAnchor(b, anchor'))
    BY <1>1, BlockFacts DEF Candidates, IsAnchorIneligible
  <2>2. TypeOK' /\ IndexOK' /\ PhaseOK'
    BY <1>0, <1>1, <1>2, <1>7, <2>1 DEF TypeOK, IndexOK, PhaseOK
  <2>3. ASSUME anchor' # NoBlock, IsPrefix(anchor', tip)
        PROVE  IsPrefix(anchor', b) \/ IsPrefix(tip, b)
    <3> DEFINE f == ForkHeight(tip, b)
               common == SubSeq(tip, 1, f)
               a == anchor'
    <3>1. tip \in Seq(Int) /\ b \in Seq(Int) /\ anchor' \in Seq(Int)
          /\ Len(tip) \in Nat /\ Len(anchor') \in Nat
      BY <1>1, <1>2, <2>1, <2>3, TreeClosed
    <3>2. f \in 0..Len(tip) /\ IsPrefix(common, b)
      BY <3>1, ForkOnBoth
    <3>3. common \in Seq(Int) /\ Len(common) = f /\ IsPrefix(common, tip)
      BY <3>1, <3>2, AncestorAt
    <3> HIDE DEF f, common
    <3>4. f = Len(tip) \/ f >= Len(anchor')
      BY <1>7, <2>3, <3>1, <3>2 DEF f, Height
    <3>5. CASE f = Len(tip)
      <4>1. common = tip
        BY <3>1, <3>3, <3>5, PrefixOrder
      <4> QED BY <3>2, <4>1
    <3>6. CASE f >= Len(anchor')
      <4>0. a \in Seq(Int) /\ IsPrefix(a, tip) /\ Len(a) <= Len(common)
        BY <2>3, <3>1, <3>2, <3>3, <3>6
      <4> HIDE DEF a
      <4>1. IsPrefix(a, common)
        BY <3>1, <3>3, <4>0, PrefixOrder
      <4>2. IsPrefix(a, b)
        BY <3>1, <3>2, <3>3, <4>0, <4>1, PrefixOrder
      <4> QED BY <4>2 DEF a
    <3> QED BY <3>4, <3>5, <3>6
  <2>4. ActivationOK'
    BY <1>1, <1>4, <1>7, <2>1, <2>3 DEF ActivationOK, PinBelowAnchor, OffAnchor
  <2> QED BY <1>2, <2>2, <2>4 DEF PinInv
<1>8. \/ phase' = "idle" /\ UNCHANGED <<target, start, dropped>>
      \/ \E b \in Candidates(anchor') \ {tip} :
            \/ dropped' = dropped \cup {b} /\ UNCHANGED <<phase, target, start>>
            \/ /\ ~(/\ ForkHeight(tip, b) < Height(tip) /\ anchor' # NoBlock
                    /\ ForkHeight(tip, b) < Height(anchor'))
               /\ phase' = "step" /\ target' = b /\ start' = tip
               /\ UNCHANGED dropped
  BY DEF Select
<1> QED BY <1>5, <1>6, <1>7, <1>8

(* DisconnectTip goes down to the fork with the target, not below the anchor. *)
LEMMA DisconnectKeepsAnchor ==
    ASSUME PinInv, DisconnectTip
    PROVE  /\ tip' \in index /\ IsPrefix(tip', tip)
           /\ anchor # NoBlock /\ IsPrefix(anchor, tip) =>
                 IsPrefix(anchor, tip') /\ IsPrefix(anchor, target)
<1>0. TypeOK /\ IndexOK /\ ActivationOK
  BY DEF PinInv
<1>1. /\ up /\ phase = "step" /\ ~IsPrefix(tip, target) /\ tip' = Parent(tip)
      /\ tip \in index /\ tip \in Blocks /\ target \in Blocks
      /\ anchor \in Blocks \cup {NoBlock}
  BY <1>0 DEF DisconnectTip, TypeOK
<1>2. tip # Genesis
  BY <1>1, GenesisIsAncestor
<1>3. tip' \in index /\ tip' \in Blocks /\ IsPrefix(tip', tip)
      /\ Len(tip) \in Nat /\ Len(tip') = Len(tip) - 1
  BY <1>0, <1>1, <1>2, BlockFacts DEF IndexOK, Closed, Genesis
<1>4. ASSUME anchor # NoBlock, IsPrefix(anchor, tip)
      PROVE  IsPrefix(anchor, tip') /\ IsPrefix(anchor, target)
  <2>1. IsPrefix(anchor, target) /\ anchor # tip /\ anchor \in Blocks
    BY <1>0, <1>1, <1>4 DEF ActivationOK
  <2>2. Len(anchor) <= Len(tip) /\ Len(anchor) # Len(tip) /\ Len(anchor) \in Nat
    BY <1>1, <1>4, <2>1, Ancestry, BlockFacts
  <2>3. Len(anchor) <= Len(tip')
    BY <1>3, <2>2
  <2> QED BY <1>1, <1>3, <1>4, <2>1, <2>3, Ancestry
<1> QED BY <1>3, <1>4

(* DisconnectTip, as a step of ActivateBestChainStep. *)
LEMMA TipDisconnected ==
    ASSUME PinInv, DisconnectTip
    PROVE  PinInv'
<1>0. TypeOK /\ IndexOK /\ PhaseOK /\ PinOK /\ ActivationOK
  BY DEF PinInv
<1>1. /\ up /\ phase = "step" /\ tip \in Blocks
      /\ anchor \in Blocks \cup {NoBlock} /\ index \subseteq Blocks
      /\ UNCHANGED <<up, loading, fatal, index, failed, phase, target, start,
                     dropped, anchor, pin, disk, stored, pinned>>
  BY <1>0 DEF DisconnectTip, activation, TypeOK
<1>2. /\ tip' \in index /\ tip' \in Blocks /\ IsPrefix(tip', tip)
      /\ anchor # NoBlock /\ IsPrefix(anchor, tip) =>
            IsPrefix(anchor, tip') /\ IsPrefix(anchor, target)
  BY <1>1, DisconnectKeepsAnchor
<1>3. TypeOK' /\ IndexOK' /\ PhaseOK'
  BY <1>0, <1>1, <1>2 DEF TypeOK, IndexOK, PhaseOK
<1>4. PinOK'
  BY <1>0, <1>1, <1>2 DEF PinOK
<1>8. ActivationOK'
  <2>1. anchor # NoBlock /\ IsPrefix(anchor, tip') => IsPrefix(anchor, target)
    BY <1>1, <1>2, Ancestry
  <2> QED BY <1>0, <1>1, <2>1 DEF ActivationOK, PinBelowAnchor, OffAnchor
<1> QED BY <1>3, <1>4, <1>8 DEF PinInv

(* ConnectTip climbs towards the target, over every block on the way. *)
LEMMA ConnectClimbs ==
    ASSUME PinInv, ConnectTip
    PROVE  /\ tip' \in index /\ tip' \in Blocks /\ target \in Blocks
           /\ IsPrefix(tip, tip') /\ IsPrefix(tip', target)
           /\ anchor \in index => ~OffAnchor(tip', anchor)
<1>0. TypeOK /\ IndexOK /\ ActivationOK
  BY DEF PinInv
<1>1. /\ up /\ phase = "step" /\ IsStrictPrefix(tip, target)
      /\ tip' = SubSeq(target, 1, Len(tip) + 1)
      /\ tip \in Blocks /\ target \in Blocks /\ target \in index
      /\ anchor \in Blocks \cup {NoBlock} /\ index \subseteq Blocks
  BY <1>0 DEF ConnectTip, TypeOK, IndexOK, Height
<1>2. tip \in Seq(Int) /\ target \in Seq(Int) /\ index \subseteq Seq(Int)
  BY <1>1, TreeClosed
<1>3. /\ IsPrefix(tip, target) /\ Len(tip) + 1 \in 0..Len(target)
      /\ Len(tip) \in Nat
  <2>1. IsPrefix(tip, target) /\ Len(tip) < Len(target)
        /\ Len(tip) \in Nat /\ Len(target) \in Nat
    BY <1>1, <1>2, PrefixOrder
  <2> QED BY <2>1
<1> DEFINE t == SubSeq(target, 1, Len(tip) + 1)
<1>4. t \in index /\ t \in Blocks
  BY <1>0, <1>1, <1>2, <1>3, ClosedHoldsAncestors DEF IndexOK
<1>5. Len(t) = Len(tip) + 1 /\ IsPrefix(t, target)
  BY <1>2, <1>3, AncestorAt
<1> HIDE DEF t
<1>6. IsPrefix(tip, t)
  <2>1. Len(tip) <= Len(t)
    BY <1>3, <1>5
  <2> QED BY <1>1, <1>3, <1>4, <1>5, <2>1, Ancestry
<1>7. ASSUME anchor \in index PROVE ~OffAnchor(t, anchor)
  <2>1. anchor \in Blocks /\ ~OffAnchor(target, anchor)
    BY <1>0, <1>1, <1>7 DEF ActivationOK
  <2>2. CASE IsPrefix(target, anchor)
    BY <1>1, <1>4, <1>5, <2>1, <2>2, Ancestry DEF OffAnchor
  <2>3. CASE IsPrefix(anchor, target)
    <3>1. Len(anchor) \in Nat /\ Len(t) \in Nat
      BY <1>4, <2>1, BlockFacts
    <3>2. Len(anchor) <= Len(t) \/ Len(t) <= Len(anchor)
      BY <3>1
    <3> QED BY <1>1, <1>4, <1>5, <2>1, <2>3, <3>2, Ancestry DEF OffAnchor
  <2> QED BY <2>1, <2>2, <2>3 DEF OffAnchor
<1>8. tip' = t
  BY <1>1 DEF t
<1> QED BY <1>1, <1>4, <1>5, <1>6, <1>7, <1>8

(* ConnectTip, as a step of ActivateBestChainStep. *)
LEMMA TipConnected ==
    ASSUME PinInv, ConnectTip
    PROVE  PinInv'
<1>0. TypeOK /\ IndexOK /\ PhaseOK /\ PinOK /\ ActivationOK
  BY DEF PinInv
<1>1. /\ up /\ up' /\ phase = "step" /\ ~loading
      /\ RefreshFinalityAnchor(tip')
      /\ \/ phase' = "idle" /\ target' = NoBlock /\ start' = NoBlock
         \/ UNCHANGED <<phase, target, start>>
      /\ UNCHANGED <<up, loading, index, failed, dropped, disk, stored>>
      /\ PinBelowAnchor
  BY <1>0 DEF ConnectTip, PhaseOK, ActivationOK
<1>2. /\ tip' \in index /\ tip' \in Blocks /\ target \in Blocks
      /\ IsPrefix(tip, tip') /\ IsPrefix(tip', target)
      /\ anchor \in index => ~OffAnchor(tip', anchor)
  BY ConnectClimbs
<1> DEFINE t == tip'
<1>3. /\ t \in index /\ t \in Blocks /\ RefreshFinalityAnchor(t) /\ t = tip'
      /\ anchor \in index => ~OffAnchor(t, anchor)
  BY <1>1, <1>2
<1> HIDE DEF t
<1>4. /\ PinOK'
      /\ anchor' \in Blocks \cup {NoBlock} /\ fatal' \in BOOLEAN
      /\ {pin', pinned'} \subseteq Blocks \cup {NoBlock, INVALID}
      /\ anchor' # anchor => anchor' \in Blocks /\ IsPrefix(anchor', tip')
  BY <1>0, <1>1, <1>3, RefreshEffect
<1>5. pin' \in index => IsPrefix(pin', anchor') /\ anchor' \in index
  BY <1>0, <1>1, <1>3, RefreshOnChain
<1>7. TypeOK' /\ IndexOK' /\ PhaseOK'
  BY <1>0, <1>1, <1>2, <1>4 DEF TypeOK, IndexOK, PhaseOK
<1>8. ActivationOK'
  <2>1. anchor' # anchor => IsPrefix(anchor', target)
    BY <1>2, <1>4, Ancestry
  <2> QED BY <1>0, <1>1, <1>2, <1>5, <2>1
          DEF ActivationOK, PinBelowAnchor, OffAnchor
<1> QED BY <1>4, <1>7, <1>8 DEF PinInv

(* InvalidateBlock takes the tip back, not below the anchor it has raised. *)
LEMMA InvalidateKeepsAnchor ==
    ASSUME PinInv, NEW b \in Blocks, InvalidateBlock(b)
    PROVE  /\ tip' \in index /\ tip' \in Blocks /\ IsPrefix(tip', tip)
           /\ anchor' # NoBlock /\ IsPrefix(anchor', tip)
                 => IsPrefix(anchor', tip')
<1>0. TypeOK /\ IndexOK /\ PinOK
  BY DEF PinInv
<1>1. /\ up /\ up' /\ b \in index /\ tip \in index /\ tip \in Blocks
      /\ RefreshFinalityAnchor(tip)
      /\ \/ tip' = tip
         \/ /\ b # Genesis /\ IsPrefix(b, tip) /\ tip' = Parent(b)
            /\ anchor' = NoBlock \/ Len(b) - 1 >= Len(anchor')
  BY <1>0 DEF InvalidateBlock, MayInvalidate, TypeOK, Height
<1>2. CASE tip' = tip
  BY <1>1, <1>2, BlockFacts
<1>3. CASE /\ b # Genesis /\ IsPrefix(b, tip) /\ tip' = Parent(b)
           /\ anchor' = NoBlock \/ Len(b) - 1 >= Len(anchor')
  <2>1. /\ Parent(b) \in index /\ Parent(b) \in Blocks /\ IsPrefix(Parent(b), b)
        /\ Len(Parent(b)) = Len(b) - 1
    BY <1>0, <1>1, <1>3, BlockFacts DEF IndexOK, Closed, Genesis
  <2>2. IsPrefix(Parent(b), tip)
    BY <1>1, <1>3, <2>1, Ancestry
  <2>3. ASSUME anchor' # NoBlock, IsPrefix(anchor', tip)
        PROVE  IsPrefix(anchor', Parent(b))
    <3> DEFINE a == anchor'
    <3>1. a \in Blocks
      BY <1>0, <1>1, <2>3, RefreshEffect
    <3>2. Len(a) <= Len(Parent(b)) /\ IsPrefix(a, tip)
      <4>1. Len(a) \in Nat /\ Len(b) \in Nat
        BY <3>1, BlockFacts
      <4> QED BY <1>3, <2>1, <2>3, <4>1
    <3> HIDE DEF a
    <3>3. IsPrefix(a, Parent(b))
      BY <1>1, <2>1, <2>2, <3>1, <3>2, Ancestry
    <3> QED BY <3>3 DEF a
  <2> QED BY <1>3, <2>1, <2>2, <2>3
<1> QED BY <1>1, <1>2, <1>3

(* InvalidateBlock, with the pin it raises first. *)
LEMMA BlockInvalidated ==
    ASSUME PinInv, NEW b \in Blocks, InvalidateBlock(b)
    PROVE  PinInv'
<1>0. TypeOK /\ IndexOK /\ PhaseOK /\ PinOK /\ ActivationOK
  BY DEF PinInv
<1>1. /\ up /\ up' /\ ~loading /\ phase = "idle"
      /\ RefreshFinalityAnchor(tip) /\ tip \in Blocks
      /\ failed' \subseteq index /\ dropped' \subseteq index
      /\ UNCHANGED <<up, loading, index, phase, target, start, disk, stored>>
  BY <1>0 DEF InvalidateBlock, TypeOK
<1>2. tip' \in index /\ tip' \in Blocks
  BY InvalidateKeepsAnchor
<1>3. /\ PinOK'
      /\ anchor' \in Blocks \cup {NoBlock} /\ fatal' \in BOOLEAN
      /\ {pin', pinned'} \subseteq Blocks \cup {NoBlock, INVALID}
  BY <1>0, <1>1, RefreshEffect
<1>4. TypeOK' /\ IndexOK' /\ PhaseOK' /\ ActivationOK'
  BY <1>0, <1>1, <1>2, <1>3 DEF TypeOK, IndexOK, PhaseOK, ActivationOK
<1> QED BY <1>3, <1>4 DEF PinInv

(* A shutdown flushes, a crash does not; either leaves nothing in memory. *)
LEMMA NodeStops ==
    ASSUME PinInv, Stopped, stored' \subseteq Blocks,
           UNCHANGED <<loading, pin, pinned>>,
           disk' = disk \/ disk' = [index |-> index, failed |-> failed, tip |-> tip],
           up
    PROVE  PinInv'
<1>0. TypeOK /\ IndexOK /\ PhaseOK /\ PinOK /\ ActivationOK
  BY DEF PinInv
<1>1. /\ disk'.tip \in disk'.index /\ disk'.failed \subseteq disk'.index
      /\ disk'.index \subseteq Blocks /\ Closed(disk'.index)
  <2>1. CASE disk' = disk
    BY <1>0, <2>1 DEF TypeOK, IndexOK
  <2>2. CASE disk' = [index |-> index, failed |-> failed, tip |-> tip]
    <3>1. disk'.index = index /\ disk'.failed = failed /\ disk'.tip = tip
      BY <2>2
    <3> QED BY <1>0, <3>1 DEF TypeOK, IndexOK
  <2> QED BY <2>1, <2>2
<1>4. TypeOK'
  BY <1>0, <1>1 DEF Stopped, TypeOK
<1>5. IndexOK' /\ PhaseOK' /\ PinOK'
  BY <1>0, <1>1 DEF Stopped, IndexOK, Closed, PhaseOK, PinOK
<1>2. ActivationOK'
  BY DEF Stopped, ActivationOK
<1> QED BY <1>2, <1>4, <1>5 DEF PinInv

(* Starting, with the databases as flushed or wiped for a reindex. *)
LEMMA NodeStarts ==
    ASSUME PinInv, Start \/ Reindex
    PROVE  PinInv'
<1>0. TypeOK /\ IndexOK /\ PhaseOK /\ PinOK /\ ActivationOK
  BY DEF PinInv
<1>1. /\ ~up /\ up' = TRUE /\ phase = "idle"
      /\ pin # INVALID /\ anchor' = pin /\ pin = pinned /\ dropped = {}
      /\ UNCHANGED <<fatal, phase, target, start, dropped, pin, stored, pinned>>
  BY <1>0 DEF Start, Reindex, LoadPin, activation, PhaseOK, PinOK
<1>2. target = NoBlock /\ pin \in Blocks \cup {NoBlock} /\ Covers(pin, pin)
  BY <1>0, <1>1, BlockFacts DEF TypeOK, Covers
<1>3. pin \in Blocks => IsPrefix(pin, pin)
  BY BlockFacts
<1>4. CASE Start
  <2>1. /\ index' = disk.index /\ failed' = disk.failed /\ tip' = disk.tip
        /\ disk' = disk /\ loading' = loading /\ ~loading
        /\ disk.index \subseteq Blocks
    BY <1>0, <1>4 DEF Start, TypeOK
  <2>2. TypeOK' /\ IndexOK' /\ PhaseOK'
    BY <1>0, <1>1, <1>2, <2>1 DEF TypeOK, IndexOK, PhaseOK
  <2>3. PinOK'
    BY <1>0, <1>1, <1>2, <1>3, <2>1 DEF PinOK
  <2>4. ActivationOK'
    BY <1>1 DEF ActivationOK
  <2> QED BY <2>2, <2>3, <2>4 DEF PinInv
<1>5. CASE Reindex
  <2>1. /\ index' = {Genesis} /\ failed' = {} /\ tip' = Genesis
        /\ disk' = [index |-> {Genesis}, failed |-> {}, tip |-> Genesis]
        /\ loading' = TRUE
    BY <1>5 DEF Reindex, WipeDatabases
  <2>2. disk'.index = {Genesis} /\ disk'.failed = {} /\ disk'.tip = Genesis
    BY <2>1
  <2>3. TypeOK' /\ IndexOK' /\ PhaseOK'
    BY <1>0, <1>1, <1>2, <2>1, <2>2, BlockFacts
       DEF TypeOK, IndexOK, PhaseOK, Closed, Genesis
  <2>4. PinOK'
    BY <1>0, <1>1, <1>2, <1>3, <2>1, BlockFacts DEF PinOK
  <2>5. ActivationOK'
    BY <1>1 DEF ActivationOK
  <2> QED BY <2>3, <2>4, <2>5 DEF PinInv
<1> QED BY <1>4, <1>5

(* A new node: genesis, and no pin. *)
LEMMA InitPin == Init => PinInv
<1> SUFFICES ASSUME Init PROVE PinInv
  OBVIOUS
<1>1. disk.index = {Genesis} /\ disk.failed = {} /\ disk.tip = Genesis
  BY DEF Init
<1>2. TypeOK
  BY <1>1, BlockFacts DEF Init, TypeOK
<1>3. IndexOK /\ PhaseOK
  BY <1>1 DEF Init, IndexOK, PhaseOK, Closed, Genesis
<1>4. PinOK
  BY BlockFacts DEF Init, PinOK, Covers
<1>5. ActivationOK
  BY DEF Init, ActivationOK
<1> QED BY <1>2, <1>3, <1>4, <1>5 DEF PinInv

(* Every step, crash and restart keeps the invariant. *)
LEMMA NextPin == PinInv /\ [Next]_vars => PinInv'
<1> SUFFICES ASSUME PinInv, [Next]_vars PROVE PinInv'
  OBVIOUS
<1>0. TypeOK /\ IndexOK /\ PhaseOK /\ PinOK /\ ActivationOK
  BY DEF PinInv
<1>1. ASSUME NEW b \in Blocks, ReceiveBlock(b) \/ ImportBlock(b) PROVE PinInv'
  BY <1>1, BlockArrives
<1>2. ASSUME NEW b \in Blocks, InvalidateBlock(b) PROVE PinInv'
  BY <1>2, BlockInvalidated
<1>3. CASE ImportDone
  <2>1. TypeOK' /\ IndexOK' /\ PhaseOK' /\ PinOK'
    BY <1>0, <1>3
       DEF ImportDone, activation, TypeOK, IndexOK, PhaseOK, PinOK
  <2>2. ActivationOK'
    BY <1>0, <1>3 DEF ImportDone, activation, PhaseOK, ActivationOK
  <2> QED BY <2>1, <2>2 DEF PinInv
<1>4. CASE ActivateBestChain
  <2>1. TypeOK' /\ IndexOK' /\ PhaseOK' /\ PinOK'
    BY <1>0, <1>4 DEF ActivateBestChain, TypeOK, IndexOK, PhaseOK, PinOK
  <2>2. ActivationOK'
    BY <1>0, <1>4, BlockFacts
       DEF ActivateBestChain, ActivationOK, PinBelowAnchor, PinOK, TypeOK
  <2> QED BY <2>1, <2>2 DEF PinInv
<1>5. CASE Flush
  <2>1. /\ up /\ ~loading
        /\ disk'.index = index /\ disk'.failed = failed /\ disk'.tip = tip
        /\ UNCHANGED <<up, loading, fatal, index, failed, tip, phase, target,
                       start, dropped, anchor, pin, stored, pinned>>
    BY <1>5 DEF Flush, activation
  <2>2. TypeOK' /\ IndexOK' /\ PhaseOK' /\ PinOK'
    BY <1>0, <2>1 DEF TypeOK, IndexOK, PhaseOK, PinOK
  <2>3. ActivationOK'
    BY <1>0, <2>1 DEF ActivationOK, PinBelowAnchor, TipMustUnwind,
       IsAnchorIneligible, OffAnchor
  <2> QED BY <2>2, <2>3 DEF PinInv
<1>6. CASE Shutdown
  BY <1>0, <1>6, NodeStops DEF Shutdown, TypeOK
<1>7. CASE Crash
  <2>1. stored' \subseteq Blocks
    BY <1>0, <1>7 DEF Crash, TypeOK
  <2> QED BY <1>7, <2>1, NodeStops DEF Crash
<1>8. CASE CorruptPin
  <2>1. /\ pin' = INVALID
        /\ UNCHANGED <<up, loading, fatal, index, failed, tip, phase, target,
                       start, dropped, anchor, disk, stored, pinned>>
    BY <1>8 DEF CorruptPin, activation
  <2>2. INVALID \notin index /\ INVALID \notin disk.index
    BY <1>0, BlockFacts DEF TypeOK
  <2>3. TypeOK' /\ IndexOK' /\ PhaseOK' /\ PinOK'
    BY <1>0, <2>1, <2>2 DEF TypeOK, IndexOK, PhaseOK, PinOK
  <2>4. ActivationOK'
    BY <1>0, <2>1, <2>2 DEF ActivationOK, PinBelowAnchor, TipMustUnwind,
       IsAnchorIneligible, OffAnchor
  <2> QED BY <2>3, <2>4 DEF PinInv
<1>9. CASE UNCHANGED vars
  <2>1. TypeOK' /\ IndexOK' /\ PhaseOK' /\ PinOK'
    BY <1>0, <1>9 DEF vars, TypeOK, IndexOK, PhaseOK, PinOK
  <2>2. ActivationOK'
    BY <1>0, <1>9 DEF vars, ActivationOK, PinBelowAnchor, TipMustUnwind,
       IsAnchorIneligible, OffAnchor
  <2> QED BY <2>1, <2>2 DEF PinInv
<1> QED BY <1>1, <1>2, <1>3, <1>4, <1>5, <1>6, <1>7, <1>8, <1>9,
           TipUnwound, TargetSelected, TipDisconnected, TipConnected,
           NodeStarts DEF Next

-----------------------------------------------------------------------------
(* The theorems.                                                           *)

(* The invariant holds throughout, for every tree and every certificate. *)
THEOREM PinInvariant == Spec => []PinInv
BY InitPin, NextPin, PTL DEF Spec

(* Type correctness: the tip and the target are indexed blocks. *)
THEOREM TypeCorrect == Spec => []TypeOK
<1>1. PinInv => TypeOK
  BY DEF PinInv
<1> QED BY <1>1, PinInvariant, PTL

(* A running node's anchor is at or above the last pin written, whatever
   crashes, failed writes, reindexes and reorganisations came between. *)
THEOREM PinIsNeverForgotten == Spec => []PinNeverForgotten
<1>1. PinInv => PinNeverForgotten
  <2> SUFFICES ASSUME PinInv, up, pinned # NoBlock
               PROVE  anchor # NoBlock /\ Height(anchor) >= Height(pinned)
    BY DEF PinNeverForgotten
  <2>1. anchor # NoBlock /\ Len(pinned) <= Len(anchor) /\ pinned # INVALID
        /\ pinned \in Blocks \cup {NoBlock, INVALID}
        /\ anchor \in Blocks \cup {NoBlock}
    BY DEF PinInv, PinOK, Covers, TypeOK
  <2>2. Len(pinned) \in Nat /\ Len(anchor) \in Nat
    BY <2>1, BlockFacts
  <2> QED BY <2>1, <2>2 DEF Height
<1> QED BY <1>1, PinInvariant, PTL

(* Neither a heavier branch nor InvalidateBlock nor an unwinding disconnects
   the pinned checkpoint ("modern-finality-violation"). *)
LEMMA TipKeepsAnchor ==
    ASSUME PinInv, [Next]_vars, up, up', anchor # NoBlock, IsPrefix(anchor, tip)
    PROVE  IsPrefix(anchor, tip')
<1>0. TypeOK /\ PinOK /\ tip \in Blocks /\ anchor \in Blocks
  BY DEF PinInv, TypeOK
<1>1. CASE AbandonOffAnchorTip
  BY <1>1 DEF AbandonOffAnchorTip, UnwindTip, TipMustUnwind,
     IsAnchorIneligible, OffAnchor
<1>2. CASE DisconnectTip
  BY <1>2, DisconnectKeepsAnchor
<1>3. CASE ConnectTip
  <2>1. tip' \in Blocks /\ IsPrefix(tip, tip')
    BY <1>3, ConnectClimbs
  <2> QED BY <1>0, <2>1, Ancestry
<1>4. ASSUME NEW b \in Blocks, InvalidateBlock(b) PROVE IsPrefix(anchor, tip')
  <2>1. /\ RefreshFinalityAnchor(tip) /\ IsPrefix(tip', tip)
        /\ tip' \in Blocks
        /\ anchor' # NoBlock /\ IsPrefix(anchor', tip) => IsPrefix(anchor', tip')
    BY <1>0, <1>4, InvalidateKeepsAnchor, BlockFacts DEF InvalidateBlock
  <2> DEFINE a == anchor'
  <2>2. /\ a \in Blocks /\ IsPrefix(a, tip) /\ Len(anchor) <= Len(a)
    <3>1. CASE a = anchor
      BY <1>0, <3>1, BlockFacts
    <3>2. CASE a # anchor
      <4>1. a \in Blocks /\ IsPrefix(a, tip) /\ ~Covers(anchor, a)
        BY <1>0, <2>1, <3>2, RefreshEffect
      <4>2. Len(a) \in Nat /\ Len(anchor) \in Nat /\ ~(Len(a) <= Len(anchor))
        BY <1>0, <4>1, BlockFacts DEF Covers
      <4> QED BY <4>1, <4>2
    <3> QED BY <3>1, <3>2
  <2>3. IsPrefix(a, tip')
    BY <2>1, <2>2, BlockFacts
  <2> HIDE DEF a
  <2>4. IsPrefix(anchor, a)
    BY <1>0, <2>2, Ancestry
  <2> QED BY <1>0, <2>1, <2>2, <2>3, <2>4, Ancestry
<1>5. CASE tip' = tip
  BY <1>5
<1>6. \/ tip' = tip \/ AbandonOffAnchorTip \/ DisconnectTip \/ ConnectTip
      \/ \E b \in Blocks : InvalidateBlock(b)
  BY DEF Next, vars, ReceiveBlock, ImportBlock, ImportDone, ActivateBestChain,
         Select, Flush, Shutdown, Crash, Stopped, CorruptPin, Start, Reindex
<1> QED BY <1>1, <1>2, <1>3, <1>4, <1>5, <1>6

(* The same as an action property of every behaviour: no step of a running
   node disconnects the pinned checkpoint. *)
THEOREM PinnedStaysConnected == Spec => FinalizedNeverDisconnected
<1>1. PinInv /\ [Next]_vars
         => [up /\ up' /\ anchor # NoBlock /\ IsPrefix(anchor, tip)
                => IsPrefix(anchor, tip')]_vars
  BY TipKeepsAnchor
<1> QED BY <1>1, PinInvariant, PTL DEF Spec, FinalizedNeverDisconnected

(* The pins written by a node that knows the block it pinned lie on one
   chain, although certificates for conflicting branches may exist and the
   tracker may fail to sync; InvalidateBlock is taken on a tip that does not
   conflict with the pin. *)
THEOREM PinsOnOneChain == Spec => PinsFormChain
<1>1. ASSUME PinInv, [Next]_vars, up, pin' # pin, pin \in index,
             ~(phase = "idle" /\ OffAnchor(tip, pin))
      PROVE  pin' = INVALID \/ IsPrefix(pin, pin')
  <2>0. /\ TypeOK /\ IndexOK /\ PinOK /\ ActivationOK /\ tip \in Blocks
        /\ tip \in index /\ pin \in Blocks
    BY <1>1 DEF PinInv, TypeOK
  <2>1. CASE CorruptPin
    BY <2>1 DEF CorruptPin
  <2>2. CASE Select
    <3>1. /\ RefreshFinalityAnchor(tip) /\ up' /\ PinBelowAnchor
          /\ anchor \in index => ~OffAnchor(tip, anchor)
      BY <2>0, <2>2, GenesisIsAncestor
         DEF Select, ActivationOK, TipMustUnwind, IsAnchorIneligible, OffAnchor,
             TypeOK
    <3> QED BY <1>1, <2>0, <3>1, RefreshOnChain
  <2>3. CASE ConnectTip
    <3> DEFINE t == tip'
    <3>1. /\ t \in index /\ up' /\ PinBelowAnchor /\ RefreshFinalityAnchor(t)
          /\ anchor \in index => ~OffAnchor(t, anchor)
      BY <1>1, <2>0, <2>3, ConnectClimbs DEF ConnectTip, ActivationOK
    <3> HIDE DEF t
    <3> QED BY <1>1, <2>0, <3>1, RefreshOnChain
  <2>4. ASSUME NEW b \in Blocks, InvalidateBlock(b) PROVE IsPrefix(pin, pin')
    <3>1. RefreshFinalityAnchor(tip) /\ up' /\ ~OffAnchor(tip, pin)
      BY <1>1, <2>4 DEF InvalidateBlock
    <3> DEFINE c == anchor'
    <3>2. /\ c \in Blocks /\ ~Covers(anchor, c) /\ IsPrefix(c, tip)
          /\ Len(c) < Len(tip) /\ pin' = c
      BY <1>1, <2>0, <3>1, RefreshEffect
    <3> HIDE DEF c
    <3>3. Len(pin) <= Len(c)
      <4>1. anchor \in Blocks /\ anchor # NoBlock /\ Len(pin) <= Len(anchor)
        BY <1>1, <2>0, BlockFacts DEF PinOK, Covers, TypeOK
      <4>2. Len(anchor) \in Nat /\ Len(c) \in Nat /\ Len(pin) \in Nat
        BY <2>0, <3>2, <4>1, BlockFacts
      <4>3. ~(Len(c) <= Len(anchor))
        BY <3>2, <4>1 DEF Covers
      <4> QED BY <4>1, <4>2, <4>3
    <3> QED BY <2>0, <3>1, <3>2, <3>3, CheckpointExtends
  <2>5. \/ pin' = pin \/ CorruptPin \/ ConnectTip \/ Select
        \/ \E b \in Blocks : InvalidateBlock(b)
    BY <1>1 DEF Next, vars, ReceiveBlock, ImportBlock, ImportDone,
       ActivateBestChain, AbandonOffAnchorTip, DisconnectTip,
       Flush, Shutdown, Crash, Start, Reindex
  <2> QED BY <1>1, <2>1, <2>2, <2>3, <2>4, <2>5
<1>2. PinInv /\ [Next]_vars
         => [up /\ pin' # pin /\ pin \in index /\ ~(phase = "idle" /\ OffAnchor(tip, pin))
                => pin' = INVALID \/ IsPrefix(pin, pin')]_vars
  BY <1>1
<1> QED BY <1>2, PinInvariant, PTL DEF Spec, PinsFormChain
=============================================================================
