------------------------ MODULE BridgeCustodyProofs -------------------------
(***************************************************************************)
(* What TLAPS proves of BridgeCustody, for every schedule, deployment and  *)
(* set of amounts, on whichever branches certificates exist and whatever   *)
(* is relayed: the verifier follows the lineage of B3's sets, every burn   *)
(* it has accepted can be released, and the vault's tokens are accounted   *)
(* for on the chain that holds the blocks it accepted.                     *)
(***************************************************************************)
EXTENDS BridgeCustody, NaturalFacts

-----------------------------------------------------------------------------
(* The inductive invariant.                                                *)

Header == [epoch : Nat, members : ValidatorSets]
Leaf == [amount : Nat, height : Nat]
Tree == Seq(Leaf)
B3State == [epoch : Nat, start : Nat, broken : BOOLEAN, handover : BOOLEAN,
            current : Header, next : Header, finalized : Nat,
            minted : SUBSET Nat, tree : Tree]
Cert == [block : Seq(B3State), height : Nat, epoch : Nat, root : SUBSET Tree,
         signers : Header, successor : Header]
VerifierState ==
    [initialized : BOOLEAN, genesis_time : Nat, epoch : Nat,
     current : SUBSET Header, next : SUBSET Header, height : Nat,
     root : SUBSET Tree, last_certificate : Nat, last_rotation : Nat,
     bridge_height : Nat, bridge_root : SUBSET Tree]
VaultState == [deposits : Seq(Nat), locked : Nat, released : SUBSET Nat]

TypeInv ==
    /\ b3 \in Seq(B3State) /\ Len(b3) >= 1
    /\ certs \subseteq Cert /\ accepted \subseteq certs
    /\ verifier \in VerifierState /\ vault \in VaultState /\ now \in Nat

\* A later state of the chain: the lineage of its sets, and its burns.
Inherits(s, t) ==
    /\ s.epoch <= t.epoch
    /\ t.epoch = s.epoch => t.current = s.current /\ t.next = s.next
    /\ t.epoch = s.epoch + 1 => t.current = s.next
    /\ Len(s.tree) <= Len(t.tree)
    /\ \A i \in 1 .. Len(s.tree) : t.tree[i] = s.tree[i]

BothQualified(s) == BridgeThresholdMet(s.current) /\ BridgeThresholdMet(s.next)

\* Burns only at states both of whose sets qualify, and only from B on.
BurnFree(b, g, h) == \A k \in (g + 1) .. h : ~BothQualified(b[k])
ChainInv(b) ==
    /\ b[1].epoch = 0
    /\ \A g, h \in 1 .. Len(b) : g <= h => Inherits(b[g], b[h])
    /\ \A g, h \in 1 .. Len(b) :
          g <= h /\ BurnFree(b, g, h) => b[h].tree = b[g].tree
    /\ \A h \in 1 .. Len(b) : h <= BridgeActivation => b[h].tree = << >>

\* One block is on a branch, at or below its k-th state.
Below(a, b, k) == Len(a) <= k /\ \A i \in 1 .. Len(a) : a[i] = b[i]

\* An epoch is left, and is ready to be left, only under a certificate of its own.
HandedAt(C, b, k) ==
    \A e \in Nat :
        e + 1 = b[k].epoch \/ (e = b[k].epoch /\ b[k].handover) =>
            \E c \in C : c.epoch = e /\ Below(c.block, b, k)
Branch(C, b) ==
    /\ b \in Seq(B3State) /\ Len(b) >= 1 /\ ChainInv(b)
    /\ \A k \in 1 .. Len(b) : HandedAt(C, b, k)

\* A certificate speaks of the last state of its branch.
CertifiesState(c, s) ==
    /\ c.epoch = s.epoch /\ c.signers = s.current /\ c.successor = s.next
    /\ c.root = IF c.height < BridgeActivation THEN {} ELSE {s.tree}
CertOK(C, origin, c) ==
    /\ Branch(C, c.block) /\ c.block[1] = origin
    /\ Len(c.block) = c.height + 1 /\ CertifiesState(c, c.block[Len(c.block)])

\* The certificates of an epoch are of one set, and on one branch.
SameSets(C) == \A c, d \in C : c.epoch = d.epoch => c.signers = d.signers
OneBranchPerSet(C) ==
    \A c, d \in C : c.signers = d.signers =>
        Below(c.block, d.block, Len(d.block)) \/ Below(d.block, c.block, Len(c.block))
CertInv ==
    /\ Branch(certs, b3)
    /\ \A c \in certs : CertOK(certs, b3[1], c)
    /\ SameSets(certs) /\ OneBranchPerSet(certs)

\* The verifier holds the sets of certificates it accepted, and the last root.
VerifierInv ==
    /\ ~verifier.initialized => verifier.current = {} /\ accepted = {}
    /\ verifier.initialized =>
          \/ verifier.epoch = 0 /\ verifier.current = {b3[1].current}
          \/ \E c \in accepted : c.epoch = verifier.epoch /\ verifier.current = {c.signers}
    /\ verifier.next # {} =>
          \E c \in accepted : c.epoch = verifier.epoch /\ verifier.next = {c.successor}
    /\ accepted = {} => /\ verifier.epoch = 0 /\ verifier.height = 0
                        /\ verifier.root = {} /\ verifier.bridge_root = {}
    /\ accepted # {} => \E c \in accepted : /\ c.height = verifier.height
                                            /\ c.epoch = verifier.epoch
                                            /\ c.root = verifier.root
    /\ \A tree \in verifier.bridge_root : verifier.bridge_root = {tree}

\* While one branch was accepted, the releases so far are burns under its last
\* root, paid out of the deposits.
Paying(tree, ids) == [i \in DOMAIN tree |-> IF i \in ids THEN tree[i].amount ELSE 0]
VaultBalanced(v, tree) ==
    /\ v.released \subseteq DOMAIN tree
    /\ v.locked + TotalOf(Paying(tree, v.released)) = TotalOf(v.deposits)
VaultInv == OneBranch => VaultBalanced(vault, Leaves(verifier.root))

CustodyInv ==
    /\ TypeInv /\ CertInv /\ VerifierInv /\ AcceptedBurnsReleasable /\ VaultInv

-----------------------------------------------------------------------------
(* Sums.                                                                   *)

\* The loop of TotalOf, and its partial sums.
IsSum(f, a) ==
    f = [i \in 0 .. Len(a) |-> IF i = 0 THEN 0 ELSE f[i - 1] + a[i]]
IsPartial(f, a) ==
    /\ f \in [0 .. Len(a) -> Int] /\ f[0] = 0
    /\ \A i \in 1 .. Len(a) : f[i] = f[i - 1] + a[i]

(* TotalOf is the last of the partial sums. *)
LEMMA TotalSums ==
    ASSUME NEW a \in Seq(Int)
    PROVE  \E f : IsPartial(f, a) /\ TotalOf(a) = f[Len(a)]
<1> DEFINE n == Len(a)
           body == [x \in Int |-> [i \in 0 .. n |-> IF i = 0 THEN 0 ELSE x + a[i]]]
<1>0. n \in Nat /\ 0 \in Int /\ n \in Int /\ 0 <= n
  OBVIOUS
<1>1. IsBody(body, Int, 0, n)
  <2>1. \A x \in Int : \A i \in 0 .. n : (IF i = 0 THEN 0 ELSE x + a[i]) \in Int
    <3> TAKE x \in Int
    <3> TAKE i \in 0 .. n
    <3>1. i # 0 => i \in 1 .. Len(a)
      BY <1>0
    <3> QED BY <3>1
  <2> QED BY <2>1 DEF IsBody
<1>2. PICK g : IsRun(g, Int, 0, n, 0, body)
  <2> HIDE DEF body, n
  <2> QED BY <1>0, <1>1, IterationExists
<1>3. /\ g \in [0 .. n -> Int] /\ g[0] = 0
      /\ \A i \in 0 .. n : i # 0 => g[i] = g[i - 1] + a[i]
  <2>1. /\ g \in [0 .. n -> Int] /\ g[0] = 0
        /\ \A i \in 0 .. n : i # 0 => g[i] = body[g[i - 1]][i]
    BY <1>2 DEF IsRun
  <2>2. ASSUME NEW i \in 0 .. n, i # 0 PROVE g[i] = g[i - 1] + a[i]
    <3>1. i - 1 \in 0 .. n
      BY <1>0, <2>2
    <3>2. g[i - 1] \in Int
      BY <2>1, <3>1
    <3>3. body[g[i - 1]][i] = g[i - 1] + a[i]
      BY <2>2, <3>2
    <3> QED BY <2>1, <2>2, <3>3
  <2> QED BY <2>1, <2>2
<1>4. IsSum(g, a)
  <2>1. g = [i \in 0 .. n |-> g[i]]
    BY <1>3
  <2>2. \A i \in 0 .. n : g[i] = IF i = 0 THEN 0 ELSE g[i - 1] + a[i]
    BY <1>3
  <2> QED BY <2>1, <2>2 DEF IsSum
<1> DEFINE f == CHOOSE h : IsSum(h, a)
<1>5. IsSum(f, a)
  BY <1>4
<1>6. TotalOf(a) = f[n]
  BY DEF TotalOf, IsSum
<1> HIDE DEF f, body
<1>7. /\ f[0] = 0 /\ \A i \in 0 .. n : i # 0 => f[i] = f[i - 1] + a[i]
      /\ f = [i \in 0 .. n |-> f[i]]
  <2>1. \A i \in 0 .. n : f[i] = IF i = 0 THEN 0 ELSE f[i - 1] + a[i]
    BY <1>5 DEF IsSum
  <2>2. 0 \in 0 .. n
    BY <1>0
  <2>3. f = [i \in 0 .. n |-> f[i]]
    BY <1>5 DEF IsSum
  <2> QED BY <2>1, <2>2, <2>3
<1>8. \A i \in 0 .. n : f[i] \in Int
  <2> DEFINE T == {i \in 0 .. n : f[i] \in Int}
  <2>1. 0 \in T
    BY <1>0, <1>7
  <2>2. ASSUME NEW i \in 0 .. n, i # 0, i - 1 \in T PROVE i \in T
    <3>1. i \in 1 .. Len(a) /\ a[i] \in Int
      BY <2>2
    <3>2. f[i] = f[i - 1] + a[i]
      BY <1>7, <2>2
    <3>3. f[i - 1] \in Int
      BY <2>2
    <3>4. f[i] \in Int
      BY <3>1, <3>2, <3>3
    <3> QED BY <2>2, <3>4
  <2>3. \A i \in 0 .. n : i # 0 /\ i - 1 \in T => i \in T
    BY <2>2
  <2>4. \A i \in 0 .. n : i \in T
    <3> HIDE DEF T, n
    <3> QED BY <1>0, <2>1, <2>3, InductionUpTo
  <2> QED BY <2>4
<1>9. f \in [0 .. n -> Int]
  <2> HIDE DEF n
  <2> QED BY <1>7, <1>8
<1>10. \A i \in 1 .. Len(a) : i \in 0 .. n /\ i # 0
  BY <1>0
<1>11. IsPartial(f, a)
  BY <1>7, <1>9, <1>10 DEF IsPartial
<1> QED BY <1>6, <1>11

(* The sum of integers is an integer. *)
LEMMA TotalInt ==
    ASSUME NEW a \in Seq(Int)
    PROVE  TotalOf(a) \in Int
<1>1. PICK f : IsPartial(f, a) /\ TotalOf(a) = f[Len(a)]
  BY TotalSums
<1>2. Len(a) \in 0 .. Len(a)
  OBVIOUS
<1> QED BY <1>1, <1>2 DEF IsPartial

(* The sum of a sequence that adds two others is the sum of theirs. *)
LEMMA TotalAdds ==
    ASSUME NEW a \in Seq(Int), NEW b \in Seq(Int), NEW c \in Seq(Int),
           Len(a) = Len(c), Len(b) = Len(c),
           \A i \in 1 .. Len(c) : c[i] = a[i] + b[i]
    PROVE  /\ TotalOf(a) \in Int /\ TotalOf(b) \in Int
           /\ TotalOf(c) = TotalOf(a) + TotalOf(b)
<1> DEFINE n == Len(c)
<1>0. n \in Nat /\ 0 \in Int /\ n \in Int /\ 0 <= n
  OBVIOUS
<1>1. PICK f : IsPartial(f, a) /\ TotalOf(a) = f[Len(a)]
  BY TotalSums
<1>2. PICK g : IsPartial(g, b) /\ TotalOf(b) = g[Len(b)]
  BY TotalSums
<1>3. PICK h : IsPartial(h, c) /\ TotalOf(c) = h[Len(c)]
  BY TotalSums
<1>4. /\ f \in [0 .. n -> Int] /\ g \in [0 .. n -> Int] /\ h \in [0 .. n -> Int]
      /\ f[0] = 0 /\ g[0] = 0 /\ h[0] = 0
      /\ \A i \in 1 .. n : f[i] = f[i - 1] + a[i] /\ g[i] = g[i - 1] + b[i]
                           /\ h[i] = h[i - 1] + c[i]
  BY <1>1, <1>2, <1>3 DEF IsPartial
<1> DEFINE T == {k \in 0 .. n : h[k] = f[k] + g[k]}
<1>5. 0 \in T
  BY <1>0, <1>4
<1>6. ASSUME NEW k \in 0 .. n, k # 0, k - 1 \in T PROVE k \in T
  <2>1. k \in 1 .. n /\ k - 1 \in 0 .. n /\ k \in 1 .. Len(a) /\ k \in 1 .. Len(b)
    BY <1>0, <1>6
  <2>2. /\ f[k] = f[k - 1] + a[k] /\ g[k] = g[k - 1] + b[k]
        /\ h[k] = h[k - 1] + c[k] /\ c[k] = a[k] + b[k]
    BY <1>4, <2>1
  <2>3. a[k] \in Int /\ b[k] \in Int /\ f[k - 1] \in Int /\ g[k - 1] \in Int
    <3>1. a[k] \in Int
      BY <2>1
    <3>2. b[k] \in Int
      BY <2>1
    <3> HIDE DEF n
    <3>3. f[k - 1] \in Int /\ g[k - 1] \in Int
      BY <1>4, <2>1
    <3> QED BY <3>1, <3>2, <3>3
  <2>4. h[k - 1] = f[k - 1] + g[k - 1]
    BY <1>6
  <2>5. h[k] = f[k] + g[k]
    BY <2>2, <2>3, <2>4, SMTT(30)
  <2> QED BY <2>5
<1>7. \A k \in 0 .. n : k # 0 /\ k - 1 \in T => k \in T
  BY <1>6
<1>8. \A k \in 0 .. n : k \in T
  <2> HIDE DEF T, n
  <2> QED BY <1>0, <1>5, <1>7, InductionUpTo
<1>9. n \in 0 .. n
  BY <1>0
<1> QED BY <1>1, <1>2, <1>3, <1>4, <1>8, <1>9

(* A sequence and a longer one that starts with it have the same partial sums
   as far as it goes. *)
LEMMA PartialOfPrefix ==
    ASSUME NEW a \in Seq(Int), NEW b \in Seq(Int), Len(a) <= Len(b),
           \A i \in 1 .. Len(a) : b[i] = a[i],
           NEW f, IsPartial(f, a), NEW g, IsPartial(g, b)
    PROVE  \A k \in 0 .. Len(a) : g[k] = f[k]
<1> DEFINE n == Len(a)
           T == {k \in 0 .. n : g[k] = f[k]}
<1>0. n \in Nat /\ 0 \in Int /\ n \in Int /\ 0 <= n
  OBVIOUS
<1>1. 0 \in T
  BY <1>0 DEF IsPartial
<1>2. ASSUME NEW k \in 0 .. n, k # 0, k - 1 \in T PROVE k \in T
  <2>1. k \in 1 .. Len(a) /\ k \in 1 .. Len(b)
    BY <1>2
  <2>2. g[k] = g[k - 1] + b[k] /\ f[k] = f[k - 1] + a[k] /\ b[k] = a[k]
    BY <2>1 DEF IsPartial
  <2> QED BY <1>2, <2>2
<1>3. \A k \in 0 .. n : k # 0 /\ k - 1 \in T => k \in T
  BY <1>2
<1>4. \A k \in 0 .. n : k \in T
  <2> HIDE DEF T, n
  <2> QED BY <1>0, <1>1, <1>3, InductionUpTo
<1> QED BY <1>4

(* Appending an amount adds it to the sum. *)
LEMMA TotalAppend ==
    ASSUME NEW a \in Seq(Int), NEW x \in Int
    PROVE  TotalOf(a) \in Int /\ TotalOf(Append(a, x)) = TotalOf(a) + x
<1> DEFINE b == Append(a, x)
           n == Len(a)
<1>0. /\ b \in Seq(Int) /\ Len(b) = n + 1 /\ n \in Nat /\ Len(a) <= Len(b)
      /\ b[n + 1] = x /\ \A i \in 1 .. Len(a) : b[i] = a[i]
  OBVIOUS
<1>1. PICK f : IsPartial(f, a) /\ TotalOf(a) = f[Len(a)]
  BY TotalSums
<1> HIDE DEF b
<1>2. PICK g : IsPartial(g, b) /\ TotalOf(b) = g[Len(b)]
  BY <1>0, TotalSums
<1>3. \A k \in 0 .. Len(a) : g[k] = f[k]
  BY <1>0, <1>1, <1>2, PartialOfPrefix, SMTT(30)
<1>4. g[n] = f[n]
  BY <1>0, <1>3
<1>5. n + 1 \in 1 .. Len(b) /\ (n + 1) - 1 = n
  BY <1>0
<1>6. g[n + 1] = g[n] + x
  BY <1>0, <1>2, <1>5 DEF IsPartial
<1>7. f[n] \in Int
  BY <1>0, <1>1, SMTT(30) DEF IsPartial
<1> QED BY <1>0, <1>1, <1>2, <1>4, <1>6, <1>7 DEF b

(* Zeros at the end do not count. *)
LEMMA TotalPad ==
    ASSUME NEW a \in Seq(Int), NEW b \in Seq(Int), Len(a) <= Len(b),
           \A i \in 1 .. Len(a) : b[i] = a[i],
           \A i \in (Len(a) + 1) .. Len(b) : b[i] = 0
    PROVE  TotalOf(b) = TotalOf(a)
<1> DEFINE m == Len(a)
           n == Len(b)
<1>0. m \in Int /\ n \in Int /\ 0 <= m /\ m <= n
  OBVIOUS
<1>1. PICK f : IsPartial(f, a) /\ TotalOf(a) = f[Len(a)]
  BY TotalSums
<1>2. PICK g : IsPartial(g, b) /\ TotalOf(b) = g[Len(b)]
  BY TotalSums
<1>3. \A k \in 0 .. Len(a) : g[k] = f[k]
  BY <1>1, <1>2, PartialOfPrefix
<1> DEFINE T == {k \in m .. n : g[k] = g[m]}
<1>4. m \in T
  BY <1>0
<1>5. ASSUME NEW k \in m .. n, k # m, k - 1 \in T PROVE k \in T
  <2>1. k \in 1 .. Len(b) /\ k \in (Len(a) + 1) .. Len(b) /\ k - 1 \in 0 .. Len(b)
    BY <1>0, <1>5
  <2>2. g[k] = g[k - 1] + b[k] /\ b[k] = 0 /\ g[k - 1] \in Int
    BY <1>2, <2>1 DEF IsPartial
  <2>3. g[k] = g[m]
    BY <1>5, <2>2
  <2> QED BY <2>3
<1>6. \A k \in m .. n : k # m /\ k - 1 \in T => k \in T
  BY <1>5
<1>7. \A k \in m .. n : k \in T
  <2> HIDE DEF T, m, n
  <2> QED BY <1>0, <1>4, <1>6, InductionUpTo
<1>8. n \in m .. n /\ m \in 0 .. Len(a)
  BY <1>0
<1> QED BY <1>1, <1>2, <1>3, <1>7, <1>8

(* Changing one amount changes the sum as much. *)
LEMMA TotalChange ==
    ASSUME NEW a \in Seq(Int), NEW b \in Seq(Int), Len(a) = Len(b),
           NEW j \in 1 .. Len(a), NEW x \in Int, b[j] = a[j] + x,
           \A i \in 1 .. Len(a) : i # j => b[i] = a[i]
    PROVE  TotalOf(a) \in Int /\ TotalOf(b) = TotalOf(a) + x
<1> DEFINE n == Len(a)
           c == [i \in 1 .. n |-> IF i = j THEN x ELSE 0]
           p == [i \in 1 .. j |-> IF i = j THEN x ELSE 0]
           z == [i \in 1 .. (j - 1) |-> 0]
<1>0. n \in Nat /\ j \in Nat /\ 1 <= j /\ j <= n
  OBVIOUS
<1>1. c \in Seq(Int) /\ Len(c) = n /\ (\A i \in 1 .. n : c[i] = IF i = j THEN x ELSE 0)
  OBVIOUS
<1>2. p \in Seq(Int) /\ Len(p) = j /\ (\A i \in 1 .. j : p[i] = IF i = j THEN x ELSE 0)
  OBVIOUS
<1>3. z \in Seq(Int) /\ Len(z) = j - 1 /\ (\A i \in 1 .. (j - 1) : z[i] = 0)
  BY <1>0
<1> HIDE DEF c, p, z
<1>4. TotalOf(b) = TotalOf(a) + TotalOf(c) /\ TotalOf(a) \in Int
  <2>1. \A i \in 1 .. Len(b) : b[i] = a[i] + c[i]
    <3> TAKE i \in 1 .. Len(b)
    <3>1. a[i] \in Int /\ i \in 1 .. Len(a)
      OBVIOUS
    <3>2. CASE i = j
      <4>1. c[i] = x
        BY <1>1, <3>1, <3>2
      <4> QED BY <3>2, <4>1
    <3>3. CASE i # j
      <4>1. c[i] = 0 /\ b[i] = a[i]
        BY <1>1, <3>1, <3>3
      <4> QED BY <3>1, <4>1
    <3> QED BY <3>2, <3>3
  <2> QED BY <1>1, <2>1, TotalAdds
<1>5. TotalOf(c) = TotalOf(p)
  <2>1. \A i \in 1 .. Len(p) : c[i] = p[i]
    <3> TAKE i \in 1 .. Len(p)
    <3>1. i \in 1 .. j
      BY <1>2
    <3>2. i \in 1 .. n
      BY <1>0, <3>1
    <3> QED BY <1>1, <1>2, <3>1, <3>2
  <2>2. \A i \in (Len(p) + 1) .. Len(c) : c[i] = 0
    BY <1>0, <1>1, <1>2, SMTT(30)
  <2>3. Len(p) <= Len(c)
    BY <1>0, <1>1, <1>2
  <2> QED BY <1>1, <1>2, <2>1, <2>2, <2>3, TotalPad
<1>6. TotalOf(p) = TotalOf(z) + x
  <2>1. p = Append(z, x)
    <3>1. Len(Append(z, x)) = j /\ Append(z, x) \in Seq(Int)
      BY <1>0, <1>3
    <3>2. \A i \in 1 .. j : p[i] = Append(z, x)[i]
      BY <1>0, <1>2, <1>3, SMTT(30)
    <3> QED BY <1>2, <3>1, <3>2, SMTT(30)
  <2> QED BY <1>3, <2>1, TotalAppend
<1>7. TotalOf(z) = 0
  <2>1. << >> \in Seq(Int) /\ Len(<< >>) = 0
    OBVIOUS
  <2>2. TotalOf(z) = TotalOf(<< >>)
    <3> DEFINE e == << >>
    <3>1. /\ e \in Seq(Int) /\ Len(e) = 0 /\ Len(e) <= Len(z)
          /\ \A i \in 1 .. Len(e) : z[i] = e[i]
          /\ \A i \in (Len(e) + 1) .. Len(z) : z[i] = 0
      BY <1>0, <1>3
    <3> HIDE DEF e
    <3>2. TotalOf(z) = TotalOf(e)
      BY <1>3, <3>1, TotalPad
    <3> QED BY <3>2 DEF e
  <2>3. PICK f : IsPartial(f, << >>) /\ TotalOf(<< >>) = f[Len(<< >>)]
    BY <2>1, TotalSums
  <2> QED BY <2>1, <2>2, <2>3 DEF IsPartial
<1> QED BY <1>4, <1>5, <1>6, <1>7

-----------------------------------------------------------------------------
(* The B3 chain.                                                           *)

(* What a later state inherits it passes on. *)
LEMMA InheritsTransitive ==
    ASSUME NEW s \in B3State, NEW t \in B3State, NEW u \in B3State,
           Inherits(s, t), Inherits(t, u)
    PROVE  Inherits(s, u)
<1>1. /\ s.epoch \in Nat /\ t.epoch \in Nat /\ u.epoch \in Nat
      /\ s.tree \in Seq(Leaf) /\ t.tree \in Seq(Leaf) /\ u.tree \in Seq(Leaf)
  BY DEF B3State, Tree
<1>2. s.epoch <= t.epoch /\ t.epoch <= u.epoch
  BY DEF Inherits
<1>3. u.epoch = s.epoch => u.current = s.current /\ u.next = s.next
  <2>1. u.epoch = s.epoch => t.epoch = s.epoch /\ u.epoch = t.epoch
    BY <1>1, <1>2
  <2> QED BY <2>1 DEF Inherits
<1>4. u.epoch = s.epoch + 1 => u.current = s.next
  <2> SUFFICES ASSUME u.epoch = s.epoch + 1 PROVE u.current = s.next
    OBVIOUS
  <2>1. \/ t.epoch = s.epoch /\ u.epoch = t.epoch + 1
        \/ t.epoch = s.epoch + 1 /\ u.epoch = t.epoch
    BY <1>1, <1>2
  <2> QED BY <2>1 DEF Inherits
<1>5. Len(s.tree) <= Len(u.tree)
      /\ \A i \in 1 .. Len(s.tree) : i \in 1 .. Len(t.tree)
  BY <1>1 DEF Inherits
<1>6. \A i \in 1 .. Len(s.tree) : u.tree[i] = s.tree[i]
  BY <1>5 DEF Inherits
<1> QED BY <1>1, <1>2, <1>3, <1>4, <1>5, <1>6 DEF Inherits

(* A state inherits from itself. *)
LEMMA InheritsReflexive ==
    ASSUME NEW s \in B3State
    PROVE  Inherits(s, s)
<1>1. s.epoch \in Nat /\ s.tree \in Seq(Leaf)
  BY DEF B3State, Tree
<1> QED BY <1>1 DEF Inherits

(* The projection rotates to the next set, once handed over, or keeps both. *)
LEMMA ProjectedState ==
    ASSUME NEW s \in B3State, NEW h \in Nat, NEW q \in ValidatorSets
    PROVE  LET p == Projected(s, h, q)
           IN  /\ p \in B3State /\ p.minted = s.minted /\ p.tree = s.tree
               /\ p.finalized = s.finalized
               /\ \/ /\ p.epoch = s.epoch /\ p.handover = s.handover
                     /\ p.current = s.current /\ p.next = s.next
                  \/ /\ p.epoch = s.epoch + 1 /\ p.current = s.next
                     /\ s.handover /\ ~p.handover
<1> DEFINE rotates == s.handover /\ h >= s.start + EpochBlocks
           n == SetHeader(s.epoch + 2, q)
           t == [s EXCEPT !.epoch = @ + 1, !.start = h, !.handover = FALSE,
                          !.current = s.next, !.next = n]
           r == IF rotates THEN t ELSE s
           late == h - r.start >= EpochBlocks + MaxEpochExtension
           p == [r EXCEPT !.broken = @ \/ (~r.handover /\ late)]
<1>1. n \in Header
  BY DEF SetHeader, Header, B3State
<1>2. /\ t \in B3State /\ t.minted = s.minted /\ t.tree = s.tree
      /\ t.finalized = s.finalized
      /\ t.epoch = s.epoch + 1 /\ t.current = s.next /\ ~t.handover
  <2> HIDE DEF n
  <2>1. /\ s.epoch + 1 \in Nat /\ s.next \in Header /\ FALSE \in BOOLEAN
    BY DEF B3State
  <2>2. /\ t.minted = s.minted /\ t.tree = s.tree /\ t.finalized = s.finalized
        /\ t.epoch = s.epoch + 1 /\ t.current = s.next /\ t.handover = FALSE
    BY DEF B3State
  <2>3. t \in B3State
    <3> DEFINE e == s.epoch + 1
               m == s.next
    <3> HIDE DEF e, m
    <3>1. e \in Nat /\ m \in Header
      BY <2>1 DEF e, m
    <3>2. [s EXCEPT !.epoch = e, !.start = h, !.handover = FALSE,
                    !.current = m, !.next = n] \in B3State
      BY <1>1, <3>1 DEF B3State
    <3> QED BY <3>2 DEF e, m
  <2> QED BY <2>2, <2>3
<1> HIDE DEF t
<1>3. /\ r \in B3State /\ r.minted = s.minted /\ r.tree = s.tree
      /\ r.finalized = s.finalized
      /\ \/ /\ r.epoch = s.epoch /\ r.handover = s.handover
            /\ r.current = s.current /\ r.next = s.next
         \/ /\ r.epoch = s.epoch + 1 /\ r.current = s.next
            /\ s.handover /\ ~r.handover
  BY <1>2
<1>4. Projected(s, h, q) = p
  BY DEF Projected, t
<1> HIDE DEF r, late
<1>5. /\ p \in B3State /\ p.minted = r.minted /\ p.tree = r.tree
      /\ p.finalized = r.finalized /\ p.handover = r.handover
      /\ p.epoch = r.epoch /\ p.current = r.current /\ p.next = r.next
  <2>1. (r.broken \/ (~r.handover /\ late)) \in BOOLEAN
    OBVIOUS
  <2> QED BY <1>3, <2>1 DEF B3State
<1> HIDE DEF p
<1> QED BY <1>3, <1>4, <1>5

(* A block on top keeps the shape of the chain. *)
LEMMA ChainGrows ==
    ASSUME NEW b \in Seq(B3State), Len(b) >= 1, ChainInv(b), NEW t \in B3State,
           Inherits(b[Len(b)], t),
           ~BothQualified(t) => t.tree = b[Len(b)].tree,
           Len(b) + 1 <= BridgeActivation => t.tree = b[Len(b)].tree
    PROVE  ChainInv(Append(b, t))
<1> DEFINE c == Append(b, t)
           n == Len(b)
<1>0. /\ n \in Nat /\ n >= 1 /\ c \in Seq(B3State) /\ Len(c) = n + 1
      /\ c[n + 1] = t /\ \A i \in 1 .. n : c[i] = b[i] /\ b[i] \in B3State
  OBVIOUS
<1> HIDE DEF c, n
<1>1. n = Len(b) /\ n \in 1 .. n /\ 1 \in 1 .. n
  BY <1>0 DEF n
<1>2. \A h \in 1 .. Len(c) : h \in 1 .. n \/ h = n + 1
  BY <1>0
<1>3. c[1].epoch = 0
  BY <1>0, <1>1 DEF ChainInv
<1>4. ASSUME NEW g \in 1 .. Len(c), NEW h \in 1 .. Len(c), g <= h
      PROVE  Inherits(c[g], c[h])
  <2>1. CASE h \in 1 .. n
    <3>1. g \in 1 .. n
      BY <1>0, <1>4, <2>1
    <3>2. Inherits(b[g], b[h])
      BY <1>1, <1>4, <2>1, <3>1 DEF ChainInv
    <3> QED BY <1>0, <2>1, <3>1, <3>2
  <2>2. CASE h = n + 1 /\ g \in 1 .. n
    <3>1. g <= n
      BY <1>0, <2>2
    <3>2. Inherits(b[g], b[n])
      BY <1>1, <2>2, <3>1 DEF ChainInv
    <3>3. b[g] \in B3State /\ b[n] \in B3State /\ Inherits(b[n], t)
      BY <1>0, <1>1, <2>2
    <3>4. Inherits(b[g], t)
      BY <3>2, <3>3, InheritsTransitive
    <3> QED BY <1>0, <2>2, <3>4
  <2>3. CASE h = n + 1 /\ g = n + 1
    BY <1>0, <2>3, InheritsReflexive
  <2> QED BY <1>2, <2>1, <2>2, <2>3
<1>5. ASSUME NEW g \in 1 .. Len(c), NEW h \in 1 .. Len(c), g <= h, BurnFree(c, g, h)
      PROVE  c[h].tree = c[g].tree
  <2>1. CASE h \in 1 .. n
    <3>1. g \in 1 .. n
      BY <1>0, <1>5, <2>1
    <3>2. \A k \in (g + 1) .. h : k \in 1 .. n
      BY <1>0, <2>1, <3>1
    <3>3. BurnFree(b, g, h)
      BY <1>0, <1>5, <3>2 DEF BurnFree
    <3>4. b[h].tree = b[g].tree
      BY <1>1, <1>5, <2>1, <3>1, <3>3 DEF ChainInv
    <3> QED BY <1>0, <2>1, <3>1, <3>4
  <2>2. CASE h = n + 1 /\ g \in 1 .. n
    <3>1. g <= n /\ h \in (g + 1) .. h
          /\ \A k \in (g + 1) .. n : k \in 1 .. n /\ k \in (g + 1) .. h
      BY <1>0, <2>2
    <3>2. BurnFree(b, g, n)
      BY <1>0, <1>5, <3>1 DEF BurnFree
    <3>3. b[n].tree = b[g].tree
      BY <1>1, <2>2, <3>1, <3>2 DEF ChainInv
    <3>4. ~BothQualified(t)
      BY <1>0, <1>5, <2>2, <3>1 DEF BurnFree
    <3>5. t.tree = b[n].tree
      BY <1>1, <3>4
    <3> QED BY <1>0, <2>2, <3>3, <3>5
  <2>3. CASE h = n + 1 /\ g = n + 1
    BY <2>3
  <2> QED BY <1>2, <2>1, <2>2, <2>3
<1>6. ASSUME NEW h \in 1 .. Len(c), h <= BridgeActivation PROVE c[h].tree = << >>
  <2>1. CASE h \in 1 .. n
    BY <1>0, <1>1, <1>6, <2>1 DEF ChainInv
  <2>2. CASE h = n + 1
    <3>1. n <= BridgeActivation
      BY <1>0, <1>6, <2>2, CustodyAssumption
    <3>2. b[n].tree = << >>
      BY <1>1, <3>1 DEF ChainInv
    <3>3. t.tree = b[n].tree
      BY <1>1, <1>6, <2>2
    <3> QED BY <1>0, <2>2, <3>2, <3>3
  <2> QED BY <1>2, <2>1, <2>2
<1>7. ChainInv(c)
  BY <1>3, <1>4, <1>5, <1>6 DEF ChainInv
<1> QED BY <1>7 DEF c

(* So does every prefix of the chain. *)
LEMMA ChainShrinks ==
    ASSUME NEW b \in Seq(B3State), ChainInv(b), NEW n \in 1 .. Len(b)
    PROVE  /\ SubSeq(b, 1, n) \in Seq(B3State) /\ Len(SubSeq(b, 1, n)) = n
           /\ \A h \in 1 .. n : SubSeq(b, 1, n)[h] = b[h]
           /\ ChainInv(SubSeq(b, 1, n))
<1> DEFINE c == SubSeq(b, 1, n)
<1>0. /\ c \in Seq(B3State) /\ Len(c) = n /\ n \in Nat /\ n >= 1
      /\ \A h \in 1 .. n : c[h] = b[h] /\ h \in 1 .. Len(b)
  OBVIOUS
<1> HIDE DEF c
<1>1. c[1].epoch = 0
  BY <1>0 DEF ChainInv
<1>2. ASSUME NEW g \in 1 .. Len(c), NEW h \in 1 .. Len(c), g <= h
      PROVE  Inherits(c[g], c[h])
  BY <1>0, <1>2 DEF ChainInv
<1>3. ASSUME NEW g \in 1 .. Len(c), NEW h \in 1 .. Len(c), g <= h, BurnFree(c, g, h)
      PROVE  c[h].tree = c[g].tree
  <2>1. \A k \in (g + 1) .. h : k \in 1 .. n
    BY <1>0, <1>3
  <2>2. BurnFree(b, g, h)
    BY <1>0, <1>3, <2>1 DEF BurnFree
  <2>3. b[h].tree = b[g].tree
    BY <1>0, <1>3, <2>2 DEF ChainInv
  <2> QED BY <1>0, <1>3, <2>3
<1>4. ASSUME NEW h \in 1 .. Len(c), h <= BridgeActivation PROVE c[h].tree = << >>
  BY <1>0, <1>4 DEF ChainInv
<1>5. ChainInv(c)
  BY <1>1, <1>2, <1>3, <1>4 DEF ChainInv
<1> QED BY <1>0, <1>5 DEF c

(* A payment for each leaf of a tree. *)
LEMMA PayingIs ==
    ASSUME NEW u \in Seq(Leaf), NEW ids
    PROVE  /\ Paying(u, ids) \in Seq(Int) /\ Len(Paying(u, ids)) = Len(u)
           /\ \A i \in 1 .. Len(u) :
                 Paying(u, ids)[i] = IF i \in ids THEN u[i].amount ELSE 0
<1> DEFINE x == Paying(u, ids)
<1>1. x = [i \in 1 .. Len(u) |-> IF i \in ids THEN u[i].amount ELSE 0]
  BY DEF Paying
<1>2. \A i \in 1 .. Len(u) : (IF i \in ids THEN u[i].amount ELSE 0) \in Int
  <2> TAKE i \in 1 .. Len(u)
  <2>1. u[i] \in Leaf
    OBVIOUS
  <2>2. u[i].amount \in Int
    BY <2>1 DEF Leaf
  <2> QED BY <2>2
<1> HIDE DEF x
<1>3. x \in Seq(Int) /\ Len(x) = Len(u)
      /\ \A i \in 1 .. Len(u) : x[i] = IF i \in ids THEN u[i].amount ELSE 0
  BY <1>1, <1>2
<1> QED BY <1>3 DEF x

(* The payments by a tree depend on the part of it that was paid. *)
LEMMA PayingGrows ==
    ASSUME NEW s \in Seq(Leaf), NEW t \in Seq(Leaf), NEW ids,
           Len(s) <= Len(t), \A i \in 1 .. Len(s) : t[i] = s[i],
           ids \subseteq DOMAIN s
    PROVE  /\ Paying(s, ids) \in Seq(Int) /\ Paying(t, ids) \in Seq(Int)
           /\ TotalOf(Paying(t, ids)) = TotalOf(Paying(s, ids))
<1> DEFINE a == Paying(s, ids)
           b == Paying(t, ids)
<1>2. /\ a \in Seq(Int) /\ Len(a) = Len(s)
      /\ \A i \in 1 .. Len(s) : a[i] = IF i \in ids THEN s[i].amount ELSE 0
  BY PayingIs
<1>3. /\ b \in Seq(Int) /\ Len(b) = Len(t)
      /\ \A i \in 1 .. Len(t) : b[i] = IF i \in ids THEN t[i].amount ELSE 0
  BY PayingIs
<1> HIDE DEF a, b
<1>4. Len(s) \in Nat /\ Len(t) \in Nat /\ ids \subseteq 1 .. Len(s)
  OBVIOUS
<1>5. \A i \in 1 .. Len(a) : b[i] = a[i]
  <2> TAKE i \in 1 .. Len(a)
  <2>1. i \in 1 .. Len(s) /\ i \in 1 .. Len(t)
    BY <1>2, <1>4
  <2> QED BY <1>2, <1>3, <2>1
<1>6. \A i \in (Len(a) + 1) .. Len(b) : b[i] = 0
  <2> TAKE i \in (Len(a) + 1) .. Len(b)
  <2>1. i \in 1 .. Len(t) /\ i \notin ids
    BY <1>2, <1>3, <1>4
  <2> QED BY <1>3, <2>1
<1>7. Len(a) <= Len(b)
  BY <1>2, <1>3
<1>8. TotalOf(b) = TotalOf(a)
  BY <1>2, <1>3, <1>5, <1>6, <1>7, TotalPad
<1> QED BY <1>2, <1>3, <1>8 DEF a, b

-----------------------------------------------------------------------------
(* Branches and their certificates.                                        *)

(* IsPrefix, state by state. *)
LEMMA PrefixIs ==
    ASSUME NEW a \in Seq(B3State), NEW b \in Seq(B3State)
    PROVE  IsPrefix(a, b) <=> Below(a, b, Len(b))
<1> DEFINE x == SubSeq(a, 1, Len(a))
           y == SubSeq(b, 1, Len(a))
<1>1. Len(a) \in Nat /\ Len(b) \in Nat
  OBVIOUS
<1>2. x = [i \in 1 .. Len(a) |-> a[i]]
  OBVIOUS
<1>3. ASSUME Len(a) <= Len(b) PROVE y = [i \in 1 .. Len(a) |-> b[i]]
  BY <1>1, <1>3
<1> HIDE DEF x, y
<1>4. ASSUME IsPrefix(a, b) PROVE Below(a, b, Len(b))
  <2>1. Len(a) <= Len(b) /\ x = y
    BY <1>4 DEF IsPrefix, x, y
  <2>2. y = [i \in 1 .. Len(a) |-> b[i]]
    BY <1>3, <2>1
  <2>3. \A i \in 1 .. Len(a) : a[i] = b[i]
    <3> TAKE i \in 1 .. Len(a)
    <3>1. x[i] = a[i]
      BY <1>2
    <3>2. y[i] = b[i]
      BY <2>2
    <3> QED BY <2>1, <3>1, <3>2
  <2> QED BY <2>1, <2>3 DEF Below
<1>5. ASSUME Below(a, b, Len(b)) PROVE IsPrefix(a, b)
  <2>1. Len(a) <= Len(b) /\ \A i \in 1 .. Len(a) : a[i] = b[i]
    BY <1>5 DEF Below
  <2>2. x = y
    BY <1>2, <1>3, <2>1
  <2> QED BY <2>1, <2>2 DEF IsPrefix, x, y
<1> QED BY <1>4, <1>5

(* Compatible, for the blocks of certificates. *)
LEMMA CompatibleIs ==
    ASSUME NEW a \in Seq(B3State), NEW b \in Seq(B3State)
    PROVE  Compatible(a, b) <=> Below(a, b, Len(b)) \/ Below(b, a, Len(a))
BY PrefixIs DEF Compatible

(* Two states of a branch. *)
LEMMA BranchStates ==
    ASSUME NEW C, NEW b, Branch(C, b), NEW h \in 1 .. Len(b), NEW g \in 1 .. h
    PROVE  /\ g \in 1 .. Len(b) /\ g \in Nat /\ h \in Nat /\ Len(b) \in Nat
           /\ b[g] \in B3State /\ b[h] \in B3State /\ Inherits(b[g], b[h])
           /\ b[g].epoch \in Nat /\ b[h].epoch \in Nat
           /\ b[g].tree \in Seq(Leaf) /\ b[h].tree \in Seq(Leaf)
<1>1. b \in Seq(B3State) /\ ChainInv(b)
  BY DEF Branch
<1>2. /\ g \in 1 .. Len(b) /\ g \in Nat /\ h \in Nat /\ Len(b) \in Nat /\ g <= h
  BY <1>1
<1>3. b[g] \in B3State /\ b[h] \in B3State
  BY <1>1, <1>2
<1>4. Inherits(b[g], b[h])
  BY <1>1, <1>2 DEF ChainInv
<1> QED BY <1>2, <1>3, <1>4 DEF B3State, Tree

(* A certificate and the state it speaks of. *)
LEMMA CertState ==
    ASSUME CertInv, NEW c \in certs
    PROVE  LET n == Len(c.block)
           IN  /\ Branch(certs, c.block) /\ c.block[1] = b3[1]
               /\ n \in Nat /\ n \in 1 .. n /\ 1 \in 1 .. n /\ n = c.height + 1
               /\ c.block \in Seq(B3State) /\ c.block[n] \in B3State
               /\ c.epoch = c.block[n].epoch /\ c.epoch \in Nat
               /\ c.signers = c.block[n].current /\ c.successor = c.block[n].next
               /\ c.root = IF c.height < BridgeActivation THEN {} ELSE {c.block[n].tree}
<1> DEFINE n == Len(c.block)
<1>1. CertOK(certs, b3[1], c)
  BY DEF CertInv
<1>2. /\ Branch(certs, c.block) /\ c.block[1] = b3[1] /\ n = c.height + 1
      /\ CertifiesState(c, c.block[n])
  BY <1>1 DEF CertOK
<1>3. c.block \in Seq(B3State) /\ n \in Nat /\ n \in 1 .. n /\ 1 \in 1 .. n
  BY <1>2 DEF Branch
<1>4. c.block[n] \in B3State
  BY <1>3
<1>5. c.block[n].epoch \in Nat
  BY <1>4 DEF B3State
<1> QED BY <1>2, <1>3, <1>4, <1>5 DEF CertifiesState

(* The burns under a certificate's root are those of its state. *)
LEMMA CertLeaves ==
    ASSUME CertInv, NEW c \in certs, c.height \in Nat
    PROVE  Leaves(c.root) = c.block[Len(c.block)].tree
<1> DEFINE n == Len(c.block)
<1>1. /\ n \in 1 .. n /\ n = c.height + 1 /\ Branch(certs, c.block)
      /\ c.root = IF c.height < BridgeActivation THEN {} ELSE {c.block[n].tree}
  BY CertState
<1> HIDE DEF n
<1>2. CASE c.height < BridgeActivation
  <2>1. n <= BridgeActivation
    BY <1>1, <1>2, CustodyAssumption
  <2>2. c.block[n].tree = << >>
    BY <1>1, <2>1 DEF Branch, ChainInv, n
  <2> QED BY <1>1, <1>2, <2>2 DEF Leaves, n
<1>3. CASE ~(c.height < BridgeActivation)
  <2>1. c.root = {c.block[n].tree} /\ c.root # {}
    BY <1>1, <1>3
  <2> QED BY <2>1 DEF Leaves, n
<1> QED BY <1>2, <1>3

(* The certificates of an epoch are on one branch and hand over to one set. *)
LEMMA SameSuccessor ==
    ASSUME CertInv, NEW c \in certs, NEW d \in certs, c.epoch = d.epoch
    PROVE  /\ \/ Below(c.block, d.block, Len(d.block))
              \/ Below(d.block, c.block, Len(c.block))
           /\ c.signers = d.signers /\ c.successor = d.successor
<1>1. c.signers = d.signers
  BY DEF CertInv, SameSets
<1>2. \/ Below(c.block, d.block, Len(d.block))
      \/ Below(d.block, c.block, Len(c.block))
  BY <1>1 DEF CertInv, OneBranchPerSet
<1>3. ASSUME NEW x \in certs, NEW y \in certs, x.epoch = y.epoch,
             Below(x.block, y.block, Len(y.block))
      PROVE  x.successor = y.successor
  <2> DEFINE n == Len(x.block)
             m == Len(y.block)
  <2>1. /\ n \in Nat /\ n \in 1 .. n /\ x.epoch = x.block[n].epoch
        /\ x.successor = x.block[n].next
    BY CertState
  <2>2. /\ m \in Nat /\ m \in 1 .. m /\ y.epoch = y.block[m].epoch
        /\ y.successor = y.block[m].next /\ Branch(certs, y.block)
    BY CertState
  <2>3. n <= m /\ x.block[n] = y.block[n]
    BY <1>3, <2>1 DEF Below
  <2> HIDE DEF n, m
  <2>4. n \in 1 .. m /\ m \in 1 .. Len(y.block)
    BY <2>1, <2>2, <2>3 DEF m
  <2>5. Inherits(y.block[n], y.block[m])
    BY <2>2, <2>4, BranchStates
  <2>6. y.block[m].epoch = y.block[n].epoch
    BY <1>3, <2>1, <2>2, <2>3
  <2>7. y.block[m].next = y.block[n].next
    BY <2>5, <2>6 DEF Inherits
  <2> QED BY <2>1, <2>2, <2>3, <2>7
<1> QED BY <1>1, <1>2, <1>3

(* Past the first epoch, the set in force was handed over by a certificate of
   the epoch before, on the same branch. *)
LEMMA HandedOver ==
    ASSUME CertInv, NEW b, Branch(certs, b), NEW k \in 1 .. Len(b), b[k].epoch # 0
    PROVE  \E c \in certs : /\ c.epoch + 1 = b[k].epoch /\ Below(c.block, b, k)
                            /\ b[k].current = c.successor
<1>1. k \in 1 .. k /\ b[k].epoch \in Nat /\ k \in Nat
  <2>1. k \in 1 .. k
    BY DEF Branch
  <2> QED BY <2>1, BranchStates
<1> DEFINE e == b[k].epoch - 1
<1>2. e \in Nat /\ e + 1 = b[k].epoch
  BY <1>1
<1> HIDE DEF e
<1>3. HandedAt(certs, b, k)
  BY DEF Branch
<1>4. PICK c \in certs : c.epoch = e /\ Below(c.block, b, k)
  BY <1>2, <1>3 DEF HandedAt
<1> DEFINE n == Len(c.block)
<1>5. /\ n \in Nat /\ n \in 1 .. n /\ c.epoch = c.block[n].epoch
      /\ c.successor = c.block[n].next
  BY CertState
<1>6. n <= k /\ c.block[n] = b[n]
  BY <1>4, <1>5 DEF Below
<1> HIDE DEF n
<1>7. n \in 1 .. k
  BY <1>1, <1>5, <1>6
<1>8. Inherits(b[n], b[k])
  BY <1>7, BranchStates
<1>9. b[k].epoch = b[n].epoch + 1
  BY <1>2, <1>4, <1>5, <1>6
<1>10. b[k].current = c.successor
  BY <1>5, <1>6, <1>8, <1>9 DEF Inherits
<1> QED BY <1>2, <1>4, <1>10

(* An epoch has one set, whatever the branch. *)
LEMMA SameCurrent ==
    ASSUME CertInv, NEW b, Branch(certs, b), b[1] = b3[1],
           NEW d, Branch(certs, d), d[1] = b3[1],
           NEW i \in 1 .. Len(b), NEW j \in 1 .. Len(d), b[i].epoch = d[j].epoch
    PROVE  b[i].current = d[j].current
<1>1. CASE b[i].epoch = 0
  <2>1. ASSUME NEW x, Branch(certs, x), x[1] = b3[1], NEW k \in 1 .. Len(x),
               x[k].epoch = 0
        PROVE  x[k].current = b3[1].current
    <3>1. 1 \in 1 .. k
      BY <2>1 DEF Branch
    <3>2. Inherits(x[1], x[k])
      BY <2>1, <3>1, BranchStates
    <3>3. x[1].epoch = 0
      BY <2>1 DEF Branch, ChainInv
    <3> QED BY <2>1, <3>2, <3>3 DEF Inherits
  <2>2. b[i].current = b3[1].current
    BY <1>1, <2>1
  <2>3. d[j].current = b3[1].current
    BY <1>1, <2>1
  <2> QED BY <2>2, <2>3
<1>2. CASE b[i].epoch # 0
  <2>1. PICK x \in certs : x.epoch + 1 = b[i].epoch /\ b[i].current = x.successor
    BY <1>2, HandedOver
  <2>2. d[j].epoch # 0
    BY <1>2
  <2>3. PICK y \in certs : y.epoch + 1 = d[j].epoch /\ d[j].current = y.successor
    BY <2>2, HandedOver
  <2>4. x.epoch \in Nat
    BY CertState
  <2>5. y.epoch \in Nat
    BY CertState
  <2>6. x.epoch = y.epoch
    BY <2>1, <2>3, <2>4, <2>5
  <2>7. x.successor = y.successor
    BY <2>6, SameSuccessor
  <2> QED BY <2>1, <2>3, <2>7
<1> QED BY <1>1, <1>2

(* A prefix of a branch is a branch. *)
LEMMA BranchShrinks ==
    ASSUME NEW C, NEW b, Branch(C, b), NEW n \in 1 .. Len(b)
    PROVE  /\ Branch(C, SubSeq(b, 1, n)) /\ Len(SubSeq(b, 1, n)) = n
           /\ SubSeq(b, 1, n)[n] = b[n] /\ SubSeq(b, 1, n)[1] = b[1]
<1> DEFINE x == SubSeq(b, 1, n)
<1>1. b \in Seq(B3State) /\ ChainInv(b) /\ n \in Nat /\ n >= 1
  BY DEF Branch
<1>2. /\ x \in Seq(B3State) /\ Len(x) = n /\ ChainInv(x)
      /\ \A h \in 1 .. n : x[h] = b[h]
  BY <1>1, ChainShrinks
<1> HIDE DEF x
<1>3. ASSUME NEW k \in 1 .. Len(x) PROVE HandedAt(C, x, k)
  <2>1. k \in 1 .. n /\ k \in 1 .. Len(b) /\ x[k] = b[k]
    BY <1>1, <1>2
  <2>2. HandedAt(C, b, k)
    BY <2>1 DEF Branch
  <2> SUFFICES ASSUME NEW e \in Nat,
                      e + 1 = b[k].epoch \/ (e = b[k].epoch /\ b[k].handover)
               PROVE  \E c \in C : c.epoch = e /\ Below(c.block, x, k)
    BY <2>1 DEF HandedAt
  <2>3. PICK c \in C : c.epoch = e /\ Below(c.block, b, k)
    BY <2>2 DEF HandedAt
  <2>4. Len(c.block) <= k /\ \A i \in 1 .. Len(c.block) : c.block[i] = b[i]
    BY <2>3 DEF Below
  <2>5. \A i \in 1 .. Len(c.block) : c.block[i] = x[i]
    <3> TAKE i \in 1 .. Len(c.block)
    <3>1. c.block[i] = b[i]
      BY <2>4
    <3>2. i \in Int /\ 1 <= i /\ i <= Len(c.block)
      OBVIOUS
    <3>3. i \in 1 .. n
      BY <1>1, <2>1, <2>4, <3>2
    <3> QED BY <1>2, <3>1, <3>3
  <2> QED BY <2>3, <2>4, <2>5 DEF Below
<1>4. Branch(C, x)
  BY <1>1, <1>2, <1>3 DEF Branch
<1>5. 1 \in 1 .. n /\ n \in 1 .. n
  BY <1>1
<1> QED BY <1>2, <1>4, <1>5 DEF x

(* More certificates leave a branch a branch. *)
LEMMA BranchKept ==
    ASSUME NEW C, NEW D, C \subseteq D, NEW b, Branch(C, b)
    PROVE  Branch(D, b)
<1>1. ASSUME NEW k \in 1 .. Len(b) PROVE HandedAt(D, b, k)
  <2>1. HandedAt(C, b, k)
    BY DEF Branch
  <2> QED BY <2>1 DEF HandedAt
<1> QED BY <1>1 DEF Branch

-----------------------------------------------------------------------------
(* The steps of B3.                                                        *)

(* A step of the chain to another branch from M. *)
LEMMA BranchStep ==
    ASSUME CustodyInv, UNCHANGED <<certs, accepted, verifier, vault, now>>,
           Branch(certs, b3'), b3'[1] = b3[1]
    PROVE  CustodyInv'
<1>1. TypeInv'
  BY DEF CustodyInv, TypeInv, Branch
<1>2. CertInv'
  BY DEF CustodyInv, CertInv
<1>3. VerifierInv'
  BY DEF CustodyInv, VerifierInv
<1>4. AcceptedBurnsReleasable' /\ VaultInv'
  BY DEF CustodyInv, AcceptedBurnsReleasable, VaultInv, OneBranch
<1> QED BY <1>1, <1>2, <1>3, <1>4 DEF CustodyInv

(* Blocks may be replaced from anywhere on. *)
LEMMA ReorganiseKeeps ==
    ASSUME CustodyInv, NEW height \in Nat, Reorganise(height)
    PROVE  CustodyInv'
<1>1. /\ Branch(certs, b3) /\ b3 \in Seq(B3State) /\ Len(b3) \in Nat
      /\ height <= (Len(b3) - 1) - 1
      /\ b3' = SubSeq(b3, 1, height + 1)
      /\ UNCHANGED <<certs, accepted, verifier, vault, now>>
  BY DEF CustodyInv, TypeInv, CertInv, B3Height, Reorganise
<1>2. height + 1 \in 1 .. Len(b3)
  BY <1>1
<1>3. Branch(certs, b3') /\ b3'[1] = b3[1]
  BY <1>1, <1>2, BranchShrinks
<1> QED BY <1>1, <1>3, BranchStep

(* A block mints, burns under qualified sets only, rotates at most once and
   only once handed over. *)
LEMMA BlockKeeps ==
    ASSUME CustodyInv, NEW mints \in SUBSET DOMAIN vault.deposits,
           NEW burns \in {<< >>} \union {<< amount >> : amount \in Amounts},
           NEW carried \in SUBSET certs, NEW q \in ValidatorSets,
           B3Block(mints, burns, carried, q)
    PROVE  CustodyInv'
<1> DEFINE n == Len(b3)
           s == Last(b3)
           height == B3Height + 1
           p == Projected(s, height, q)
           m == [p EXCEPT !.minted = @ \union mints]
           new == [i \in DOMAIN burns |-> [amount |-> burns[i], height |-> height]]
           u == [m EXCEPT !.tree = @ \o new]
           signed == \E c \in carried : c.epoch = p.epoch
           Heights == IF carried = {} THEN {p.finalized} ELSE {c.height : c \in carried}
<1>1. /\ b3 \in Seq(B3State) /\ n \in Nat /\ n >= 1 /\ ChainInv(b3)
      /\ Branch(certs, b3) /\ CertInv /\ certs \subseteq Cert
      /\ height = n /\ s = b3[n] /\ s \in B3State
  BY SMTT(30) DEF CustodyInv, TypeInv, CertInv, Branch, B3Height, Last
<1>2. PICK f \in Heights :
         b3' = Append(b3, [u EXCEPT !.finalized = f, !.handover = @ \/ signed])
  BY DEF B3Block
<1> DEFINE t == [u EXCEPT !.finalized = f, !.handover = @ \/ signed]
<1>3. /\ b3' = Append(b3, t) /\ UNCHANGED <<certs, accepted, verifier, vault, now>>
      /\ burns # << >> => height >= WithdrawalStart /\ ValidatorSetsReady(p)
      /\ \A c \in carried : IsPrefix(c.block, b3)
  BY <1>2 DEF B3Block, MayCarry
<1>4. /\ p \in B3State /\ p.minted = s.minted /\ p.tree = s.tree
      /\ \/ /\ p.epoch = s.epoch /\ p.handover = s.handover
            /\ p.current = s.current /\ p.next = s.next
         \/ /\ p.epoch = s.epoch + 1 /\ p.current = s.next
            /\ s.handover /\ ~p.handover
  <2> HIDE DEF s, height
  <2> QED BY <1>1, ProjectedState
<1>5. f \in Nat
  BY <1>1, <1>4 DEF Cert, B3State
<1> HIDE DEF p, s, height
<1>6. mints \in SUBSET Nat
  BY DEF CustodyInv, TypeInv, VaultState
<1>7. /\ m \in B3State /\ m.tree = p.tree /\ m.epoch = p.epoch
      /\ m.current = p.current /\ m.next = p.next /\ m.handover = p.handover
  BY <1>4, <1>6 DEF B3State
<1>8. new \in Seq(Leaf) /\ (burns = << >> => new = << >>)
  <2>1. CASE burns = << >>
    <3>1. new = << >>
      BY <2>1
    <3> QED BY <3>1
  <2>2. CASE burns \in {<< amount >> : amount \in Amounts}
    <3>1. PICK amount \in Amounts : burns = << amount >>
      BY <2>2
    <3>2. amount \in Nat /\ height \in Nat
      BY <1>1, CustodyAssumption
    <3>3. DOMAIN burns = 1 .. 1 /\ burns[1] = amount /\ burns # << >>
      BY <3>1
    <3>4. new = [i \in 1 .. 1 |-> [amount |-> burns[i], height |-> height]]
      BY <3>3
    <3>5. \A i \in 1 .. 1 : [amount |-> burns[i], height |-> height] \in Leaf
      BY <3>2, <3>3 DEF Leaf
    <3> HIDE DEF new
    <3>6. new \in Seq(Leaf)
      BY <3>4, <3>5
    <3> QED BY <3>3, <3>6
  <2> QED BY <2>1, <2>2
<1> HIDE DEF m, new, signed, Heights
<1>9. /\ t \in B3State /\ t.epoch = p.epoch /\ t.current = p.current
      /\ t.next = p.next /\ t.tree = s.tree \o new
      /\ t.handover = (p.handover \/ signed)
  <2>1. m.tree \in Seq(Leaf) /\ m.handover \in BOOLEAN
    BY <1>7 DEF B3State, Tree
  <2> DEFINE x == m.tree \o new
             y == m.handover \/ signed
  <2>2. x \in Tree /\ y \in BOOLEAN
    BY <1>8, <2>1 DEF Tree
  <2>3. u = [m EXCEPT !.tree = x]
    OBVIOUS
  <2> HIDE DEF x
  <2>4. /\ u \in B3State /\ u.tree = x /\ u.epoch = m.epoch /\ u.current = m.current
        /\ u.next = m.next /\ u.handover = m.handover
    BY <1>7, <2>2, <2>3 DEF B3State
  <2> HIDE DEF u
  <2>5. t = [u EXCEPT !.finalized = f, !.handover = y]
    BY <2>4
  <2> HIDE DEF t, y
  <2>6. /\ t \in B3State /\ t.tree = u.tree /\ t.epoch = u.epoch /\ t.current = u.current
        /\ t.next = u.next /\ t.handover = y
    BY <1>5, <2>2, <2>4, <2>5 DEF B3State
  <2> QED BY <1>4, <1>7, <2>4, <2>6 DEF x, y
<1> HIDE DEF t, u
<1>10. Inherits(s, t)
  <2>1. s.tree \in Seq(Leaf) /\ s.epoch \in Nat /\ t.epoch \in Nat
    BY <1>1, <1>9 DEF B3State, Tree
  <2>2. /\ s.epoch <= t.epoch
        /\ t.epoch = s.epoch => t.current = s.current /\ t.next = s.next
        /\ t.epoch = s.epoch + 1 => t.current = s.next
    <3>1. CASE p.epoch = s.epoch /\ p.current = s.current /\ p.next = s.next
      <4>1. t.epoch = s.epoch /\ s.epoch # s.epoch + 1 /\ s.epoch <= s.epoch
        BY <1>9, <2>1, <3>1
      <4> QED BY <1>9, <3>1, <4>1
    <3>2. CASE p.epoch = s.epoch + 1 /\ p.current = s.next
      <4>1. t.epoch = s.epoch + 1 /\ s.epoch # s.epoch + 1 /\ s.epoch <= s.epoch + 1
        BY <1>9, <2>1, <3>2
      <4> QED BY <1>9, <3>2, <4>1
    <3> QED BY <1>4, <3>1, <3>2
  <2>3. /\ Len(s.tree) <= Len(t.tree)
        /\ \A i \in 1 .. Len(s.tree) : t.tree[i] = s.tree[i]
    BY <1>8, <1>9, <2>1
  <2> QED BY <2>2, <2>3 DEF Inherits
<1>11. burns = << >> => t.tree = s.tree
  <2>1. s.tree \in Seq(Leaf)
    BY <1>1 DEF B3State, Tree
  <2> QED BY <1>8, <1>9, <2>1
<1>12. ~BothQualified(t) => t.tree = s.tree
  BY <1>3, <1>9, <1>11 DEF BothQualified, ValidatorSetsReady
<1>13. n + 1 <= BridgeActivation => t.tree = s.tree
  <2>1. height >= WithdrawalStart => ~(n + 1 <= BridgeActivation)
    BY <1>1, CustodyAssumption
  <2> QED BY <1>3, <1>11, <2>1
<1>14. ChainInv(b3')
  BY <1>1, <1>3, <1>9, <1>10, <1>12, <1>13, ChainGrows
<1>15. /\ b3' \in Seq(B3State) /\ Len(b3') = n + 1 /\ b3'[n + 1] = t
       /\ \A h \in 1 .. n : b3'[h] = b3[h]
  BY <1>1, <1>3, <1>9
<1>16. ASSUME NEW c \in certs, NEW k \in 1 .. n, Below(c.block, b3, k),
              NEW h \in k .. n + 1
       PROVE  Below(c.block, b3', h)
  <2>1. /\ Len(c.block) \in Nat /\ Len(c.block) <= k
        /\ \A i \in 1 .. Len(c.block) : c.block[i] = b3[i]
    BY <1>1, <1>16, CertState DEF Below
  <2>2. Len(c.block) <= h /\ \A i \in 1 .. Len(c.block) : i \in 1 .. n
    BY <1>1, <1>16, <2>1
  <2> QED BY <1>15, <2>1, <2>2 DEF Below
<1>17. ASSUME NEW k \in 1 .. n PROVE HandedAt(certs, b3, k) /\ HandedAt(certs, b3', k)
  <2>1. HandedAt(certs, b3, k) /\ b3'[k] = b3[k] /\ k \in k .. n + 1
    BY <1>1, <1>15, <1>17 DEF Branch
  <2> QED BY <1>16, <2>1 DEF HandedAt
<1>18. HandedAt(certs, b3', n + 1)
  <2> SUFFICES ASSUME NEW e \in Nat,
                      e + 1 = t.epoch \/ (e = t.epoch /\ t.handover)
               PROVE  \E c \in certs : c.epoch = e /\ Below(c.block, b3', n + 1)
    BY <1>15 DEF HandedAt
  <2>0. n \in 1 .. n /\ n + 1 \in n .. n + 1 /\ s.epoch \in Nat /\ t.epoch \in Nat
    BY <1>1, <1>9 DEF B3State
  <2>1. CASE e + 1 = s.epoch \/ (e = s.epoch /\ s.handover)
    <3>1. PICK c \in certs : c.epoch = e /\ Below(c.block, b3, n)
      BY <1>1, <1>17, <2>0, <2>1 DEF HandedAt
    <3> QED BY <1>16, <2>0, <3>1
  <2>2. CASE e = t.epoch /\ signed
    <3>1. PICK c \in carried : c.epoch = e
      BY <1>9, <2>2 DEF signed
    <3>2. c \in certs /\ IsPrefix(c.block, b3)
      BY <1>3
    <3>3. c.block \in Seq(B3State)
      BY <1>1, <3>2, CertState
    <3>4. Below(c.block, b3, n)
      BY <1>1, <3>2, <3>3, PrefixIs
    <3> QED BY <1>16, <2>0, <3>1, <3>2, <3>4
  <2>3. \/ e + 1 = s.epoch \/ (e = s.epoch /\ s.handover)
        \/ e = t.epoch /\ signed
    <3>1. CASE p.epoch = s.epoch /\ p.handover = s.handover
      BY <1>9, <3>1
    <3>2. CASE p.epoch = s.epoch + 1 /\ s.handover /\ ~p.handover
      <4>1. e + 1 = t.epoch => e = s.epoch
        BY <1>9, <2>0, <3>2
      <4>2. t.handover => signed
        BY <1>9, <3>2
      <4> QED BY <3>2, <4>1, <4>2
    <3> QED BY <1>4, <3>1, <3>2
  <2> QED BY <2>1, <2>2, <2>3
<1>19. Branch(certs, b3')
  <2>1. \A k \in 1 .. Len(b3') : k \in 1 .. n \/ k = n + 1
    BY <1>1, <1>15
  <2>2. Len(b3') >= 1
    BY <1>1, <1>15
  <2> QED BY <1>14, <1>15, <1>17, <1>18, <2>1, <2>2 DEF Branch
<1>20. b3'[1] = b3[1]
  BY <1>1, <1>15
<1> QED BY <1>3, <1>19, <1>20, BranchStep

(* A certificate of a block of the active chain, where its set agrees. *)
LEMMA CertifyKeeps ==
    ASSUME CustodyInv, NEW height \in Nat, Certify(height)
    PROVE  CustodyInv'
<1> DEFINE n == height + 1
           block == SubSeq(b3, 1, n)
           s == b3[n]
           new == [block |-> block, height |-> height, epoch |-> s.epoch,
                   root |-> IF height < BridgeActivation THEN {} ELSE {s.tree},
                   signers |-> s.current, successor |-> s.next]
           D == certs \union {new}
<1>1. /\ TypeInv /\ CertInv /\ Branch(certs, b3) /\ Len(b3) \in Nat
      /\ b3 \in Seq(B3State)
      /\ height \in Last(b3).finalized + 1 .. Len(b3) - 1
      /\ SetAgrees(s.current, block) /\ certs' = D
      /\ UNCHANGED <<b3, accepted, verifier, vault, now>>
  BY DEF CustodyInv, TypeInv, CertInv, B3Height, B3At, Certify
<1>2. n \in 1 .. Len(b3) /\ n \in Nat
  BY <1>1
<1>3. /\ Branch(certs, block) /\ Len(block) = n /\ block[n] = s
      /\ block[1] = b3[1] /\ s \in B3State /\ block \in Seq(B3State)
  <2>1. /\ Branch(certs, block) /\ Len(block) = n /\ block[n] = s /\ block[1] = b3[1]
    BY <1>1, <1>2, BranchShrinks
  <2> QED BY <1>1, <1>2, <2>1 DEF Branch
<1> HIDE DEF block, s
<1>4. /\ new.block = block /\ new.height = height /\ new.epoch = s.epoch
      /\ new.signers = s.current /\ new.successor = s.next
      /\ new.root = IF height < BridgeActivation THEN {} ELSE {s.tree}
      /\ new \in Cert
  <2>1. (IF height < BridgeActivation THEN {} ELSE {s.tree}) \in SUBSET Tree
    BY <1>3 DEF B3State
  <2> QED BY <1>3, <2>1 DEF Cert, B3State
<1> HIDE DEF new
<1>5. CertOK(D, b3[1], new)
  <2>1. Branch(D, block)
    <3>1. certs \subseteq D
      OBVIOUS
    <3> HIDE DEF D
    <3> QED BY <1>3, <3>1, BranchKept
  <2>2. CertifiesState(new, s)
    BY <1>4 DEF CertifiesState
  <2> QED BY <1>3, <1>4, <2>1, <2>2 DEF CertOK
<1>6. \A c \in certs : CertOK(D, b3[1], c)
  <2> TAKE c \in certs
  <2>1. CertOK(certs, b3[1], c)
    BY <1>1 DEF CertInv
  <2>2. Branch(D, c.block)
    <3>1. certs \subseteq D /\ Branch(certs, c.block)
      BY <2>1 DEF CertOK
    <3> HIDE DEF D
    <3> QED BY <3>1, BranchKept
  <2> QED BY <2>1, <2>2 DEF CertOK
<1>7. \A c \in certs : c.epoch = new.epoch => c.signers = new.signers
  <2> SUFFICES ASSUME NEW c \in certs, c.epoch = new.epoch
               PROVE  c.signers = new.signers
    OBVIOUS
  <2> DEFINE k == Len(c.block)
  <2>1. /\ Branch(certs, c.block) /\ c.block[1] = b3[1] /\ k \in 1 .. k
        /\ c.epoch = c.block[k].epoch /\ c.signers = c.block[k].current
    BY <1>1, CertState
  <2>2. /\ c.block[k].epoch = block[n].epoch /\ n \in 1 .. Len(block)
        /\ new.signers = block[n].current
    BY <1>2, <1>3, <1>4, <2>1
  <2> HIDE DEF n, k
  <2>3. k \in 1 .. Len(c.block)
    BY <2>1 DEF k
  <2>4. CertInv /\ Branch(certs, block) /\ block[1] = b3[1]
    BY <1>1, <1>3
  <2>5. c.block[k].current = block[n].current
    BY <2>1, <2>2, <2>3, <2>4, SameCurrent
  <2> QED BY <2>1, <2>2, <2>5
<1>8. SameSets(D)
  BY <1>1, <1>7 DEF CertInv, SameSets
<1>9. ASSUME NEW c \in certs, c.signers = new.signers
      PROVE  Below(c.block, block, Len(block)) \/ Below(block, c.block, Len(c.block))
  <2>1. Compatible(c.block, block)
    BY <1>1, <1>4, <1>9 DEF SetAgrees
  <2>2. c.block \in Seq(B3State)
    BY <1>1, CertState
  <2> QED BY <1>3, <2>1, <2>2, CompatibleIs
<1>10. OneBranchPerSet(D)
  <2>1. Below(block, block, Len(block))
    BY <1>2, <1>3 DEF Below
  <2>2. OneBranchPerSet(certs)
    BY <1>1 DEF CertInv
  <2> QED BY <1>4, <1>9, <2>1, <2>2 DEF OneBranchPerSet
<1>11. CertInv'
  <2>1. Branch(D, b3)
    <3>1. certs \subseteq D
      OBVIOUS
    <3> HIDE DEF D
    <3> QED BY <1>1, <3>1, BranchKept
  <2>2. \A c \in D : CertOK(D, b3[1], c)
    BY <1>5, <1>6
  <2> HIDE DEF D
  <2> QED BY <1>1, <1>8, <1>10, <2>1, <2>2 DEF CertInv
<1>12. TypeInv'
  <2>1. D \subseteq Cert /\ accepted \subseteq D
    BY <1>1, <1>4 DEF TypeInv
  <2> HIDE DEF D
  <2> QED BY <1>1, <2>1 DEF TypeInv
<1>13. VerifierInv' /\ AcceptedBurnsReleasable' /\ VaultInv'
  BY <1>1 DEF CustodyInv, VerifierInv, AcceptedBurnsReleasable, VaultInv, OneBranch
<1> QED BY <1>11, <1>12, <1>13 DEF CustodyInv

-----------------------------------------------------------------------------
(* The steps of Ethereum.                                                  *)

(* Steps that leave the chain and the certificates alone keep what is known
   of them. *)
LEMMA CertsUntouched ==
    ASSUME CertInv, UNCHANGED <<b3, certs>>
    PROVE  CertInv'
BY DEF CertInv

(* The bootstrap keys attest Set_0. *)
LEMMA InitializeKeeps ==
    ASSUME CustodyInv, Initialize
    PROVE  CustodyInv'
<1> DEFINE v == verifier
           w == [v EXCEPT !.initialized = TRUE, !.genesis_time = now,
                          !.current = {b3[1].current}, !.last_rotation = now]
<1>1. /\ ~v.initialized /\ verifier' = w
      /\ UNCHANGED <<b3, certs, accepted, vault, now>>
      /\ v \in VerifierState /\ now \in Nat /\ TypeInv /\ CertInv
  <2>1. B3At(0) = b3[1]
    BY DEF B3At
  <2> QED BY <2>1 DEF Initialize, CustodyInv, TypeInv
<1>2. b3[1].current \in Header
  <2>1. b3[1] \in B3State
    BY <1>1 DEF TypeInv
  <2> QED BY <2>1 DEF B3State
<1>3. /\ w \in VerifierState /\ w.initialized /\ w.epoch = v.epoch
      /\ w.current = {b3[1].current} /\ w.next = v.next /\ w.height = v.height
      /\ w.root = v.root /\ w.bridge_root = v.bridge_root
  BY <1>1, <1>2 DEF VerifierState
<1> HIDE DEF w
<1>4. accepted = {} /\ v.epoch = 0
  BY <1>1 DEF CustodyInv, VerifierInv
<1>5. TypeInv' /\ CertInv'
  BY <1>1, <1>3, CertsUntouched DEF TypeInv
<1>6. VerifierInv'
  BY <1>1, <1>3, <1>4 DEF CustodyInv, VerifierInv
<1>7. AcceptedBurnsReleasable' /\ VaultInv'
  BY <1>1, <1>3 DEF CustodyInv, AcceptedBurnsReleasable, VaultInv, OneBranch
<1> QED BY <1>5, <1>6, <1>7 DEF CustodyInv

(* What submitCertificate stores. *)
LEMMA CertifiedFields ==
    ASSUME NEW v \in VerifierState, now \in Nat, NEW c, c.height \in Nat,
           c.successor \in Header, c.root \in SUBSET Tree
    PROVE  LET w == Certified(v, c)
               rotates == IsTransition(v, c)
               signers == IF rotates THEN v.next ELSE v.current
               qualified == /\ c.height >= BridgeActivation
                            /\ \E set \in signers : BridgeThresholdMet(set)
           IN  /\ w \in VerifierState
               /\ w.initialized = v.initialized
               /\ w.epoch = IF rotates THEN v.epoch + 1 ELSE v.epoch
               /\ w.current = signers /\ w.next = {c.successor}
               /\ w.height = c.height /\ w.root = c.root
               /\ w.bridge_height = IF qualified THEN c.height ELSE v.bridge_height
               /\ w.bridge_root = IF qualified THEN c.root ELSE v.bridge_root
<1> DEFINE rotates == IsTransition(v, c)
           signers == IF rotates THEN v.next ELSE v.current
           qualified == c.height >= BridgeActivation /\ \E set \in signers : BridgeThresholdMet(set)
           a == IF rotates THEN Rotated(v, c) ELSE [v EXCEPT !.next = {c.successor}]
           h == IF qualified THEN c.height ELSE a.bridge_height
           r == IF qualified THEN c.root ELSE a.bridge_root
           w == [a EXCEPT !.bridge_height = h, !.bridge_root = r,
                          !.height = c.height, !.root = c.root,
                          !.last_certificate = now]
<1>0. Certified(v, c) = w
  BY DEF Certified
<1>1. /\ a \in VerifierState /\ a.initialized = v.initialized
      /\ a.epoch = IF rotates THEN v.epoch + 1 ELSE v.epoch
      /\ a.current = signers /\ a.next = {c.successor}
      /\ a.bridge_height = v.bridge_height /\ a.bridge_root = v.bridge_root
  <2>1. {c.successor} \in SUBSET Header /\ v.next \in SUBSET Header
        /\ v.epoch + 1 \in Nat
    BY DEF VerifierState
  <2>2. CASE rotates
    <3> DEFINE e == v.epoch + 1
               x == v.next
               y == {c.successor}
               b == [v EXCEPT !.epoch = e, !.current = x, !.next = y,
                              !.last_rotation = now]
    <3>1. a = b /\ e \in Nat /\ x \in SUBSET Header /\ y \in SUBSET Header
      BY <2>1, <2>2 DEF Rotated
    <3> HIDE DEF a, e, x, y
    <3>2. /\ b \in VerifierState /\ b.initialized = v.initialized
          /\ b.epoch = e /\ b.current = x /\ b.next = y
          /\ b.bridge_height = v.bridge_height /\ b.bridge_root = v.bridge_root
      BY <3>1 DEF VerifierState
    <3> HIDE DEF b
    <3> QED BY <2>2, <3>1, <3>2 DEF e, x, y
  <2>3. CASE ~rotates
    <3> DEFINE y == {c.successor}
               b == [v EXCEPT !.next = y]
    <3>1. a = b /\ y \in SUBSET Header
      BY <2>1, <2>3
    <3> HIDE DEF a, y
    <3>2. /\ b \in VerifierState /\ b.initialized = v.initialized
          /\ b.epoch = v.epoch /\ b.current = v.current /\ b.next = y
          /\ b.bridge_height = v.bridge_height /\ b.bridge_root = v.bridge_root
      BY <3>1 DEF VerifierState
    <3> HIDE DEF b
    <3> QED BY <2>3, <3>1, <3>2 DEF y
  <2> QED BY <2>2, <2>3
<1> HIDE DEF a, rotates, signers, qualified
<1>2. h \in Nat /\ r \in SUBSET Tree
  BY <1>1 DEF VerifierState
<1> HIDE DEF h, r
<1>3. /\ w \in VerifierState /\ w.initialized = a.initialized /\ w.epoch = a.epoch
      /\ w.current = a.current /\ w.next = a.next /\ w.height = c.height
      /\ w.root = c.root /\ w.bridge_height = h /\ w.bridge_root = r
  BY <1>1, <1>2 DEF VerifierState
<1> HIDE DEF w
<1> QED BY <1>0, <1>1, <1>3 DEF h, r, rotates, signers, qualified

(* Nothing was burned between two states of a branch when the later one's set
   does not qualify and is in force at the earlier one, or is its successor. *)
LEMMA UnqualifiedBurnsNothing ==
    ASSUME NEW C, NEW b, Branch(C, b), NEW h \in 1 .. Len(b), NEW g \in 1 .. h,
           NEW set, ~BridgeThresholdMet(set),
           \/ b[h].epoch = b[g].epoch /\ (set = b[g].current \/ set = b[g].next)
           \/ b[h].epoch = b[g].epoch + 1 /\ set = b[g].next
    PROVE  b[h].tree = b[g].tree
<1>1. /\ g \in 1 .. Len(b) /\ g \in Nat /\ h \in Nat /\ Len(b) \in Nat
      /\ b[g].epoch \in Nat /\ b[h].epoch \in Nat
  BY BranchStates
<1>2. ASSUME NEW k \in (g + 1) .. h PROVE ~BothQualified(b[k])
  <2>1. k \in 1 .. Len(b) /\ g \in 1 .. k /\ k \in 1 .. h
    BY <1>1, <1>2
  <2>2. Inherits(b[g], b[k]) /\ b[k].epoch \in Nat
    BY <2>1, BranchStates
  <2>3. Inherits(b[k], b[h])
    BY <2>1, BranchStates
  <2> DEFINE x == b[g].epoch
             y == b[k].epoch
             z == b[h].epoch
  <2>4. x \in Nat /\ y \in Nat /\ z \in Nat /\ x <= y /\ y <= z
    BY <1>1, <2>2, <2>3 DEF Inherits
  <2>5. CASE z = x /\ (set = b[g].current \/ set = b[g].next)
    <3>1. y = x
      <4> HIDE DEF x, y, z
      <4> QED BY <2>4, <2>5
    <3>2. b[k].current = b[g].current /\ b[k].next = b[g].next
      BY <2>2, <3>1 DEF Inherits
    <3> QED BY <2>5, <3>2 DEF BothQualified
  <2>6. CASE z = x + 1 /\ set = b[g].next
    <3>1. y = x \/ y = x + 1
      <4> HIDE DEF x, y, z
      <4> QED BY <2>4, <2>6
    <3>2. b[k].next = b[g].next \/ b[k].current = b[g].next
      BY <2>2, <3>1 DEF Inherits
    <3> QED BY <2>6, <3>2 DEF BothQualified
  <2> QED BY <2>5, <2>6
<1>3. BurnFree(b, g, h)
  BY <1>2 DEF BurnFree
<1>4. g <= h /\ ChainInv(b)
  BY <1>1 DEF Branch
<1> QED BY <1>1, <1>3, <1>4 DEF ChainInv

(* Nor between two certificates of one epoch when its set, or the next one,
   does not qualify. *)
LEMMA UnqualifiedEpochBurnsNothing ==
    ASSUME CertInv, NEW c \in certs, NEW d \in certs, c.epoch = d.epoch,
           NEW set, ~BridgeThresholdMet(set), set = c.signers \/ set = c.successor
    PROVE  c.block[Len(c.block)].tree = d.block[Len(d.block)].tree
<1>1. ASSUME NEW x \in certs, NEW y \in certs, x.epoch = y.epoch,
             set = x.signers \/ set = x.successor, Below(x.block, y.block, Len(y.block))
      PROVE  x.block[Len(x.block)].tree = y.block[Len(y.block)].tree
  <2> DEFINE n == Len(x.block)
             m == Len(y.block)
  <2>1. /\ n \in Nat /\ n \in 1 .. n /\ x.epoch = x.block[n].epoch
        /\ x.successor = x.block[n].next /\ x.signers = x.block[n].current
    BY CertState
  <2>2. /\ m \in Nat /\ m \in 1 .. m /\ y.epoch = y.block[m].epoch
        /\ Branch(certs, y.block)
    BY CertState
  <2>3. n <= m /\ x.block[n] = y.block[n]
    BY <1>1, <2>1 DEF Below
  <2> HIDE DEF n, m
  <2>4. n \in 1 .. m /\ m \in 1 .. Len(y.block)
    BY <2>1, <2>2, <2>3 DEF m
  <2>5. /\ y.block[m].epoch = y.block[n].epoch
        /\ set = y.block[n].current \/ set = y.block[n].next
    BY <1>1, <2>1, <2>2, <2>3
  <2>6. y.block[m].tree = y.block[n].tree
    BY <2>2, <2>4, <2>5, UnqualifiedBurnsNothing
  <2> QED BY <2>3, <2>6 DEF n, m
<1>2. c.signers = d.signers /\ c.successor = d.successor
  BY SameSuccessor
<1>3. \/ Below(c.block, d.block, Len(d.block))
      \/ Below(d.block, c.block, Len(c.block))
  BY SameSuccessor
<1> QED BY <1>1, <1>2, <1>3

(* A certificate by an unqualified set brings no burn that the certificate the
   verifier accepted before it did not bring, on whichever branch that was. *)
LEMMA UnqualifiedBringsNothing ==
    ASSUME CertInv, NEW c \in certs, NEW d \in certs,
           c.epoch = d.epoch \/ c.epoch = d.epoch + 1,
           ~BridgeThresholdMet(c.signers)
    PROVE  c.block[Len(c.block)].tree = d.block[Len(d.block)].tree
<1>1. CASE c.epoch = d.epoch
  BY <1>1, UnqualifiedEpochBurnsNothing
<1>2. CASE c.epoch = d.epoch + 1
  <2> DEFINE n == Len(c.block)
             b == c.block
  <2>1. /\ n \in Nat /\ n \in 1 .. n /\ c.epoch = b[n].epoch
        /\ c.signers = b[n].current /\ Branch(certs, b)
    BY CertState
  <2>2. d.epoch \in Nat
    BY CertState
  <2>3. b[n].epoch # 0
    BY <1>2, <2>1, <2>2
  <2>4. PICK e \in certs : /\ e.epoch + 1 = b[n].epoch /\ Below(e.block, b, n)
                           /\ b[n].current = e.successor
    BY <2>1, <2>3, HandedOver
  <2> DEFINE k == Len(e.block)
  <2>5. /\ k \in Nat /\ k \in 1 .. k /\ e.epoch = e.block[k].epoch /\ e.epoch \in Nat
        /\ e.successor = e.block[k].next
    BY CertState
  <2>6. k <= n /\ e.block[k] = b[k]
    BY <2>4, <2>5 DEF Below
  <2> HIDE DEF n, k
  <2>7. k \in 1 .. n /\ n \in 1 .. Len(b)
    BY <2>1, <2>5, <2>6 DEF n
  <2>8. b[n].tree = b[k].tree
    <3>1. b[n].epoch = b[k].epoch + 1 /\ c.signers = b[k].next
      BY <2>1, <2>4, <2>5, <2>6
    <3> QED BY <2>1, <2>7, <3>1, UnqualifiedBurnsNothing
  <2>9. e.epoch = d.epoch /\ e.successor = c.signers
    BY <1>2, <2>1, <2>2, <2>4, <2>5
  <2>10. e.block[Len(e.block)].tree = d.block[Len(d.block)].tree
    BY <2>9, UnqualifiedEpochBurnsNothing
  <2> QED BY <2>6, <2>8, <2>10 DEF n, k
<1> QED BY <1>1, <1>2

(* Nor does the first certificate of all, if its set does not qualify. *)
LEMMA UnqualifiedStartsEmpty ==
    ASSUME CertInv, NEW c \in certs, c.epoch = 0, ~BridgeThresholdMet(c.signers)
    PROVE  c.block[Len(c.block)].tree = << >>
<1> DEFINE n == Len(c.block)
           b == c.block
<1>1. /\ n \in 1 .. n /\ 1 \in 1 .. n /\ c.epoch = b[n].epoch
      /\ c.signers = b[n].current /\ Branch(certs, b)
  BY CertState
<1>2. b[1].epoch = 0 /\ b[1].tree = << >>
  <2>1. 1 <= BridgeActivation
    BY CustodyAssumption
  <2> QED BY <1>1, <2>1 DEF Branch, ChainInv
<1>3. Inherits(b[1], b[n])
  BY <1>1, BranchStates
<1>4. b[n].epoch = b[1].epoch /\ c.signers = b[1].current
  BY <1>1, <1>2, <1>3 DEF Inherits
<1>5. b[n].tree = b[1].tree
  BY <1>1, <1>4, UnqualifiedBurnsNothing
<1> QED BY <1>2, <1>5

(* The burns under the latest root are those of the last accepted certificate,
   or there are none. *)
LEMMA RootLeaves ==
    ASSUME CustodyInv
    PROVE  /\ Leaves(verifier.root) \in Seq(Leaf)
           /\ \A d \in accepted : d.root = verifier.root =>
                 Leaves(verifier.root) = d.block[Len(d.block)].tree
<1>1. \A d \in accepted : /\ d \in certs /\ d.height \in Nat /\ CertInv
                          /\ Leaves(d.root) = d.block[Len(d.block)].tree
                          /\ d.block[Len(d.block)].tree \in Seq(Leaf)
  <2> TAKE d \in accepted
  <2>1. d \in certs /\ d.height \in Nat /\ CertInv
    BY DEF CustodyInv, TypeInv, Cert
  <2>2. d.block[Len(d.block)] \in B3State
    BY <2>1, CertState
  <2>3. Leaves(d.root) = d.block[Len(d.block)].tree
    BY <2>1, CertLeaves
  <2> QED BY <2>1, <2>2, <2>3 DEF B3State, Tree
<1>2. CASE accepted = {}
  <2>1. Leaves(verifier.root) = << >>
    BY <1>2 DEF CustodyInv, VerifierInv, Leaves
  <2> QED BY <1>2, <2>1
<1>3. CASE accepted # {}
  <2>1. PICK d \in accepted : d.root = verifier.root
    BY <1>3 DEF CustodyInv, VerifierInv
  <2> QED BY <1>1, <2>1
<1> QED BY <1>2, <1>3

(* An accepted certificate moves the verifier along the lineage, and leaves no
   burn behind that the vault could not release. *)
LEMMA SubmitKeeps ==
    ASSUME CustodyInv, NEW c \in certs, SubmitCertificate(c)
    PROVE  CustodyInv'
<1> DEFINE v == verifier
           w == Certified(v, c)
           n == Len(c.block)
           rotates == IsTransition(v, c)
           signers == IF rotates THEN v.next ELSE v.current
           qualified == /\ c.height >= BridgeActivation
                        /\ \E set \in signers : BridgeThresholdMet(set)
<1>1. /\ v \in VerifierState /\ now \in Nat /\ TypeInv /\ CertInv /\ c \in Cert
      /\ verifier' = w /\ UNCHANGED <<b3, certs, vault, now>>
      /\ accepted' = accepted \union {c} /\ accepted \subseteq certs
  BY DEF SubmitCertificate, CustodyInv, TypeInv
<1>2. /\ v.initialized /\ (c.epoch = v.epoch \/ rotates) /\ c.height > v.height
      /\ {c.signers} = signers
  BY DEF SubmitCertificate, CertificateAccepted
<1>3. rotates => c.epoch = v.epoch + 1 /\ v.next # {}
  BY DEF IsTransition
<1>4. /\ c.height \in Nat /\ c.successor \in Header /\ c.root \in SUBSET Tree
      /\ v.height \in Nat /\ v.epoch \in Nat
  BY <1>1 DEF Cert, VerifierState
<1>5. /\ w \in VerifierState /\ w.initialized = v.initialized
      /\ w.epoch = IF rotates THEN v.epoch + 1 ELSE v.epoch
      /\ w.current = signers /\ w.next = {c.successor}
      /\ w.height = c.height /\ w.root = c.root
      /\ w.bridge_root = IF qualified THEN c.root ELSE v.bridge_root
  BY <1>1, <1>4, CertifiedFields
<1>6. /\ n \in Nat /\ n \in 1 .. n /\ n = c.height + 1 /\ Branch(certs, c.block)
      /\ c.root = IF c.height < BridgeActivation THEN {} ELSE {c.block[n].tree}
      /\ c.block[n] \in B3State /\ c.block \in Seq(B3State)
  BY <1>1, CertState
<1>7. Leaves(c.root) = c.block[n].tree /\ c.block[n].tree \in Seq(Leaf)
  BY <1>1, <1>4, <1>6, CertLeaves DEF B3State, Tree
<1> HIDE DEF w, n, rotates, signers, qualified
<1>8. w.epoch = c.epoch
  BY <1>2, <1>3, <1>5
<1>9. TypeInv' /\ CertInv'
  BY <1>1, <1>5, CertsUntouched DEF TypeInv
<1>10. VerifierInv'
  <2>1. \A tree \in w.bridge_root : w.bridge_root = {tree}
    <3>1. \A tree \in c.root : c.root = {tree}
      BY <1>6
    <3>2. \A tree \in v.bridge_root : v.bridge_root = {tree}
      BY DEF CustodyInv, VerifierInv
    <3> QED BY <1>5, <3>1, <3>2
  <2>2. c \in accepted'
    BY <1>1
  <2>3. \E x \in accepted' : x.epoch = w.epoch /\ w.current = {x.signers}
    BY <1>2, <1>5, <1>8, <2>2
  <2>4. \E x \in accepted' : x.epoch = w.epoch /\ w.next = {x.successor}
    BY <1>5, <1>8, <2>2
  <2>5. \E x \in accepted' : /\ x.height = w.height /\ x.epoch = w.epoch
                             /\ x.root = w.root
    BY <1>5, <1>8, <2>2
  <2>6. w.initialized /\ accepted' # {}
    BY <1>2, <1>5, <2>2
  <2> QED BY <1>1, <2>1, <2>3, <2>4, <2>5, <2>6 DEF VerifierInv
<1>11. CASE accepted = {}
  <2>1. /\ v.epoch = 0 /\ v.root = {} /\ v.bridge_root = {} /\ v.next = {}
    BY <1>11 DEF CustodyInv, VerifierInv
  <2>2. c.epoch = 0 /\ Leaves(v.root) = << >>
    BY <1>2, <1>3, <2>1 DEF Leaves
  <2>3. ASSUME ~qualified PROVE Leaves(c.root) = << >>
    <3>1. CASE c.height < BridgeActivation
      BY <1>6, <3>1 DEF Leaves
    <3>2. CASE ~(c.height < BridgeActivation)
      <4>1. c.height >= BridgeActivation
        BY <1>4, <3>2, CustodyAssumption
      <4>2. ~BridgeThresholdMet(c.signers)
        BY <1>2, <2>3, <4>1 DEF qualified
      <4> QED BY <1>1, <1>7, <2>2, <4>2, UnqualifiedStartsEmpty DEF n
    <3> QED BY <3>1, <3>2
  <2>4. Leaves(w.bridge_root) = Leaves(w.root)
    BY <1>5, <2>1, <2>2, <2>3
  <2>5. OneBranch
    BY <1>11 DEF OneBranch
  <2>6. VaultBalanced(vault, << >>)
    BY <2>2, <2>5 DEF CustodyInv, VaultInv
  <2>7. VaultBalanced(vault, c.block[n].tree)
    <3> DEFINE s == << >>
               t == c.block[n].tree
               ids == vault.released
    <3>1. /\ s \in Seq(Leaf) /\ t \in Seq(Leaf) /\ Len(s) <= Len(t)
          /\ \A i \in 1 .. Len(s) : t[i] = s[i]
      BY <1>7
    <3>2. ids \subseteq DOMAIN s /\ DOMAIN s \subseteq DOMAIN t
      BY <2>6 DEF VaultBalanced
    <3> HIDE DEF s, t, ids
    <3>3. TotalOf(Paying(t, ids)) = TotalOf(Paying(s, ids))
      BY <3>1, <3>2, PayingGrows
    <3> QED BY <2>6, <3>2, <3>3 DEF VaultBalanced, s, t, ids
  <2>8. AcceptedBurnsReleasable' /\ VaultInv'
    BY <1>1, <1>5, <1>7, <2>4, <2>7 DEF AcceptedBurnsReleasable, VaultInv
  <2> QED BY <1>9, <1>10, <2>8 DEF CustodyInv
<1>12. CASE accepted # {}
  <2>1. PICK d \in accepted : /\ d.height = v.height /\ d.epoch = v.epoch
                              /\ d.root = v.root
    BY <1>12 DEF CustodyInv, VerifierInv
  <2> DEFINE k == Len(d.block)
  <2>2. d \in certs
    BY <1>1
  <2>3. /\ k \in Nat /\ k \in 1 .. k /\ k = d.height + 1 /\ d.block \in Seq(B3State)
        /\ d.root = IF d.height < BridgeActivation THEN {} ELSE {d.block[k].tree}
    BY <1>1, <2>2, CertState
  <2>4. Leaves(v.root) = d.block[k].tree
    BY <2>1, RootLeaves
  <2> HIDE DEF k
  <2>5. Leaves(v.bridge_root) = Leaves(v.root)
    BY DEF CustodyInv, AcceptedBurnsReleasable
  <2>6. ASSUME ~qualified PROVE Leaves(c.root) = Leaves(v.root)
    <3>1. CASE c.height < BridgeActivation
      <4>1. d.height < BridgeActivation
        BY <1>2, <1>4, <2>1, <3>1, CustodyAssumption
      <4>2. c.root = {} /\ v.root = {}
        BY <1>6, <2>1, <2>3, <3>1, <4>1
      <4> QED BY <4>2
    <3>2. CASE ~(c.height < BridgeActivation)
      <4>1. c.height >= BridgeActivation
        BY <1>4, <3>2, CustodyAssumption
      <4>2. ~BridgeThresholdMet(c.signers)
        BY <1>2, <2>6, <4>1 DEF qualified
      <4>3. c.epoch = d.epoch \/ c.epoch = d.epoch + 1
        BY <1>2, <1>3, <2>1
      <4>4. c.block[n].tree = d.block[k].tree
        BY <1>1, <2>2, <4>2, <4>3, UnqualifiedBringsNothing DEF n, k
      <4> QED BY <1>7, <2>4, <4>4
    <3> QED BY <3>1, <3>2
  <2>7. Leaves(w.bridge_root) = Leaves(w.root)
    BY <1>5, <2>5, <2>6
  <2>8. ASSUME OneBranch' PROVE VaultBalanced(vault, c.block[n].tree)
    <3>1. OneBranch /\ Compatible(d.block, c.block)
      BY <1>1, <2>8 DEF OneBranch
    <3>2. VaultBalanced(vault, d.block[k].tree)
      BY <2>4, <3>1 DEF CustodyInv, VaultInv
    <3>3. k < n
      BY <1>2, <1>4, <1>6, <2>1, <2>3
    <3>4. Below(d.block, c.block, n)
      <4>1. Below(d.block, c.block, n) \/ Below(c.block, d.block, k)
        BY <1>6, <2>3, <3>1, CompatibleIs DEF n, k
      <4>2. ~Below(c.block, d.block, k)
        <5>1. Below(c.block, d.block, k) => n <= k
          BY DEF Below, n
        <5> QED BY <1>6, <2>3, <3>3, <5>1
      <4> QED BY <4>1, <4>2
    <3>5. k \in 1 .. n /\ n \in 1 .. Len(c.block) /\ d.block[k] = c.block[k]
      <4>1. k \in 1 .. n /\ n \in 1 .. Len(c.block) /\ k \in 1 .. Len(d.block)
        BY <1>6, <2>3, <3>3 DEF n, k
      <4> QED BY <3>4, <4>1 DEF Below
    <3>6. /\ Inherits(c.block[k], c.block[n]) /\ c.block[k].tree \in Seq(Leaf)
      BY <1>6, <3>5, BranchStates
    <3> DEFINE s == d.block[k].tree
               t == c.block[n].tree
               ids == vault.released
    <3>7. /\ s \in Seq(Leaf) /\ t \in Seq(Leaf) /\ Len(s) <= Len(t)
          /\ \A i \in 1 .. Len(s) : t[i] = s[i]
      BY <1>7, <3>5, <3>6 DEF Inherits
    <3>8. ids \subseteq DOMAIN s
      BY <3>2 DEF VaultBalanced
    <3>9. /\ vault.locked + TotalOf(Paying(s, ids)) = TotalOf(vault.deposits)
      BY <3>2 DEF VaultBalanced
    <3> HIDE DEF s, t
    <3>10. TotalOf(Paying(t, ids)) = TotalOf(Paying(s, ids))
      BY <3>7, <3>8, PayingGrows
    <3>11. ids \subseteq DOMAIN t
      BY <3>7, <3>8
    <3> QED BY <3>9, <3>10, <3>11 DEF VaultBalanced, t
  <2>9. AcceptedBurnsReleasable' /\ VaultInv'
    BY <1>1, <1>5, <1>7, <2>7, <2>8 DEF AcceptedBurnsReleasable, VaultInv
  <2> QED BY <1>9, <1>10, <2>9 DEF CustodyInv
<1> QED BY <1>11, <1>12

(* Steps of the vault alone, and steps of the clock. *)
LEMMA VaultSteps ==
    ASSUME CustodyInv, UNCHANGED <<b3, certs, accepted, verifier>>,
           vault' \in VaultState, now' \in Nat,
           OneBranch => VaultBalanced(vault', Leaves(verifier.root))
    PROVE  CustodyInv'
<1>1. TypeInv' /\ CertInv'
  BY CertsUntouched DEF CustodyInv, TypeInv
<1>2. VerifierInv' /\ AcceptedBurnsReleasable'
  BY DEF CustodyInv, VerifierInv, AcceptedBurnsReleasable
<1>3. VaultInv'
  BY DEF VaultInv, OneBranch
<1> QED BY <1>1, <1>2, <1>3 DEF CustodyInv

(* A deposit is locked and recorded. *)
LEMMA DepositKeeps ==
    ASSUME CustodyInv, NEW amount \in Amounts, Deposit(amount)
    PROVE  CustodyInv'
<1> DEFINE v == vault
           w == [v EXCEPT !.deposits = Append(v.deposits, amount),
                          !.locked = v.locked + amount]
           T == Leaves(verifier.root)
           paid == TotalOf(Paying(T, v.released))
<1>1. /\ vault' = w /\ UNCHANGED <<b3, certs, accepted, verifier, now>>
      /\ v \in VaultState /\ now \in Nat
  BY DEF Deposit, CustodyInv, TypeInv
<1>2. amount \in Nat
  BY CustodyAssumption
<1>3. /\ v.deposits \in Seq(Nat) /\ v.locked \in Nat /\ v.released \in SUBSET Nat
      /\ Append(v.deposits, amount) \in Seq(Nat) /\ v.locked + amount \in Nat
      /\ v.deposits \in Seq(Int)
  BY <1>1, <1>2 DEF VaultState
<1>4. /\ w \in VaultState /\ w.deposits = Append(v.deposits, amount)
      /\ w.locked = v.locked + amount /\ w.released = v.released
  BY <1>1, <1>3 DEF VaultState
<1> HIDE DEF w
<1>5. /\ TotalOf(v.deposits) \in Int
      /\ TotalOf(Append(v.deposits, amount)) = TotalOf(v.deposits) + amount
  <2> DEFINE d == v.deposits
  <2>1. d \in Seq(Int) /\ amount \in Int
    BY <1>2, <1>3
  <2> HIDE DEF d
  <2>2. TotalOf(d) \in Int /\ TotalOf(Append(d, amount)) = TotalOf(d) + amount
    BY <2>1, TotalAppend
  <2> QED BY <2>2 DEF d
<1>6. paid \in Int
  <2>1. Paying(T, v.released) \in Seq(Int)
    BY RootLeaves, PayingIs
  <2> QED BY <2>1, TotalInt
<1>7. ASSUME OneBranch PROVE VaultBalanced(w, T)
  <2>1. v.locked + paid = TotalOf(v.deposits) /\ v.released \subseteq DOMAIN T
    BY <1>7 DEF CustodyInv, VaultInv, VaultBalanced
  <2> HIDE DEF paid
  <2>2. w.locked + paid = TotalOf(w.deposits)
    BY <1>2, <1>3, <1>4, <1>5, <1>6, <2>1
  <2> QED BY <1>4, <2>1, <2>2 DEF VaultBalanced, paid
<1> QED BY <1>1, <1>4, <1>7, VaultSteps

(* A release pays a burn under the latest root that was not paid before. *)
LEMMA ReleaseKeeps ==
    ASSUME CustodyInv, NEW id, Release(id)
    PROVE  CustodyInv'
<1> DEFINE v == vault
           F == Leaves(verifier.root)
           R == v.released
           x == F[id].amount
           w == [v EXCEPT !.released = R \union {id}, !.locked = v.locked - x]
<1>1. PICK tree \in verifier.bridge_root :
         /\ id \in DOMAIN tree /\ tree[id].amount <= v.locked
         /\ vault' = Paid(v, id, tree[id].amount)
  BY DEF Release
<1>2. /\ id \notin R /\ UNCHANGED <<b3, certs, accepted, verifier, now>>
      /\ v \in VaultState /\ now \in Nat
  BY DEF Release, CustodyInv, TypeInv
<1>3. F \in Seq(Leaf)
  BY RootLeaves
<1>4. tree = F /\ id \in 1 .. Len(F)
  <2>1. verifier.bridge_root = {tree}
    BY <1>1 DEF CustodyInv, VerifierInv
  <2>2. Leaves(verifier.bridge_root) = tree
    BY <2>1 DEF Leaves
  <2>3. tree = F
    BY <2>2 DEF CustodyInv, AcceptedBurnsReleasable
  <2> QED BY <1>1, <1>3, <2>3
<1>5. x \in Nat /\ x <= v.locked /\ vault' = w
  <2>1. F[id] \in Leaf
    BY <1>3, <1>4
  <2> QED BY <1>1, <1>4, <2>1 DEF Leaf, Paid
<1> HIDE DEF F, x
<1>6. /\ v.deposits \in Seq(Nat) /\ v.locked \in Nat /\ R \in SUBSET Nat
      /\ v.locked - x \in Nat /\ R \union {id} \in SUBSET Nat
  <2>1. /\ v.deposits \in Seq(Nat) /\ v.locked \in Nat /\ R \in SUBSET Nat
    BY <1>2 DEF VaultState
  <2> QED BY <1>3, <1>4, <1>5, <2>1
<1>7. /\ w \in VaultState /\ w.deposits = v.deposits
      /\ w.locked = v.locked - x /\ w.released = R \union {id}
  BY <1>2, <1>6 DEF VaultState
<1> HIDE DEF w
<1> DEFINE a == Paying(F, R)
           b == Paying(F, R \union {id})
<1>8. /\ a \in Seq(Int) /\ Len(a) = Len(F)
      /\ \A i \in 1 .. Len(F) : a[i] = IF i \in R THEN F[i].amount ELSE 0
  BY <1>3, PayingIs
<1>9. /\ b \in Seq(Int) /\ Len(b) = Len(F)
      /\ \A i \in 1 .. Len(F) : b[i] = IF i \in R \union {id} THEN F[i].amount ELSE 0
  BY <1>3, PayingIs
<1> HIDE DEF a, b
<1>10. a[id] = 0 /\ b[id] = x
  BY <1>2, <1>4, <1>8, <1>9 DEF x
<1>11. \A i \in 1 .. Len(F) : i # id => b[i] = a[i]
  BY <1>8, <1>9
<1>12. TotalOf(a) \in Int /\ TotalOf(b) = TotalOf(a) + x
  <2>1. b[id] = a[id] + x /\ x \in Int
    BY <1>5, <1>10
  <2>2. /\ a \in Seq(Int) /\ b \in Seq(Int) /\ Len(a) = Len(b) /\ id \in 1 .. Len(a)
        /\ \A i \in 1 .. Len(a) : i # id => b[i] = a[i]
    BY <1>4, <1>8, <1>9, <1>11
  <2> QED BY <2>1, <2>2, TotalChange
<1>13. ASSUME OneBranch PROVE VaultBalanced(w, F)
  <2>1. v.locked + TotalOf(a) = TotalOf(v.deposits) /\ R \subseteq DOMAIN F
    BY <1>13 DEF CustodyInv, VaultInv, VaultBalanced, a, F
  <2>2. w.locked + TotalOf(b) = TotalOf(w.deposits)
    BY <1>5, <1>6, <1>7, <1>12, <2>1
  <2>3. id \in DOMAIN F
    BY <1>3, <1>4
  <2> QED BY <1>7, <2>1, <2>2, <2>3 DEF VaultBalanced, b
<1> QED BY <1>2, <1>5, <1>7, <1>13, VaultSteps DEF F

-----------------------------------------------------------------------------
(* The theorems.                                                           *)

(* Every step of B3, of a relayer, of the vault's users and of the clock keeps
   the invariant. *)
LEMMA CustodyStep ==
    ASSUME CustodyInv, [Next]_vars
    PROVE  CustodyInv'
<1>0. /\ vault \in VaultState /\ now \in Nat
      /\ OneBranch => VaultBalanced(vault, Leaves(verifier.root))
      /\ \A h \in 0 .. MaxHeight : h \in Nat
  BY DEF CustodyInv, TypeInv, VaultInv
<1>1. ASSUME NEW mints \in SUBSET DOMAIN vault.deposits,
             NEW burns \in {<< >>} \union {<< amount >> : amount \in Amounts},
             NEW carried \in {{}} \union {{c} : c \in certs}, NEW q \in ValidatorSets,
             B3Block(mints, burns, carried, q)
      PROVE  CustodyInv'
  <2>1. carried \in SUBSET certs
    OBVIOUS
  <2> QED BY <1>1, <2>1, BlockKeeps
<1>2. ASSUME NEW amount \in Amounts, Deposit(amount) PROVE CustodyInv'
  BY <1>2, DepositKeeps
<1>3. ASSUME NEW height \in 0 .. MaxHeight, Reorganise(height) PROVE CustodyInv'
  BY <1>0, <1>3, ReorganiseKeeps
<1>4. ASSUME NEW height \in 0 .. MaxHeight, Certify(height) PROVE CustodyInv'
  BY <1>0, <1>4, CertifyKeeps
<1>5. CASE Initialize
  BY <1>5, InitializeKeeps
<1>6. CASE Tick
  <2>1. UNCHANGED <<b3, certs, accepted, verifier, vault>> /\ now' \in Nat
    BY <1>0, <1>6 DEF Tick
  <2> QED BY <1>0, <2>1, VaultSteps
<1>7. ASSUME NEW c \in certs, SubmitCertificate(c) PROVE CustodyInv'
  BY <1>7, SubmitKeeps
<1>8. ASSUME NEW id \in 1 .. MaxWithdrawals, Release(id) PROVE CustodyInv'
  BY <1>8, ReleaseKeeps
<1>9. CASE UNCHANGED vars
  <2>1. UNCHANGED <<b3, certs, accepted, verifier, vault>> /\ now' = now
    BY <1>9 DEF vars
  <2> QED BY <1>0, <2>1, VaultSteps
<1> QED BY <1>1, <1>2, <1>3, <1>4, <1>5, <1>6, <1>7, <1>8, <1>9 DEF Next

(* The deployment starts in the invariant. *)
LEMMA CustodyStart ==
    ASSUME Init
    PROVE  CustodyInv
<1>1. PICK q \in ValidatorSets : b3 = << Genesis(q) >>
  BY DEF Init
<1> DEFINE g == Genesis(q)
<1>2. /\ g \in B3State /\ g.epoch = 0 /\ g.tree = << >> /\ ~g.handover
  <2>1. SetHeader(0, q) \in Header /\ SetHeader(1, q) \in Header
    BY DEF SetHeader, Header
  <2>2. << >> \in Tree /\ {} \in SUBSET Nat
    BY DEF Tree
  <2> QED BY <2>1, <2>2 DEF Genesis, B3State
<1> HIDE DEF g
<1>3. b3 = << g >> /\ b3 \in Seq(B3State) /\ Len(b3) = 1 /\ b3[1] = g
  BY <1>1, <1>2 DEF g
<1>4. certs = {} /\ accepted = {}
  BY DEF Init
<1>5. /\ ~verifier.initialized /\ verifier.epoch = 0 /\ verifier.height = 0
      /\ verifier.current = {} /\ verifier.next = {} /\ verifier.root = {}
      /\ verifier.bridge_root = {} /\ verifier \in VerifierState
  BY DEF Init, VerifierState
<1>6. /\ vault.deposits = << >> /\ vault.locked = 0 /\ vault.released = {}
      /\ vault \in VaultState /\ now \in Nat
  BY DEF Init, VaultState
<1>7. TypeInv
  BY <1>3, <1>4, <1>5, <1>6 DEF TypeInv
<1>8. \A h \in 1 .. Len(b3) : b3[h] = g
  BY <1>3
<1>9. ChainInv(b3)
  <2>1. Inherits(g, g)
    BY <1>2, InheritsReflexive
  <2> QED BY <1>2, <1>3, <1>8, <2>1 DEF ChainInv
<1>10. \A h \in 1 .. Len(b3) : HandedAt(certs, b3, h)
  <2>1. \A e \in Nat : e + 1 # 0
    OBVIOUS
  <2> QED BY <1>2, <1>8, <2>1 DEF HandedAt
<1>11. CertInv
  BY <1>3, <1>4, <1>9, <1>10 DEF CertInv, Branch, SameSets, OneBranchPerSet
<1>12. VerifierInv /\ AcceptedBurnsReleasable
  BY <1>4, <1>5 DEF VerifierInv, AcceptedBurnsReleasable
<1>13. VaultInv
  <2>1. Leaves(verifier.root) = << >>
    BY <1>5 DEF Leaves
  <2>2. Paying(<< >>, {}) = << >>
    BY DEF Paying
  <2>3. TotalOf(<< >>) \in Int
    <3>1. << >> \in Seq(Int)
      OBVIOUS
    <3> QED BY <3>1, TotalInt
  <2> QED BY <1>6, <2>1, <2>2, <2>3 DEF VaultInv, VaultBalanced
<1> QED BY <1>7, <1>11, <1>12, <1>13 DEF CustodyInv

(* At every moment of every run the branches' lineages, the certificates, the
   verifier and the vault stand as CustodyInv says. *)
THEOREM CustodyInvariant == Spec => []CustodyInv
<1>1. Init => CustodyInv
  BY CustodyStart
<1>2. CustodyInv /\ [Next]_vars => CustodyInv'
  BY CustodyStep
<1> QED BY <1>1, <1>2, PTL DEF Spec

(* What the invariant says of the verifier's sets. *)
LEMMA LineageFollows ==
    ASSUME CustodyInv
    PROVE  VerifierFollowsLineage
<1> SUFFICES ASSUME verifier.initialized PROVE VerifierFollowsLineage
  BY DEF VerifierFollowsLineage
<1> DEFINE v == verifier
           Branches == {b3} \union {c.block : c \in certs}
<1>1. CertInv /\ accepted \subseteq certs /\ v.epoch \in Nat
  BY DEF CustodyInv, TypeInv, VerifierState
<1>2. \A b \in Branches : /\ Branch(certs, b) /\ b[1] = b3[1] /\ DOMAIN b = 1 .. Len(b)
  <2>1. Branch(certs, b3)
    BY <1>1 DEF CertInv
  <2>2. \A c \in certs : Branch(certs, c.block) /\ c.block[1] = b3[1]
    BY <1>1, CertState
  <2>3. \A b : Branch(certs, b) => DOMAIN b = 1 .. Len(b)
    BY DEF Branch
  <2> QED BY <2>1, <2>2, <2>3
<1>3. PICK a \in Branches : \E i \in 1 .. Len(a) :
         a[i].epoch = v.epoch /\ v.current = {a[i].current}
  <2>1. CASE v.epoch = 0 /\ v.current = {b3[1].current}
    <3>1. b3[1].epoch = 0 /\ 1 \in 1 .. Len(b3)
      BY <1>1 DEF CertInv, Branch, ChainInv
    <3> QED BY <2>1, <3>1
  <2>2. CASE \E c \in accepted : c.epoch = v.epoch /\ v.current = {c.signers}
    <3>1. PICK c \in accepted : c.epoch = v.epoch /\ v.current = {c.signers}
      BY <2>2
    <3>2. /\ Len(c.block) \in 1 .. Len(c.block)
          /\ c.epoch = c.block[Len(c.block)].epoch
          /\ c.signers = c.block[Len(c.block)].current
      BY <1>1, CertState
    <3>3. c.block \in Branches
      BY <1>1
    <3> QED BY <3>1, <3>2, <3>3
  <2> QED BY <2>1, <2>2 DEF CustodyInv, VerifierInv
<1>4. PICK k \in 1 .. Len(a) : a[k].epoch = v.epoch /\ v.current = {a[k].current}
  BY <1>3
<1>5. v.next = {} \/ \E c \in certs : c.epoch = v.epoch /\ v.next = {c.successor}
  BY <1>1 DEF CustodyInv, VerifierInv
<1> HIDE DEF Branches
<1>6. ASSUME NEW b \in Branches, NEW h \in 1 .. Len(b), b[h].epoch = v.epoch
      PROVE  v.current = {b[h].current}
  <2>1. /\ Branch(certs, a) /\ a[1] = b3[1] /\ Branch(certs, b) /\ b[1] = b3[1]
        /\ a[k].epoch = b[h].epoch /\ CertInv
    BY <1>1, <1>2, <1>4, <1>6
  <2>2. a[k].current = b[h].current
    BY <2>1, SameCurrent
  <2> QED BY <1>4, <2>2
<1>7. ASSUME NEW b \in Branches, NEW h \in 1 .. Len(b), b[h].epoch = v.epoch + 1
      PROVE  v.next \subseteq {b[h].current}
  <2>1. CASE v.next = {}
    BY <2>1
  <2>2. CASE \E c \in certs : c.epoch = v.epoch /\ v.next = {c.successor}
    <3>1. PICK c \in certs : c.epoch = v.epoch /\ v.next = {c.successor}
      BY <2>2
    <3>2. b[h].epoch # 0 /\ Branch(certs, b) /\ CertInv
      BY <1>1, <1>2, <1>7
    <3>3. PICK d \in certs : d.epoch + 1 = b[h].epoch /\ b[h].current = d.successor
      BY <3>2, HandedOver
    <3>4. d.epoch \in Nat
      BY <1>1, CertState
    <3>5. d.epoch = c.epoch
      BY <1>1, <1>7, <3>1, <3>3, <3>4
    <3>6. d.successor = c.successor
      BY <1>1, <3>5, SameSuccessor
    <3> QED BY <3>1, <3>3, <3>6
  <2> QED BY <1>5, <2>1, <2>2
<1>8. ASSUME NEW c \in certs, c.epoch = v.epoch PROVE v.next \subseteq {c.successor}
  <2>1. CASE v.next = {}
    BY <2>1
  <2>2. CASE \E d \in certs : d.epoch = v.epoch /\ v.next = {d.successor}
    <3>1. PICK d \in certs : d.epoch = v.epoch /\ v.next = {d.successor}
      BY <2>2
    <3>2. d.successor = c.successor
      BY <1>1, <1>8, <3>1, SameSuccessor
    <3> QED BY <3>1, <3>2
  <2> QED BY <1>5, <2>1, <2>2
<1> QED BY <1>2, <1>6, <1>7, <1>8, SMTT(30) DEF VerifierFollowsLineage, Branches

(* The verifier follows the lineage of B3's validator sets: on every branch the
   set of its epoch is the one it holds, and the set of the next epoch, and the
   successor in every certificate it could be given, is the one it expects,
   whichever certificates submitCertificate was given and in whichever order. *)
THEOREM LineageIsFollowed == Spec => []VerifierFollowsLineage
<1>1. CustodyInv => VerifierFollowsLineage
  BY LineageFollows
<1> QED BY <1>1, CustodyInvariant, PTL

(* No accepted certificate leaves a burn behind, whatever branch it is of: the
   root the vault releases from holds every burn under the latest root the
   verifier accepted, although a certificate by an unqualified set advances only
   the latter. *)
THEOREM BurnsStayReleasable == Spec => []AcceptedBurnsReleasable
<1>1. CustodyInv => AcceptedBurnsReleasable
  BY DEF CustodyInv
<1> QED BY <1>1, CustodyInvariant, PTL

(* The accepted blocks are of one branch, and the burns under the latest root
   are the first of the chain's, while those blocks are on the chain. *)
LEMMA RootOnChain ==
    ASSUME CustodyInv, AcceptedOnChain
    PROVE  LET F == Leaves(verifier.root)
               T == b3[Len(b3)].tree
           IN  /\ OneBranch /\ F \in Seq(Leaf) /\ T \in Seq(Leaf)
               /\ Len(F) <= Len(T) /\ \A i \in 1 .. Len(F) : T[i] = F[i]
<1> DEFINE F == Leaves(verifier.root)
           n == Len(b3)
           T == b3[n].tree
<1>1. /\ CertInv /\ accepted \subseteq certs /\ Branch(certs, b3)
      /\ b3 \in Seq(B3State) /\ n \in Nat /\ n \in 1 .. n
  BY DEF CustodyInv, CertInv, TypeInv
<1>2. \A c \in accepted : /\ c \in certs /\ c.block \in Seq(B3State)
                          /\ Len(c.block) \in Nat /\ Below(c.block, b3, n)
  <2> TAKE c \in accepted
  <2>1. c \in certs
    BY <1>1
  <2>2. c.block \in Seq(B3State) /\ Len(c.block) \in Nat
    BY <1>1, <2>1, CertState
  <2> QED BY <1>1, <2>1, <2>2, PrefixIs DEF AcceptedOnChain
<1>3. OneBranch
  <2> SUFFICES ASSUME NEW c \in accepted, NEW d \in accepted
               PROVE  Compatible(c.block, d.block)
    BY DEF OneBranch
  <2> DEFINE x == c.block
             y == d.block
  <2>1. /\ x \in Seq(B3State) /\ y \in Seq(B3State) /\ Len(x) \in Nat /\ Len(y) \in Nat
        /\ \A i \in 1 .. Len(x) : x[i] = b3[i]
        /\ \A i \in 1 .. Len(y) : y[i] = b3[i]
    BY <1>2 DEF Below
  <2> HIDE DEF x, y
  <2>2. CASE Len(x) <= Len(y)
    <3>1. \A i \in 1 .. Len(x) : i \in 1 .. Len(y)
      BY <2>1, <2>2
    <3>2. Below(x, y, Len(y))
      BY <2>1, <2>2, <3>1 DEF Below
    <3> QED BY <2>1, <3>2, CompatibleIs DEF x, y
  <2>3. CASE Len(y) <= Len(x)
    <3>1. \A i \in 1 .. Len(y) : i \in 1 .. Len(x)
      BY <2>1, <2>3
    <3>2. Below(y, x, Len(x))
      BY <2>1, <2>3, <3>1 DEF Below
    <3> QED BY <2>1, <3>2, CompatibleIs DEF x, y
  <2> QED BY <2>1, <2>2, <2>3
<1>4. F \in Seq(Leaf)
  BY RootLeaves
<1>5. T \in Seq(Leaf)
  BY <1>1, BranchStates
<1>6. Len(F) <= Len(T) /\ \A i \in 1 .. Len(F) : T[i] = F[i]
  <2>1. CASE accepted = {}
    <3>1. F = << >>
      BY <2>1 DEF CustodyInv, VerifierInv, Leaves
    <3> HIDE DEF F, T
    <3> QED BY <1>5, <3>1
  <2>2. CASE accepted # {}
    <3>1. PICK d \in accepted : d.root = verifier.root
      BY <2>2 DEF CustodyInv, VerifierInv
    <3> DEFINE k == Len(d.block)
    <3>2. F = d.block[k].tree
      BY <3>1, RootLeaves
    <3>3. k \in 1 .. k /\ k \in Nat
      BY <1>1, <3>1, CertState
    <3>4. k <= n /\ d.block[k] = b3[k]
      BY <1>2, <3>1, <3>3 DEF Below
    <3> HIDE DEF k, n
    <3>5. k \in 1 .. n /\ n \in 1 .. Len(b3)
      BY <1>1, <3>3, <3>4 DEF n
    <3>6. Inherits(b3[k], b3[n])
      BY <1>1, <3>5, BranchStates
    <3> QED BY <3>2, <3>4, <3>6 DEF Inherits
  <2> QED BY <2>1, <2>2
<1> QED BY <1>3, <1>4, <1>5, <1>6

(* What the invariant says of the tokens: the deposits split into minted and
   unminted ones, the burns into released and unreleased ones. *)
LEMMA BalanceFollows ==
    ASSUME CustodyInv
    PROVE  CustodyBalanced
<1> SUFFICES ASSUME AcceptedOnChain PROVE CustodyBalanced
  BY DEF CustodyBalanced
<1> DEFINE s == Last(b3)
           F == Leaves(verifier.root)
           T == s.tree
           D == vault.deposits
           R == vault.released
           minted     == [d \in DOMAIN D |-> IF d \in s.minted THEN D[d] ELSE 0]
           unminted   == [d \in DOMAIN D |-> IF d \in s.minted THEN 0 ELSE D[d]]
           burned     == [i \in DOMAIN T |-> T[i].amount]
           unreleased == [i \in DOMAIN T |-> IF i \in R THEN 0 ELSE T[i].amount]
           paid       == Paying(T, R)
<1>1. s = b3[Len(b3)]
  BY DEF Last
<1>2. /\ OneBranch /\ F \in Seq(Leaf) /\ T \in Seq(Leaf)
      /\ Len(F) <= Len(T) /\ \A i \in 1 .. Len(F) : T[i] = F[i]
  BY <1>1, RootOnChain
<1>3. D \in Seq(Int) /\ D \in Seq(Nat) /\ vault.locked \in Nat
  BY DEF CustodyInv, TypeInv, VaultState
<1>4. R \subseteq DOMAIN F /\ vault.locked + TotalOf(Paying(F, R)) = TotalOf(D)
  BY <1>2 DEF CustodyInv, VaultInv, VaultBalanced
<1>5. R \subseteq DOMAIN T
  BY <1>2, <1>4
<1> HIDE DEF F, T, D, R
<1>6. TotalOf(paid) = TotalOf(Paying(F, R))
  BY <1>2, <1>4, PayingGrows
<1>7. TotalOf(D) = TotalOf(unminted) + TotalOf(minted)
      /\ TotalOf(unminted) \in Int /\ TotalOf(minted) \in Int
  <2> HIDE DEF s
  <2>1. /\ unminted \in Seq(Int) /\ Len(unminted) = Len(D)
        /\ minted \in Seq(Int) /\ Len(minted) = Len(D)
    <3>1. DOMAIN D = 1 .. Len(D) /\ Len(D) \in Nat
      BY <1>3
    <3>2. \A i \in 1 .. Len(D) : /\ (IF i \in s.minted THEN 0 ELSE D[i]) \in Int
                                 /\ (IF i \in s.minted THEN D[i] ELSE 0) \in Int
      BY <1>3
    <3>3. unminted \in Seq(Int) /\ Len(unminted) = Len(D)
      BY <3>1, <3>2
    <3>4. minted \in Seq(Int) /\ Len(minted) = Len(D)
      BY <3>1, <3>2
    <3> QED BY <3>3, <3>4
  <2>2. \A i \in 1 .. Len(D) : D[i] = unminted[i] + minted[i]
    <3> TAKE i \in 1 .. Len(D)
    <3>1. D[i] \in Int /\ i \in DOMAIN D
      BY <1>3
    <3> QED BY <3>1
  <2> HIDE DEF unminted, minted
  <2> QED BY <1>3, <2>1, <2>2, TotalAdds
<1>8. TotalOf(burned) = TotalOf(unreleased) + TotalOf(paid)
      /\ TotalOf(unreleased) \in Int /\ TotalOf(paid) \in Int
  <2>1. \A i \in 1 .. Len(T) : T[i].amount \in Int
    <3> TAKE i \in 1 .. Len(T)
    <3>1. T[i] \in Leaf
      BY <1>2
    <3> QED BY <3>1 DEF Leaf
  <2>2. /\ unreleased \in Seq(Int) /\ Len(unreleased) = Len(T)
        /\ burned \in Seq(Int) /\ Len(burned) = Len(T)
    BY <1>2, <2>1, SMTT(30)
  <2>3. /\ paid \in Seq(Int) /\ Len(paid) = Len(T)
        /\ \A i \in 1 .. Len(T) : paid[i] = IF i \in R THEN T[i].amount ELSE 0
    BY <1>2, PayingIs
  <2>4. \A i \in 1 .. Len(T) : burned[i] = unreleased[i] + paid[i]
    <3> TAKE i \in 1 .. Len(T)
    <3>1. /\ burned[i] = T[i].amount /\ T[i].amount \in Int
          /\ unreleased[i] = IF i \in R THEN 0 ELSE T[i].amount
      BY <1>2, <2>1
    <3>2. paid[i] = IF i \in R THEN T[i].amount ELSE 0
      BY <2>3
    <3> HIDE DEF burned, unreleased, paid
    <3> QED BY <3>1, <3>2
  <2> HIDE DEF burned, unreleased, paid
  <2> QED BY <2>2, <2>3, <2>4, TotalAdds
<1>9. Supply(s, D) = TotalOf(minted) - TotalOf(burned)
  BY DEF Supply, T
<1> HIDE DEF minted, unminted, burned, unreleased, paid
<1>10. vault.locked = TotalOf(unminted) + Supply(s, D) + TotalOf(unreleased)
  <2> DEFINE x == TotalOf(unminted)
             y == TotalOf(minted)
             z == TotalOf(unreleased)
             w == TotalOf(paid)
  <2>1. x \in Int /\ y \in Int /\ z \in Int /\ w \in Int
    BY <1>7, <1>8
  <2>2. vault.locked + w = x + y /\ Supply(s, D) = y - (z + w)
    BY <1>4, <1>6, <1>7, <1>8, <1>9
  <2> HIDE DEF x, y, z, w
  <2>3. vault.locked = x + (y - (z + w)) + z
    BY <1>3, <2>1, <2>2
  <2> QED BY <2>2, <2>3 DEF x, z
<1> QED BY <1>5, <1>10
      DEF CustodyBalanced, minted, unminted, unreleased, T, D, R

(* While the accepted blocks are on the chain, every token in the vault is an
   unminted deposit, bUSD in circulation or a burn that waits for its release,
   across reorganisations of everything else, late and reordered certificates and
   releases by anyone. *)
THEOREM CustodyIsBalanced == Spec => []CustodyBalanced
<1>1. CustodyInv => CustodyBalanced
  BY BalanceFollows
<1> QED BY <1>1, CustodyInvariant, PTL
=============================================================================
