------------------------- MODULE BridgeStateProofs --------------------------
(***************************************************************************)
(* What TLAPS proves of BridgeState, for every chain, every light-client   *)
(* and cap configuration, every set of blocks and unbounded runs.          *)
(***************************************************************************)
EXTENDS BridgeState, NaturalFacts

-----------------------------------------------------------------------------
(* The loops of the model, each as the run of values it goes through.      *)

\* The scratch states of VerifyBlock after the first records.
IsVerified(f, n, s, records, at, time) ==
    f = [i \in 0 .. n |-> IF i = 0 THEN s
                          ELSE VerifyBridgeTransaction(f[i - 1], records[i], at, time)]

(* Verified is the last state of its run. *)
LEMMA VerifiedRuns ==
    ASSUME NEW s, NEW records, Len(records) \in Nat, NEW at, NEW time
    PROVE  \E f : IsVerified(f, Len(records), s, records, at, time) /\ Verified(s, records, at, time) = f[Len(records)]
<1> DEFINE Step(x, i) == VerifyBridgeTransaction(x, records[i], at, time)
           Run(f, n) == f = [i \in 0 .. n |-> IF i = 0 THEN s ELSE Step(f[i - 1], i)]
           T == {n \in 0 .. Len(records) : \E f : Run(f, n)}
<1>0. 0 \in Int /\ Len(records) \in Int /\ 0 <= Len(records)
  BY BridgeAssumption
<1> HIDE DEF Step
<1>1. 0 \in T
  <2> DEFINE f == [i \in 0 .. 0 |-> s]
  <2>1. Run(f, 0)
    BY <1>0
  <2> HIDE DEF f
  <2>2. \E e : Run(e, 0)
    BY <2>1
  <2> QED BY <1>0, <2>2
<1>2. ASSUME NEW n \in 0 .. Len(records), n # 0, n - 1 \in T PROVE n \in T
  <2>1. PICK f : Run(f, n - 1)
    BY <1>2
  <2> DEFINE h == [i \in 0 .. n |-> IF i < n THEN f[i] ELSE Step(f[n - 1], n)]
  <2>2. ASSUME NEW i \in 0 .. n
        PROVE  h[i] = IF i = 0 THEN s ELSE Step(h[i - 1], i)
    <3>1. CASE i = n
      <4>1. n - 1 \in 0 .. n /\ n - 1 < n /\ n \in 0 .. n /\ ~(n < n)
        BY <1>0, <1>2
      <4>2. h[n] = Step(f[n - 1], n) /\ h[n - 1] = f[n - 1]
        BY <4>1
      <4> QED BY <1>2, <3>1, <4>2
    <3>2. CASE i # n
      <4>1. i \in 0 .. (n - 1) /\ i < n
        BY <1>0, <2>2, <3>2
      <4>2. f[i] = IF i = 0 THEN s ELSE Step(f[i - 1], i)
        BY <2>1, <4>1
      <4>3. i # 0 => h[i - 1] = f[i - 1]
        BY <1>0, <2>2, <4>1
      <4> QED BY <2>2, <4>1, <4>2, <4>3
    <3> QED BY <3>1, <3>2
  <2>3. h = [i \in 0 .. n |-> h[i]]
    OBVIOUS
  <2> HIDE DEF h
  <2>4. Run(h, n)
    BY <2>2, <2>3
  <2> QED BY <2>4
<1>3. \A n \in 0 .. Len(records) : n # 0 /\ n - 1 \in T => n \in T
  BY <1>2
<1>4. Len(records) \in 0 .. Len(records)
  BY <1>0
<1>5. \E f : Run(f, Len(records))
  <2>1. Len(records) \in T
    <3> HIDE DEF T
    <3> QED BY <1>0, <1>1, <1>3, <1>4, InductionUpTo
  <2> QED BY <2>1
<1>6. \E f : IsVerified(f, Len(records), s, records, at, time)
  BY <1>5 DEF Step, IsVerified
<1> DEFINE g == CHOOSE f : IsVerified(f, Len(records), s, records, at, time)
<1>7. IsVerified(g, Len(records), s, records, at, time)
  BY <1>6
<1>8. Verified(s, records, at, time) = g[Len(records)]
  BY DEF Verified, IsVerified
<1> QED BY <1>7, <1>8

\* The partial sums of the mints of a block.
IsMinted(f, n, records) ==
    f = [i \in 0 .. n |-> IF i = 0 THEN 0
                          ELSE f[i - 1] + IF records[i].kind = "MINT"
                                          THEN Deposits[records[i].deposit].amount ELSE 0]

(* MintedIn is the last of its partial sums. *)
LEMMA MintedInRuns ==
    ASSUME NEW records, Len(records) \in Nat
    PROVE  \E f : IsMinted(f, Len(records), records) /\ MintedIn(records) = f[Len(records)]
<1> DEFINE Step(x, i) == x + IF records[i].kind = "MINT" THEN Deposits[records[i].deposit].amount ELSE 0
           Run(f, n) == f = [i \in 0 .. n |-> IF i = 0 THEN 0 ELSE Step(f[i - 1], i)]
           T == {n \in 0 .. Len(records) : \E f : Run(f, n)}
<1>0. 0 \in Int /\ Len(records) \in Int /\ 0 <= Len(records)
  BY BridgeAssumption
<1> HIDE DEF Step
<1>1. 0 \in T
  <2> DEFINE f == [i \in 0 .. 0 |-> 0]
  <2>1. Run(f, 0)
    BY <1>0
  <2> HIDE DEF f
  <2>2. \E e : Run(e, 0)
    BY <2>1
  <2> QED BY <1>0, <2>2
<1>2. ASSUME NEW n \in 0 .. Len(records), n # 0, n - 1 \in T PROVE n \in T
  <2>1. PICK f : Run(f, n - 1)
    BY <1>2
  <2> DEFINE h == [i \in 0 .. n |-> IF i < n THEN f[i] ELSE Step(f[n - 1], n)]
  <2>2. ASSUME NEW i \in 0 .. n
        PROVE  h[i] = IF i = 0 THEN 0 ELSE Step(h[i - 1], i)
    <3>1. CASE i = n
      <4>1. n - 1 \in 0 .. n /\ n - 1 < n /\ n \in 0 .. n /\ ~(n < n)
        BY <1>0, <1>2
      <4>2. h[n] = Step(f[n - 1], n) /\ h[n - 1] = f[n - 1]
        BY <4>1
      <4> QED BY <1>2, <3>1, <4>2
    <3>2. CASE i # n
      <4>1. i \in 0 .. (n - 1) /\ i < n
        BY <1>0, <2>2, <3>2
      <4>2. f[i] = IF i = 0 THEN 0 ELSE Step(f[i - 1], i)
        BY <2>1, <4>1
      <4>3. i # 0 => h[i - 1] = f[i - 1]
        BY <1>0, <2>2, <4>1
      <4> QED BY <2>2, <4>1, <4>2, <4>3
    <3> QED BY <3>1, <3>2
  <2>3. h = [i \in 0 .. n |-> h[i]]
    OBVIOUS
  <2> HIDE DEF h
  <2>4. Run(h, n)
    BY <2>2, <2>3
  <2> QED BY <2>4
<1>3. \A n \in 0 .. Len(records) : n # 0 /\ n - 1 \in T => n \in T
  BY <1>2
<1>4. Len(records) \in 0 .. Len(records)
  BY <1>0
<1>5. \E f : Run(f, Len(records))
  <2>1. Len(records) \in T
    <3> HIDE DEF T
    <3> QED BY <1>0, <1>1, <1>3, <1>4, InductionUpTo
  <2> QED BY <2>1
<1>6. \E f : IsMinted(f, Len(records), records)
  BY <1>5 DEF Step, IsMinted
<1> DEFINE g == CHOOSE f : IsMinted(f, Len(records), records)
<1>7. IsMinted(g, Len(records), records)
  BY <1>6
<1>8. MintedIn(records) = g[Len(records)]
  BY DEF MintedIn, IsMinted
<1> QED BY <1>7, <1>8

\* The partial sums of the mints of an epoch.
IsEpochMinted(f, n, c, epoch) ==
    f = [i \in 0 .. n |-> IF i = 0 THEN 0
                          ELSE f[i - 1] + IF i >= Activation /\ BridgeEpoch(i) = epoch
                                          THEN MintedIn(c[i].records) ELSE 0]

(* MintedInEpoch is the last of its partial sums. *)
LEMMA MintedInEpochRuns ==
    ASSUME NEW c, Len(c) \in Nat, NEW epoch
    PROVE  \E f : IsEpochMinted(f, Len(c), c, epoch) /\ MintedInEpoch(c, epoch) = f[Len(c)]
<1> DEFINE Step(x, i) == x + IF i >= Activation /\ BridgeEpoch(i) = epoch THEN MintedIn(c[i].records) ELSE 0
           Run(f, n) == f = [i \in 0 .. n |-> IF i = 0 THEN 0 ELSE Step(f[i - 1], i)]
           T == {n \in 0 .. Len(c) : \E f : Run(f, n)}
<1>0. 0 \in Int /\ Len(c) \in Int /\ 0 <= Len(c)
  BY BridgeAssumption
<1> HIDE DEF Step
<1>1. 0 \in T
  <2> DEFINE f == [i \in 0 .. 0 |-> 0]
  <2>1. Run(f, 0)
    BY <1>0
  <2> HIDE DEF f
  <2>2. \E e : Run(e, 0)
    BY <2>1
  <2> QED BY <1>0, <2>2
<1>2. ASSUME NEW n \in 0 .. Len(c), n # 0, n - 1 \in T PROVE n \in T
  <2>1. PICK f : Run(f, n - 1)
    BY <1>2
  <2> DEFINE h == [i \in 0 .. n |-> IF i < n THEN f[i] ELSE Step(f[n - 1], n)]
  <2>2. ASSUME NEW i \in 0 .. n
        PROVE  h[i] = IF i = 0 THEN 0 ELSE Step(h[i - 1], i)
    <3>1. CASE i = n
      <4>1. n - 1 \in 0 .. n /\ n - 1 < n /\ n \in 0 .. n /\ ~(n < n)
        BY <1>0, <1>2
      <4>2. h[n] = Step(f[n - 1], n) /\ h[n - 1] = f[n - 1]
        BY <4>1
      <4> QED BY <1>2, <3>1, <4>2
    <3>2. CASE i # n
      <4>1. i \in 0 .. (n - 1) /\ i < n
        BY <1>0, <2>2, <3>2
      <4>2. f[i] = IF i = 0 THEN 0 ELSE Step(f[i - 1], i)
        BY <2>1, <4>1
      <4>3. i # 0 => h[i - 1] = f[i - 1]
        BY <1>0, <2>2, <4>1
      <4> QED BY <2>2, <4>1, <4>2, <4>3
    <3> QED BY <3>1, <3>2
  <2>3. h = [i \in 0 .. n |-> h[i]]
    OBVIOUS
  <2> HIDE DEF h
  <2>4. Run(h, n)
    BY <2>2, <2>3
  <2> QED BY <2>4
<1>3. \A n \in 0 .. Len(c) : n # 0 /\ n - 1 \in T => n \in T
  BY <1>2
<1>4. Len(c) \in 0 .. Len(c)
  BY <1>0
<1>5. \E f : Run(f, Len(c))
  <2>1. Len(c) \in T
    <3> HIDE DEF T
    <3> QED BY <1>0, <1>1, <1>3, <1>4, InductionUpTo
  <2> QED BY <2>1
<1>6. \E f : IsEpochMinted(f, Len(c), c, epoch)
  BY <1>5 DEF Step, IsEpochMinted
<1> DEFINE g == CHOOSE f : IsEpochMinted(f, Len(c), c, epoch)
<1>7. IsEpochMinted(g, Len(c), c, epoch)
  BY <1>6
<1>8. MintedInEpoch(c, epoch) = g[Len(c)]
  BY DEF MintedInEpoch, IsEpochMinted
<1> QED BY <1>7, <1>8

\* The leaves after the first records of a block.
IsBurned(f, n, before, records, height) ==
    f = [i \in 0 .. n |-> IF i = 0 THEN before
                          ELSE IF records[i].kind = "BURN"
                          THEN Append(f[i - 1], [source |-> records[i].source, height |-> height])
                          ELSE f[i - 1]]

(* BurnedIn is the last list of its run. *)
LEMMA BurnedInRuns ==
    ASSUME NEW before, NEW records, Len(records) \in Nat, NEW height
    PROVE  \E f : IsBurned(f, Len(records), before, records, height) /\ BurnedIn(before, records, height) = f[Len(records)]
<1> DEFINE Step(x, i) == IF records[i].kind = "BURN" THEN Append(x, [source |-> records[i].source, height |-> height]) ELSE x
           Run(f, n) == f = [i \in 0 .. n |-> IF i = 0 THEN before ELSE Step(f[i - 1], i)]
           T == {n \in 0 .. Len(records) : \E f : Run(f, n)}
<1>0. 0 \in Int /\ Len(records) \in Int /\ 0 <= Len(records)
  BY BridgeAssumption
<1> HIDE DEF Step
<1>1. 0 \in T
  <2> DEFINE f == [i \in 0 .. 0 |-> before]
  <2>1. Run(f, 0)
    BY <1>0
  <2> HIDE DEF f
  <2>2. \E e : Run(e, 0)
    BY <2>1
  <2> QED BY <1>0, <2>2
<1>2. ASSUME NEW n \in 0 .. Len(records), n # 0, n - 1 \in T PROVE n \in T
  <2>1. PICK f : Run(f, n - 1)
    BY <1>2
  <2> DEFINE h == [i \in 0 .. n |-> IF i < n THEN f[i] ELSE Step(f[n - 1], n)]
  <2>2. ASSUME NEW i \in 0 .. n
        PROVE  h[i] = IF i = 0 THEN before ELSE Step(h[i - 1], i)
    <3>1. CASE i = n
      <4>1. n - 1 \in 0 .. n /\ n - 1 < n /\ n \in 0 .. n /\ ~(n < n)
        BY <1>0, <1>2
      <4>2. h[n] = Step(f[n - 1], n) /\ h[n - 1] = f[n - 1]
        BY <4>1
      <4> QED BY <1>2, <3>1, <4>2
    <3>2. CASE i # n
      <4>1. i \in 0 .. (n - 1) /\ i < n
        BY <1>0, <2>2, <3>2
      <4>2. f[i] = IF i = 0 THEN before ELSE Step(f[i - 1], i)
        BY <2>1, <4>1
      <4>3. i # 0 => h[i - 1] = f[i - 1]
        BY <1>0, <2>2, <4>1
      <4> QED BY <2>2, <4>1, <4>2, <4>3
    <3> QED BY <3>1, <3>2
  <2>3. h = [i \in 0 .. n |-> h[i]]
    OBVIOUS
  <2> HIDE DEF h
  <2>4. Run(h, n)
    BY <2>2, <2>3
  <2> QED BY <2>4
<1>3. \A n \in 0 .. Len(records) : n # 0 /\ n - 1 \in T => n \in T
  BY <1>2
<1>4. Len(records) \in 0 .. Len(records)
  BY <1>0
<1>5. \E f : Run(f, Len(records))
  <2>1. Len(records) \in T
    <3> HIDE DEF T
    <3> QED BY <1>0, <1>1, <1>3, <1>4, InductionUpTo
  <2> QED BY <2>1
<1>6. \E f : IsBurned(f, Len(records), before, records, height)
  BY <1>5 DEF Step, IsBurned
<1> DEFINE g == CHOOSE f : IsBurned(f, Len(records), before, records, height)
<1>7. IsBurned(g, Len(records), before, records, height)
  BY <1>6
<1>8. BurnedIn(before, records, height) = g[Len(records)]
  BY DEF BurnedIn, IsBurned
<1> QED BY <1>7, <1>8

\* The leaves after the first blocks of a chain.
IsChainBurned(f, n, c) ==
    f = [i \in 0 .. n |-> IF i = 0 THEN << >> ELSE BurnedIn(f[i - 1], c[i].records, i)]

(* Burned is the last list of its run. *)
LEMMA BurnedRuns ==
    ASSUME NEW c, Len(c) \in Nat
    PROVE  \E f : IsChainBurned(f, Len(c), c) /\ Burned(c) = f[Len(c)]
<1> DEFINE Step(x, i) == BurnedIn(x, c[i].records, i)
           Run(f, n) == f = [i \in 0 .. n |-> IF i = 0 THEN << >> ELSE Step(f[i - 1], i)]
           T == {n \in 0 .. Len(c) : \E f : Run(f, n)}
<1>0. 0 \in Int /\ Len(c) \in Int /\ 0 <= Len(c)
  BY BridgeAssumption
<1> HIDE DEF Step
<1>1. 0 \in T
  <2> DEFINE f == [i \in 0 .. 0 |-> << >>]
  <2>1. Run(f, 0)
    BY <1>0
  <2> HIDE DEF f
  <2>2. \E e : Run(e, 0)
    BY <2>1
  <2> QED BY <1>0, <2>2
<1>2. ASSUME NEW n \in 0 .. Len(c), n # 0, n - 1 \in T PROVE n \in T
  <2>1. PICK f : Run(f, n - 1)
    BY <1>2
  <2> DEFINE h == [i \in 0 .. n |-> IF i < n THEN f[i] ELSE Step(f[n - 1], n)]
  <2>2. ASSUME NEW i \in 0 .. n
        PROVE  h[i] = IF i = 0 THEN << >> ELSE Step(h[i - 1], i)
    <3>1. CASE i = n
      <4>1. n - 1 \in 0 .. n /\ n - 1 < n /\ n \in 0 .. n /\ ~(n < n)
        BY <1>0, <1>2
      <4>2. h[n] = Step(f[n - 1], n) /\ h[n - 1] = f[n - 1]
        BY <4>1
      <4> QED BY <1>2, <3>1, <4>2
    <3>2. CASE i # n
      <4>1. i \in 0 .. (n - 1) /\ i < n
        BY <1>0, <2>2, <3>2
      <4>2. f[i] = IF i = 0 THEN << >> ELSE Step(f[i - 1], i)
        BY <2>1, <4>1
      <4>3. i # 0 => h[i - 1] = f[i - 1]
        BY <1>0, <2>2, <4>1
      <4> QED BY <2>2, <4>1, <4>2, <4>3
    <3> QED BY <3>1, <3>2
  <2>3. h = [i \in 0 .. n |-> h[i]]
    OBVIOUS
  <2> HIDE DEF h
  <2>4. Run(h, n)
    BY <2>2, <2>3
  <2> QED BY <2>4
<1>3. \A n \in 0 .. Len(c) : n # 0 /\ n - 1 \in T => n \in T
  BY <1>2
<1>4. Len(c) \in 0 .. Len(c)
  BY <1>0
<1>5. \E f : Run(f, Len(c))
  <2>1. Len(c) \in T
    <3> HIDE DEF T
    <3> QED BY <1>0, <1>1, <1>3, <1>4, InductionUpTo
  <2> QED BY <2>1
<1>6. \E f : IsChainBurned(f, Len(c), c)
  BY <1>5 DEF Step, IsChainBurned
<1> DEFINE g == CHOOSE f : IsChainBurned(f, Len(c), c)
<1>7. IsChainBurned(g, Len(c), c)
  BY <1>6
<1>8. Burned(c) = g[Len(c)]
  BY DEF Burned, IsChainBurned
<1> QED BY <1>7, <1>8

\* What a replay has reached after the blocks up to a height.
IsReplayed(f, n, idx, c, from) ==
    f = [i \in from .. n |-> IF i = from THEN {idx}
                             ELSE UNION {ApplyBlock(j, Hash(c, i)) : j \in f[i - 1]}]

(* Replay is the last set of its run. *)
LEMMA ReplayRuns ==
    ASSUME NEW idx, NEW c, Len(c) \in Nat, NEW from \in Nat, from <= Len(c)
    PROVE  \E f : IsReplayed(f, Len(c), idx, c, from) /\ Replay(idx, c, from) = f[Len(c)]
<1> DEFINE Step(x, i) == UNION {ApplyBlock(j, Hash(c, i)) : j \in x}
           Run(f, n) == f = [i \in from .. n |-> IF i = from THEN {idx} ELSE Step(f[i - 1], i)]
           T == {n \in from .. Len(c) : \E f : Run(f, n)}
<1>0. from \in Int /\ Len(c) \in Int /\ from <= Len(c)
  BY BridgeAssumption
<1> HIDE DEF Step
<1>1. from \in T
  <2> DEFINE f == [i \in from .. from |-> {idx}]
  <2>1. Run(f, from)
    BY <1>0
  <2> HIDE DEF f
  <2>2. \E e : Run(e, from)
    BY <2>1
  <2> QED BY <1>0, <2>2
<1>2. ASSUME NEW n \in from .. Len(c), n # from, n - 1 \in T PROVE n \in T
  <2>1. PICK f : Run(f, n - 1)
    BY <1>2
  <2> DEFINE h == [i \in from .. n |-> IF i < n THEN f[i] ELSE Step(f[n - 1], n)]
  <2>2. ASSUME NEW i \in from .. n
        PROVE  h[i] = IF i = from THEN {idx} ELSE Step(h[i - 1], i)
    <3>1. CASE i = n
      <4>1. n - 1 \in from .. n /\ n - 1 < n /\ n \in from .. n /\ ~(n < n)
        BY <1>0, <1>2
      <4>2. h[n] = Step(f[n - 1], n) /\ h[n - 1] = f[n - 1]
        BY <4>1
      <4> QED BY <1>2, <3>1, <4>2
    <3>2. CASE i # n
      <4>1. i \in from .. (n - 1) /\ i < n
        BY <1>0, <2>2, <3>2
      <4>2. f[i] = IF i = from THEN {idx} ELSE Step(f[i - 1], i)
        BY <2>1, <4>1
      <4>3. i # from => h[i - 1] = f[i - 1]
        BY <1>0, <2>2, <4>1
      <4> QED BY <2>2, <4>1, <4>2, <4>3
    <3> QED BY <3>1, <3>2
  <2>3. h = [i \in from .. n |-> h[i]]
    OBVIOUS
  <2> HIDE DEF h
  <2>4. Run(h, n)
    BY <2>2, <2>3
  <2> QED BY <2>4
<1>3. \A n \in from .. Len(c) : n # from /\ n - 1 \in T => n \in T
  BY <1>2
<1>4. Len(c) \in from .. Len(c)
  BY <1>0
<1>5. \E f : Run(f, Len(c))
  <2>1. Len(c) \in T
    <3> HIDE DEF T
    <3> QED BY <1>0, <1>1, <1>3, <1>4, InductionUpTo
  <2> QED BY <2>1
<1>6. \E f : IsReplayed(f, Len(c), idx, c, from)
  BY <1>5 DEF Step, IsReplayed
<1> DEFINE g == CHOOSE f : IsReplayed(f, Len(c), idx, c, from)
<1>7. IsReplayed(g, Len(c), idx, c, from)
  BY <1>6
<1>8. Replay(idx, c, from) = g[Len(c)]
  BY DEF Replay, IsReplayed
<1> QED BY <1>7, <1>8

\* The previews after the first packages.
IsAssembled(f, n, idx, packages, at, time) ==
    f = [i \in 0 .. n |-> IF i = 0 THEN [state |-> Scratch(idx), records |-> << >>]
                          ELSE TryAppend(f[i - 1], packages[i], at, time)]

(* Assembled are the records of the last preview of its run. *)
LEMMA AssembledRuns ==
    ASSUME NEW idx, NEW packages, Len(packages) \in Nat, NEW at, NEW time
    PROVE  \E f : IsAssembled(f, Len(packages), idx, packages, at, time) /\ Assembled(idx, packages, at, time) = f[Len(packages)].records
<1> DEFINE Step(x, i) == TryAppend(x, packages[i], at, time)
           Run(f, n) == f = [i \in 0 .. n |-> IF i = 0 THEN [state |-> Scratch(idx), records |-> << >>] ELSE Step(f[i - 1], i)]
           T == {n \in 0 .. Len(packages) : \E f : Run(f, n)}
<1>0. 0 \in Int /\ Len(packages) \in Int /\ 0 <= Len(packages)
  BY BridgeAssumption
<1> HIDE DEF Step
<1>1. 0 \in T
  <2> DEFINE f == [i \in 0 .. 0 |-> [state |-> Scratch(idx), records |-> << >>]]
  <2>1. Run(f, 0)
    BY <1>0
  <2> HIDE DEF f
  <2>2. \E e : Run(e, 0)
    BY <2>1
  <2> QED BY <1>0, <2>2
<1>2. ASSUME NEW n \in 0 .. Len(packages), n # 0, n - 1 \in T PROVE n \in T
  <2>1. PICK f : Run(f, n - 1)
    BY <1>2
  <2> DEFINE h == [i \in 0 .. n |-> IF i < n THEN f[i] ELSE Step(f[n - 1], n)]
  <2>2. ASSUME NEW i \in 0 .. n
        PROVE  h[i] = IF i = 0 THEN [state |-> Scratch(idx), records |-> << >>] ELSE Step(h[i - 1], i)
    <3>1. CASE i = n
      <4>1. n - 1 \in 0 .. n /\ n - 1 < n /\ n \in 0 .. n /\ ~(n < n)
        BY <1>0, <1>2
      <4>2. h[n] = Step(f[n - 1], n) /\ h[n - 1] = f[n - 1]
        BY <4>1
      <4> QED BY <1>2, <3>1, <4>2
    <3>2. CASE i # n
      <4>1. i \in 0 .. (n - 1) /\ i < n
        BY <1>0, <2>2, <3>2
      <4>2. f[i] = IF i = 0 THEN [state |-> Scratch(idx), records |-> << >>] ELSE Step(f[i - 1], i)
        BY <2>1, <4>1
      <4>3. i # 0 => h[i - 1] = f[i - 1]
        BY <1>0, <2>2, <4>1
      <4> QED BY <2>2, <4>1, <4>2, <4>3
    <3> QED BY <3>1, <3>2
  <2>3. h = [i \in 0 .. n |-> h[i]]
    OBVIOUS
  <2> HIDE DEF h
  <2>4. Run(h, n)
    BY <2>2, <2>3
  <2> QED BY <2>4
<1>3. \A n \in 0 .. Len(packages) : n # 0 /\ n - 1 \in T => n \in T
  BY <1>2
<1>4. Len(packages) \in 0 .. Len(packages)
  BY <1>0
<1>5. \E f : Run(f, Len(packages))
  <2>1. Len(packages) \in T
    <3> HIDE DEF T
    <3> QED BY <1>0, <1>1, <1>3, <1>4, InductionUpTo
  <2> QED BY <2>1
<1>6. \E f : IsAssembled(f, Len(packages), idx, packages, at, time)
  BY <1>5 DEF Step, IsAssembled
<1> DEFINE g == CHOOSE f : IsAssembled(f, Len(packages), idx, packages, at, time)
<1>7. IsAssembled(g, Len(packages), idx, packages, at, time)
  BY <1>6
<1>8. Assembled(idx, packages, at, time) = g[Len(packages)].records
  BY DEF Assembled, IsAssembled
<1> QED BY <1>7, <1>8

-----------------------------------------------------------------------------
(* Chains, maps and records.                                               *)

\* A function with nothing but its values.
IsMap(f) == f = [k \in DOMAIN f |-> f[k]]

IsIndex(P) ==
    DOMAIN P = {"client", "connection", "floor", "anchors", "nullifiers", "minted",
                "tree", "roots", "tip", "history"}

IsScratch(s) ==
    /\ DOMAIN s = {"client", "anchors", "nullifiers_base", "nullifiers_overlay",
                   "minted", "minted_this_block", "tree", "ok"}
    /\ s.ok \in BOOLEAN

(* What the hashes of a chain's blocks are: its prefixes. *)
LEMMA HashFacts ==
    ASSUME NEW X, NEW c \in Seq(X), NEW h \in 0 .. Len(c)
    PROVE  /\ Hash(c, h) \in Seq(X) /\ Len(Hash(c, h)) = h
           /\ \A g \in 1 .. h : Hash(c, h)[g] = c[g]
           /\ \A g \in 0 .. h : Hash(Hash(c, h), g) = Hash(c, g)
           /\ Hash(c, Len(c)) = c
<1>1. /\ Hash(c, h) \in Seq(X) /\ Len(Hash(c, h)) = h
      /\ \A g \in 1 .. h : Hash(c, h)[g] = c[g]
  BY DEF Hash
<1>2. ASSUME NEW g \in 0 .. h PROVE Hash(Hash(c, h), g) = Hash(c, g)
  <2>1. g \in 0 .. Len(c) /\ g \in 0 .. Len(Hash(c, h))
    BY <1>1, <1>2
  <2> DEFINE a == Hash(c, h)
  <2>2. a \in Seq(X) /\ \A i \in 1 .. g : a[i] = c[i]
    BY <1>1, <1>2
  <2>3. Len(Hash(a, g)) = g /\ Len(Hash(c, g)) = g
    BY <1>1, <2>1 DEF Hash
  <2>4. \A i \in 1 .. g : Hash(a, g)[i] = c[i] /\ Hash(c, g)[i] = c[i]
    <3> TAKE i \in 1 .. g
    <3> HIDE DEF a
    <3>1. Hash(a, g)[i] = a[i]
      BY <1>1, <2>1, <2>2 DEF Hash, a
    <3>2. Hash(c, g)[i] = c[i]
      BY <2>1 DEF Hash
    <3> QED BY <2>2, <3>1, <3>2
  <2>5. Hash(a, g) \in Seq(X) /\ Hash(c, g) \in Seq(X)
    BY <1>1, <2>1 DEF Hash
  <2> HIDE DEF a
  <2> QED BY <2>3, <2>4, <2>5 DEF a
<1>3. Hash(c, Len(c)) = c
  BY DEF Hash
<1> QED BY <1>1, <1>2, <1>3

(* A longer chain has the hashes of the chain it extends. *)
LEMMA HashOfAppend ==
    ASSUME NEW X, NEW c \in Seq(X), NEW b \in X
    PROVE  /\ Append(c, b) \in Seq(X) /\ Len(Append(c, b)) = Len(c) + 1
           /\ \A h \in 0 .. Len(c) : Hash(Append(c, b), h) = Hash(c, h)
           /\ Hash(Append(c, b), Len(c) + 1) = Append(c, b)
           /\ Last(Append(c, b)) = b /\ Front(Append(c, b)) = c
<1>1. Append(c, b) \in Seq(X) /\ Len(Append(c, b)) = Len(c) + 1
  OBVIOUS
<1>2. \A h \in 0 .. Len(c) : Hash(Append(c, b), h) = Hash(c, h)
  BY DEF Hash
<1>3. Hash(Append(c, b), Len(c) + 1) = Append(c, b)
  BY DEF Hash
<1>4. Last(Append(c, b)) = b /\ Front(Append(c, b)) = c
  BY DEF Last, Front
<1> QED BY <1>1, <1>2, <1>3, <1>4

(* So has the chain without its last block. *)
LEMMA HashOfFront ==
    ASSUME NEW X, NEW c \in Seq(X), c # << >>
    PROVE  /\ Len(c) \in Nat \ {0}
           /\ Front(c) \in Seq(X) /\ Len(Front(c)) = Len(c) - 1
           /\ Front(c) = Hash(c, Len(c) - 1)
           /\ \A g \in 1 .. Len(c) - 1 : Front(c)[g] = c[g]
           /\ \A h \in 0 .. Len(c) - 1 : Hash(Front(c), h) = Hash(c, h)
<1>1. Len(c) \in Nat \ {0}
  OBVIOUS
<1>2. Front(c) = Hash(c, Len(c) - 1) /\ Len(c) - 1 \in 0 .. Len(c)
  BY <1>1 DEF Front, Hash
<1> DEFINE h == Len(c) - 1
           a == Hash(c, h)
<1>3. h \in 0 .. Len(c)
  BY <1>2
<1> HIDE DEF h
<1>4. /\ a \in Seq(X) /\ Len(a) = h
      /\ \A g \in 1 .. h : a[g] = c[g]
      /\ \A g \in 0 .. h : Hash(a, g) = Hash(c, g)
  BY <1>3, HashFacts
<1>5. Front(c) = a
  BY <1>2 DEF h
<1> HIDE DEF a
<1> QED BY <1>1, <1>2, <1>4, <1>5 DEF h

(* Adding entries to a map and removing them again. *)
LEMMA WithWithout ==
    ASSUME NEW f, IsMap(f), NEW g, IsMap(g), DOMAIN f \intersect DOMAIN g = {}
    PROVE  Without(With(f, g), DOMAIN g) = f
<1>1. DOMAIN With(f, g) \ DOMAIN g = DOMAIN f
  BY DEF With
<1>2. \A k \in DOMAIN f : With(f, g)[k] = f[k]
  BY DEF With
<1> QED BY <1>1, <1>2 DEF Without, Restrict, IsMap

(* What a map with further entries holds. *)
LEMMA WithFacts ==
    ASSUME NEW f, NEW g
    PROVE  /\ IsMap(With(f, g)) /\ DOMAIN With(f, g) = DOMAIN f \union DOMAIN g
           /\ \A k \in DOMAIN g : With(f, g)[k] = g[k]
           /\ \A k \in DOMAIN f : k \notin DOMAIN g => With(f, g)[k] = f[k]
BY DEF With, IsMap

\* m is f with the entries of g.
IsWith(m, f, g) ==
    /\ DOMAIN m = DOMAIN f \union DOMAIN g
    /\ \A k \in DOMAIN g : m[k] = g[k]
    /\ \A k \in DOMAIN f : k \notin DOMAIN g => m[k] = f[k]

LEMMA WithIs ==
    ASSUME NEW f, NEW g
    PROVE  IsWith(With(f, g), f, g)
BY DEF With, IsWith

-----------------------------------------------------------------------------
(* The light client and its anchors.                                       *)

Store == [block : Nat, period : Nat, current : Nat, next : SUBSET Nat]

\* A store with the committees of its period.
StoreOK(store) ==
    /\ store \in Store
    /\ store.current = store.period /\ Period(store.block) = store.period
    /\ store.next \subseteq {store.period + 1}

\* An anchor from which a deposit in block b can be proved.
Reaches(anchors, a, b) ==
    /\ a >= b /\ b <= anchors[a].source /\ anchors[a].source - b <= MaxBackfill

\* The light client at height h: at most one store, with anchors of blocks up
\* to its head, all from B3 blocks up to h, that leave no deposit behind.
LightOK(client, anchors, h) ==
    /\ client = {} \/ \E store : client = {store} /\ StoreOK(store)
    /\ IsMap(anchors) /\ DOMAIN anchors \subseteq Nat
    /\ \A a \in DOMAIN anchors : /\ anchors[a].source \in Nat
                                 /\ Len(anchors[a].at) \in 0 .. h
    /\ client = {} => DOMAIN anchors = {}
    /\ \A store \in client :
           /\ \A a \in DOMAIN anchors : a <= store.block
           /\ \A b \in Deployment .. store.block :
                  \E a \in DOMAIN anchors : Reaches(anchors, a, b)

Extends(anchors, before) ==
    /\ DOMAIN before \subseteq DOMAIN anchors
    /\ \A a \in DOMAIN before : anchors[a] = before[a]

(* The period of a slot is a number. *)
LEMMA PeriodType ==
    ASSUME NEW slot \in Nat
    PROVE  Period(slot) \in Nat
BY BridgeAssumption DEF Period

(* The pinned checkpoint starts a store with the committee of its period. *)
LEMMA InitStoreOK ==
    StoreOK(InitStore) /\ InitStore.block = Checkpoint
<1>1. Checkpoint \in Nat
  BY BridgeAssumption
<1> QED BY <1>1, PeriodType DEF InitStore, StoreOK, Store

(* A verified update keeps the committees of the store's period, and only
   moves its head forward. *)
LEMMA ProcessUpdateOK ==
    ASSUME NEW store, StoreOK(store), NEW u, {u.finalized, u.attested, u.signature} \subseteq Nat,
           u.next \in BOOLEAN, UpdateVerifies(store, u)
    PROVE  /\ StoreOK(ProcessUpdate(store, u))
           /\ store.block <= ProcessUpdate(store, u).block
<1> DEFINE new == ProcessUpdate(store, u)
           F == Period(u.finalized)
           A == Period(u.attested)
           rotates == F = store.period + 1
           period == IF rotates THEN store.period + 1 ELSE store.period
           learned == {q + 1 : q \in {q \in {A} : u.next /\ q = period}}
           kept == IF rotates THEN {} ELSE store.next
<1>1. /\ store.block \in Nat /\ store.period \in Nat /\ store.current = store.period
      /\ store.next \in SUBSET Nat /\ store.next \subseteq {store.period + 1}
      /\ Period(store.block) = store.period
  BY DEF StoreOK, Store
<1>2. F \in Nat /\ A \in Nat /\ u.finalized \in Nat
  BY PeriodType
<1>3. /\ F \in {store.period, store.period + 1}
      /\ rotates => store.next # {}
      /\ u.finalized < store.block => F = store.period
  BY DEF UpdateVerifies, FillsNextCommittee
<1>4. /\ new.block = IF u.finalized >= store.block THEN u.finalized ELSE store.block
      /\ new.period = period
      /\ new.current = IF rotates THEN CHOOSE p \in store.next : TRUE ELSE store.current
      /\ new.next = IF kept # {} THEN kept ELSE learned
      /\ new = [block |-> new.block, period |-> new.period, current |-> new.current,
                next |-> new.next]
  BY DEF ProcessUpdate, NextKept
<1>5. period \in Nat /\ learned \subseteq {period + 1}
  BY <1>1, <1>2
<1>6. kept \subseteq {period + 1}
  BY <1>1
<1>7. new.next \subseteq {new.period + 1} /\ new.next \in SUBSET Nat
  <2> HIDE DEF kept, learned, period, new
  <2>1. period + 1 \in Nat
    BY <1>5
  <2> QED BY <1>4, <1>5, <1>6, <2>1
<1>8. new.current = new.period
  <2>1. CASE rotates
    <3>1. (CHOOSE p \in store.next : TRUE) \in store.next
      BY <1>3, <2>1
    <3> QED BY <1>1, <1>4, <2>1, <3>1
  <2>2. CASE ~rotates
    BY <1>1, <1>4, <2>2
  <2> QED BY <2>1, <2>2
<1>9. new.block \in Nat /\ store.block <= new.block
  BY <1>1, <1>2, <1>4
<1>10. Period(new.block) = new.period
  <2>1. CASE u.finalized >= store.block
    <3>1. Period(new.block) = F
      BY <1>4, <2>1
    <3> QED BY <1>3, <1>4, <3>1
  <2>2. CASE ~(u.finalized >= store.block)
    <3>1. new.block = store.block /\ F = store.period
      BY <1>1, <1>2, <1>3, <1>4, <2>2
    <3>2. F # store.period + 1
      BY <1>1, <3>1
    <3> QED BY <1>1, <1>4, <3>1, <3>2
  <2> QED BY <2>1, <2>2
<1>11. new \in Store
  <2> HIDE DEF new
  <2>1. new.period \in Nat
    BY <1>4, <1>5
  <2>2. new.current \in Nat
    BY <1>8, <2>1
  <2> QED BY <1>4, <1>7, <1>9, <2>1, <2>2 DEF Store
<1> QED BY <1>7, <1>8, <1>9, <1>10, <1>11 DEF StoreOK

\* The anchor a record adds.
One(block, source, at) == [b \in {block} |-> [source |-> source, at |-> at]]

(* A new anchor at or below the head, from this B3 block. *)
LEMMA AnchorAdded ==
    ASSUME NEW client, NEW anchors, NEW h \in Nat, LightOK(client, anchors, h), client # {},
           NEW block \in Nat, block \notin DOMAIN anchors, \A store \in client : block <= store.block,
           NEW source \in Nat, NEW at, Len(at) = h
    PROVE  /\ LightOK(client, With(anchors, One(block, source, at)), h)
           /\ Extends(With(anchors, One(block, source, at)), anchors)
<1> DEFINE one == One(block, source, at)
           more == With(anchors, one)
<1>1. /\ DOMAIN one = {block} /\ one[block].source = source /\ one[block].at = at
  BY DEF One
<1>2. /\ IsMap(more) /\ DOMAIN more = DOMAIN anchors \union {block}
      /\ more[block] = one[block]
      /\ \A a \in DOMAIN anchors : more[a] = anchors[a]
  <2> HIDE DEF one
  <2>1. /\ IsMap(more) /\ DOMAIN more = DOMAIN anchors \union DOMAIN one
        /\ \A k \in DOMAIN one : more[k] = one[k]
        /\ \A k \in DOMAIN anchors : k \notin DOMAIN one => more[k] = anchors[k]
    BY WithFacts
  <2> HIDE DEF more
  <2> QED BY <1>1, <2>1
<1> HIDE DEF more, one
<1>3. Extends(more, anchors)
  BY <1>2 DEF Extends
<1>4. LightOK(client, more, h)
  <2>1. /\ client = {} \/ \E store : client = {store} /\ StoreOK(store)
        /\ DOMAIN anchors \subseteq Nat
        /\ \A a \in DOMAIN anchors : /\ anchors[a].source \in Nat
                                     /\ Len(anchors[a].at) \in 0 .. h
        /\ \A store \in client :
               /\ \A a \in DOMAIN anchors : a <= store.block
               /\ \A b \in Deployment .. store.block :
                      \E a \in DOMAIN anchors : Reaches(anchors, a, b)
    BY DEF LightOK
  <2>2. DOMAIN more \subseteq Nat
    BY <1>2, <2>1
  <2>3. \A a \in DOMAIN more : /\ more[a].source \in Nat
                               /\ Len(more[a].at) \in 0 .. h
    <3>1. Len(one[block].at) \in 0 .. h /\ one[block].source \in Nat
      BY <1>1
    <3> QED BY <1>2, <2>1, <3>1
  <2>4. ASSUME NEW store \in client
        PROVE  /\ \A a \in DOMAIN more : a <= store.block
               /\ \A b \in Deployment .. store.block :
                      \E a \in DOMAIN more : Reaches(more, a, b)
    <3>1. \A a \in DOMAIN more : a <= store.block
      BY <1>2, <2>1
    <3>2. ASSUME NEW b \in Deployment .. store.block
          PROVE  \E a \in DOMAIN more : Reaches(more, a, b)
      <4>1. PICK a \in DOMAIN anchors : Reaches(anchors, a, b)
        BY <2>1
      <4>2. a \in DOMAIN more /\ Reaches(more, a, b)
        BY <1>2, <4>1 DEF Reaches
      <4> QED BY <4>2
    <3> QED BY <3>1, <3>2
  <2> QED BY <1>2, <2>1, <2>2, <2>3, <2>4 DEF LightOK
<1> QED BY <1>3, <1>4 DEF more, one

(* The head moves forward by no more than the backfill window, or the client
   starts that close to the deployment, and its block becomes an anchor. *)
LEMMA HeadAdded ==
    ASSUME NEW client, NEW anchors, NEW h \in Nat, LightOK(client, anchors, h),
           NEW new, StoreOK(new), NEW at, Len(at) = h,
           \/ /\ client = {} /\ new.block - Deployment <= MaxBackfill
           \/ \E old \in client : /\ old.block < new.block
                                  /\ new.block - old.block <= MaxBackfill
    PROVE  /\ new.block \notin DOMAIN anchors
           /\ LightOK({new}, With(anchors, One(new.block, new.block, at)), h)
           /\ Extends(With(anchors, One(new.block, new.block, at)), anchors)
<1> DEFINE one == One(new.block, new.block, at)
           more == With(anchors, one)
<1>0. new.block \in Nat /\ Deployment \in Nat /\ MaxBackfill \in Nat
  BY BridgeAssumption DEF StoreOK, Store
<1>1. /\ DOMAIN one = {new.block} /\ one[new.block].source = new.block
      /\ one[new.block].at = at
  BY DEF One
<1>2. /\ client = {} \/ \E store : client = {store} /\ StoreOK(store)
      /\ IsMap(anchors) /\ DOMAIN anchors \subseteq Nat
      /\ \A a \in DOMAIN anchors : /\ anchors[a].source \in Nat
                                   /\ Len(anchors[a].at) \in 0 .. h
      /\ client = {} => DOMAIN anchors = {}
      /\ \A store \in client :
             /\ \A a \in DOMAIN anchors : a <= store.block
             /\ \A b \in Deployment .. store.block :
                    \E a \in DOMAIN anchors : Reaches(anchors, a, b)
  BY DEF LightOK
<1>3. new.block \notin DOMAIN anchors
  <2>1. CASE client = {}
    BY <1>2, <2>1
  <2>2. CASE client # {}
    <3>1. PICK old \in client : old.block < new.block
      BY <2>2
    <3>2. old.block \in Nat /\ ~(new.block <= old.block)
      BY <1>0, <1>2, <3>1 DEF StoreOK, Store
    <3> QED BY <1>2, <3>2
  <2> QED BY <2>1, <2>2
<1>4. /\ IsMap(more) /\ DOMAIN more = DOMAIN anchors \union {new.block}
      /\ more[new.block] = one[new.block]
      /\ \A a \in DOMAIN anchors : more[a] = anchors[a]
  <2> HIDE DEF one
  <2>1. /\ IsMap(more) /\ DOMAIN more = DOMAIN anchors \union DOMAIN one
        /\ \A k \in DOMAIN one : more[k] = one[k]
        /\ \A k \in DOMAIN anchors : k \notin DOMAIN one => more[k] = anchors[k]
    BY WithFacts
  <2> HIDE DEF more
  <2> QED BY <1>1, <1>3, <2>1
<1> HIDE DEF more, one
<1>5. Extends(more, anchors)
  BY <1>4 DEF Extends
<1>6. /\ DOMAIN more \subseteq Nat /\ DOMAIN more # {}
      /\ \A a \in DOMAIN more : more[a].source \in Nat /\ Len(more[a].at) \in 0 .. h
  <2>1. Len(one[new.block].at) \in 0 .. h /\ one[new.block].source \in Nat
    BY <1>0, <1>1
  <2> QED BY <1>0, <1>2, <1>4, <2>1
<1>7. ASSUME NEW a \in DOMAIN more PROVE a <= new.block
  <2>1. CASE a \in DOMAIN anchors
    <3>1. client # {}
      BY <1>2, <2>1
    <3>2. PICK old \in client : old.block < new.block
      BY <3>1
    <3>3. old.block \in Nat /\ a \in Nat /\ a <= old.block
      BY <1>2, <2>1, <3>2 DEF StoreOK, Store
    <3> QED BY <1>0, <3>2, <3>3
  <2>2. CASE a = new.block
    BY <1>0, <2>2
  <2> QED BY <1>4, <2>1, <2>2
<1>8. ASSUME NEW b \in Deployment .. new.block
      PROVE  \E a \in DOMAIN more : Reaches(more, a, b)
  <2>1. CASE new.block - b <= MaxBackfill
    <3>1. Reaches(more, new.block, b)
      BY <1>0, <1>1, <1>4, <2>1 DEF Reaches
    <3> QED BY <1>4, <3>1
  <2>2. CASE ~(new.block - b <= MaxBackfill)
    <3>1. client # {}
      BY <1>0, <2>2
    <3>2. PICK old \in client : old.block < new.block /\ new.block - old.block <= MaxBackfill
      BY <3>1
    <3>3. old.block \in Nat
      BY <1>2 DEF StoreOK, Store
    <3>4. b \in Deployment .. old.block
      BY <1>0, <2>2, <3>2, <3>3
    <3>5. PICK a \in DOMAIN anchors : Reaches(anchors, a, b)
      BY <1>2, <3>4
    <3>6. a \in DOMAIN more /\ Reaches(more, a, b)
      BY <1>4, <3>5 DEF Reaches
    <3> QED BY <3>6
  <2> QED BY <2>1, <2>2
<1>9. LightOK({new}, more, h)
  BY <1>4, <1>6, <1>7, <1>8 DEF LightOK
<1> QED BY <1>3, <1>5, <1>9 DEF more, one

(* What any record does to the light client: it never forgets an anchor or the
   store, and leaves no deposit behind. *)
LEMMA RecordKeepsLight ==
    ASSUME NEW s, IsScratch(s), NEW at, Len(at) \in Nat, LightOK(s.client, s.anchors, Len(at)),
           NEW r, WellFormed(r), NEW time
    PROVE  LET t == VerifyBridgeTransaction(s, r, at, time)
           IN  /\ IsScratch(t) /\ t.nullifiers_base = s.nullifiers_base
               /\ t.ok => s.ok
               /\ LightOK(t.client, t.anchors, Len(at))
               /\ Extends(t.anchors, s.anchors)
               /\ s.client # {} => t.client # {}
<1> DEFINE t == VerifyBridgeTransaction(s, r, at, time)
           Kept(v) == /\ IsScratch(v) /\ v.nullifiers_base = s.nullifiers_base
                      /\ v.ok => s.ok
                      /\ LightOK(v.client, v.anchors, Len(at))
                      /\ Extends(v.anchors, s.anchors)
                      /\ s.client # {} => v.client # {}
<1> SUFFICES Kept(t)
  OBVIOUS
<1>1. Extends(s.anchors, s.anchors)
  BY DEF Extends
<1>2. Kept(s)
  BY <1>1
<1>3. Kept([s EXCEPT !.ok = FALSE])
  BY <1>1 DEF IsScratch
<1>4. CASE ~s.ok
  <2>1. t = s
    BY <1>4 DEF VerifyBridgeTransaction
  <2> HIDE DEF t
  <2> QED BY <1>2, <2>1
<1>5. CASE s.ok /\ r.kind = "BOOTSTRAP"
  <2>1. t = VerifyBootstrap(s, at)
    BY <1>5 DEF VerifyBridgeTransaction
  <2>2. CASE s.client = {} /\ ExecutionRangeReachable(Checkpoint, Deployment)
                /\ t = AddAnchor([s EXCEPT !.client = {InitStore}], Checkpoint, Checkpoint, at)
    <3> DEFINE u == [s EXCEPT !.client = {InitStore}]
               more == With(s.anchors, One(Checkpoint, Checkpoint, at))
    <3>1. /\ Checkpoint \notin DOMAIN s.anchors
          /\ LightOK({InitStore}, more, Len(at)) /\ Extends(more, s.anchors)
      <4>1. InitStore.block - Deployment <= MaxBackfill
        BY <2>2, InitStoreOK DEF ExecutionRangeReachable
      <4> HIDE DEF more
      <4> QED BY <2>2, <4>1, InitStoreOK, HeadAdded DEF more
    <3>2. u.anchors = s.anchors
      BY DEF IsScratch
    <3>3. t = [u EXCEPT !.anchors = more]
      BY <2>2, <3>1, <3>2 DEF AddAnchor, One
    <3> HIDE DEF more
    <3>4. /\ IsScratch(t) /\ t.client = {InitStore} /\ t.anchors = more
          /\ t.nullifiers_base = s.nullifiers_base /\ t.ok = s.ok
      BY <3>3 DEF IsScratch
    <3> QED BY <3>1, <3>4
  <2>3. t = [s EXCEPT !.ok = FALSE] \/
            (s.client = {} /\ ExecutionRangeReachable(Checkpoint, Deployment)
                /\ t = AddAnchor([s EXCEPT !.client = {InitStore}], Checkpoint, Checkpoint, at))
    BY <2>1 DEF VerifyBootstrap
  <2> QED BY <1>3, <2>2, <2>3
<1>6. CASE s.ok /\ r.kind = "UPDATE"
  <2> DEFINE old == CHOOSE store \in s.client : TRUE
             new == ProcessUpdate(old, r)
             u == [s EXCEPT !.client = {new}]
  <2>1. t = VerifyUpdate(s, r, at)
    BY <1>6 DEF VerifyBridgeTransaction
  <2>2. t # [s EXCEPT !.ok = FALSE] =>
            /\ s.client # {} /\ UpdateVerifies(old, r)
            /\ new.block # old.block => ExecutionRangeReachable(new.block, old.block)
            /\ t = IF new.block # old.block THEN AddAnchor(u, new.block, new.block, at) ELSE u
    BY <2>1 DEF VerifyUpdate
  <2>3. ASSUME t # [s EXCEPT !.ok = FALSE] PROVE Kept(t)
    <3>1. s.client = {old} /\ StoreOK(old)
      BY <2>2, <2>3 DEF LightOK
    <3>2. {r.finalized, r.attested, r.signature} \subseteq Nat /\ r.next \in BOOLEAN
      BY <1>6 DEF WellFormed
    <3>3. StoreOK(new) /\ old.block <= new.block
      <4> HIDE DEF old
      <4> QED BY <2>2, <2>3, <3>1, <3>2, ProcessUpdateOK
    <3>4. new.block \in Nat /\ old.block \in Nat
      BY <3>1, <3>3 DEF StoreOK, Store
    <3>5. /\ IsScratch(u) /\ u.client = {new} /\ u.anchors = s.anchors /\ u.ok = s.ok
          /\ u.nullifiers_base = s.nullifiers_base
      BY DEF IsScratch
    <3> HIDE DEF old, new, u
    <3>6. CASE new.block = old.block
      <4>1. LightOK({new}, s.anchors, Len(at))
        <5>1. /\ IsMap(s.anchors) /\ DOMAIN s.anchors \subseteq Nat
              /\ \A a \in DOMAIN s.anchors : /\ s.anchors[a].source \in Nat
                                             /\ Len(s.anchors[a].at) \in 0 .. Len(at)
              /\ \A a \in DOMAIN s.anchors : a <= old.block
              /\ \A b \in Deployment .. old.block :
                     \E a \in DOMAIN s.anchors : Reaches(s.anchors, a, b)
          BY <3>1 DEF LightOK
        <5> QED BY <3>3, <3>6, <5>1 DEF LightOK
      <4>2. t = u
        BY <2>2, <2>3, <3>6
      <4> QED BY <1>1, <3>5, <4>1, <4>2
    <3>7. CASE new.block # old.block
      <4> DEFINE more == With(s.anchors, One(new.block, new.block, at))
      <4>1. old.block < new.block /\ new.block - old.block <= MaxBackfill
        BY <2>2, <2>3, <3>3, <3>4, <3>7 DEF ExecutionRangeReachable
      <4>2. /\ new.block \notin DOMAIN s.anchors
            /\ LightOK({new}, more, Len(at)) /\ Extends(more, s.anchors)
        <5> HIDE DEF more
        <5> QED BY <3>1, <3>3, <4>1, HeadAdded DEF more
      <4>3. t = [u EXCEPT !.anchors = more]
        BY <2>2, <2>3, <3>5, <3>7, <4>2 DEF AddAnchor, One
      <4> HIDE DEF more
      <4>4. /\ IsScratch(t) /\ t.client = {new} /\ t.anchors = more
            /\ t.nullifiers_base = s.nullifiers_base /\ t.ok = s.ok
        BY <3>5, <4>3 DEF IsScratch
      <4> QED BY <4>2, <4>4
    <3> QED BY <3>6, <3>7
  <2> HIDE DEF t, Kept
  <2> QED BY <1>3, <2>3
<1>7. CASE s.ok /\ r.kind = "BACKFILL"
  <2>1. t = VerifyBackfill(s, r, at)
    BY <1>7 DEF VerifyBridgeTransaction
  <2>2. t # [s EXCEPT !.ok = FALSE] =>
            /\ r.from \in DOMAIN s.anchors /\ AncestryFits(r.from, r.to)
            /\ r.to \notin DOMAIN s.anchors
            /\ t = AddAnchor(s, r.to, s.anchors[r.from].source, at)
    BY <2>1 DEF VerifyBackfill
  <2>3. ASSUME t # [s EXCEPT !.ok = FALSE] PROVE Kept(t)
    <3> DEFINE source == s.anchors[r.from].source
               more == With(s.anchors, One(r.to, source, at))
    <3>1. r.from \in Nat /\ r.to \in Nat /\ r.to <= r.from
      BY <1>7, <2>2, <2>3 DEF WellFormed, AncestryFits
    <3>2. s.client # {} /\ source \in Nat
      BY <2>2, <2>3 DEF LightOK
    <3>3. \A store \in s.client : r.to <= store.block
      <4> TAKE store \in s.client
      <4>1. store.block \in Nat /\ r.from <= store.block
        BY <2>2, <2>3 DEF LightOK, StoreOK, Store
      <4> QED BY <3>1, <4>1
    <3>4. LightOK(s.client, more, Len(at)) /\ Extends(more, s.anchors)
      <4> HIDE DEF source, more
      <4> QED BY <2>2, <2>3, <3>1, <3>2, <3>3, AnchorAdded DEF more
    <3>5. t = [s EXCEPT !.anchors = more]
      BY <2>2, <2>3 DEF AddAnchor, One
    <3> HIDE DEF more
    <3>6. /\ IsScratch(t) /\ t.client = s.client /\ t.anchors = more
          /\ t.nullifiers_base = s.nullifiers_base /\ t.ok = s.ok
      BY <3>5 DEF IsScratch
    <3> QED BY <3>4, <3>6
  <2> HIDE DEF t, Kept
  <2> QED BY <1>3, <2>3
<1>8. CASE s.ok /\ r.kind = "MINT"
  <2>1. t = VerifyMint(s, r, at, time)
    BY <1>8 DEF VerifyBridgeTransaction
  <2>2. /\ IsScratch(t) /\ t.client = s.client /\ t.anchors = s.anchors
        /\ t.nullifiers_base = s.nullifiers_base /\ (t.ok => s.ok)
    BY <2>1 DEF VerifyMint, IsScratch
  <2> QED BY <1>1, <2>2
<1>9. CASE s.ok /\ r.kind = "BURN"
  <2>1. t = VerifyBridgeBurn(s, r, at)
    BY <1>9 DEF VerifyBridgeTransaction
  <2>2. /\ IsScratch(t) /\ t.client = s.client /\ t.anchors = s.anchors
        /\ t.nullifiers_base = s.nullifiers_base /\ (t.ok => s.ok)
    BY <2>1 DEF VerifyBridgeBurn, IsScratch
  <2> QED BY <1>1, <2>2
<1> HIDE DEF t, Kept
<1> QED BY <1>4, <1>5, <1>6, <1>7, <1>8, <1>9 DEF WellFormed, IsScratch

-----------------------------------------------------------------------------
(* Mints and burns.                                                        *)

Amount(r) == Deposits[r.deposit].amount

\* The records blocks carry and the withdrawals they make.
AllRecords == UNION {Range(b.records) : b \in Blocks}
Leaf == [source : {r.source : r \in AllRecords}, height : Nat]

(* What an accepted record does to the nullifiers and the caps. *)
LEMMA RecordMints ==
    ASSUME NEW s, IsScratch(s), s.minted_this_block \in Nat, NEW at, NEW r, WellFormed(r), NEW time,
           Lookup(s.minted, BridgeEpoch(Len(at))) \in Nat,
           VerifyBridgeTransaction(s, r, at, time).ok
    PROVE  LET t == VerifyBridgeTransaction(s, r, at, time)
               epoch == BridgeEpoch(Len(at))
           IN  /\ r.kind = "MINT" =>
                      /\ r.deposit \notin s.nullifiers_base
                      /\ r.deposit \notin s.nullifiers_overlay
                      /\ t.nullifiers_overlay = s.nullifiers_overlay \union {r.deposit}
                      /\ Amount(r) \in Nat \ {0}
                      /\ t.minted_this_block = s.minted_this_block + Amount(r)
                      /\ t.minted_this_block <= MaxPerBlock
                      /\ epoch \in DOMAIN t.minted
                      /\ Lookup(t.minted, epoch) = Lookup(s.minted, epoch) + Amount(r)
                      /\ Lookup(t.minted, epoch) <= MaxPerEpoch
               /\ r.kind # "MINT" =>
                      /\ t.nullifiers_overlay = s.nullifiers_overlay
                      /\ t.minted_this_block = s.minted_this_block
                      /\ t.minted = s.minted
<1> DEFINE t == VerifyBridgeTransaction(s, r, at, time)
           epoch == BridgeEpoch(Len(at))
           failed == [s EXCEPT !.ok = FALSE]
<1>1. ~failed.ok /\ t # failed
  BY DEF IsScratch
<1>2. s.ok
  BY DEF VerifyBridgeTransaction
<1>3. ASSUME r.kind = "MINT"
      PROVE  /\ r.deposit \notin s.nullifiers_base
             /\ r.deposit \notin s.nullifiers_overlay
             /\ t.nullifiers_overlay = s.nullifiers_overlay \union {r.deposit}
             /\ Amount(r) \in Nat \ {0}
             /\ t.minted_this_block = s.minted_this_block + Amount(r)
             /\ t.minted_this_block <= MaxPerBlock
             /\ epoch \in DOMAIN t.minted
             /\ Lookup(t.minted, epoch) = Lookup(s.minted, epoch) + Amount(r)
             /\ Lookup(t.minted, epoch) <= MaxPerEpoch
  <2> DEFINE charge == [e \in {epoch} |-> Lookup(s.minted, e) + Amount(r)]
             fine == [s EXCEPT !.nullifiers_overlay = @ \union {r.deposit},
                               !.minted_this_block = @ + Amount(r),
                               !.minted = With(s.minted, charge)]
  <2>1. t = VerifyMint(s, r, at, time)
    BY <1>2, <1>3 DEF VerifyBridgeTransaction
  <2>2. /\ AdmitConfiguredDeposit(s, Amount(r), epoch) /\ ~IsNullified(s, r.deposit)
        /\ t = fine
    BY <1>1, <2>1 DEF VerifyMint, Amount
  <2>3. r.deposit \in DOMAIN Deposits
    BY <1>3 DEF WellFormed
  <2>4. Amount(r) \in Nat \ {0} /\ MaxPerBlock \in Nat /\ MaxPerEpoch \in Nat
    BY <2>3, BridgeAssumption DEF Amount
  <2> HIDE DEF charge, epoch
  <2>5. /\ t.nullifiers_overlay = s.nullifiers_overlay \union {r.deposit}
        /\ t.minted_this_block = s.minted_this_block + Amount(r)
        /\ t.minted = With(s.minted, charge)
    BY <2>2 DEF IsScratch
  <2>6. DOMAIN charge = {epoch} /\ charge[epoch] = Lookup(s.minted, epoch) + Amount(r)
    BY DEF charge
  <2>7. epoch \in DOMAIN t.minted /\ t.minted[epoch] = charge[epoch]
    <3>1. /\ DOMAIN With(s.minted, charge) = DOMAIN s.minted \union DOMAIN charge
          /\ \A k \in DOMAIN charge : With(s.minted, charge)[k] = charge[k]
      BY WithFacts
    <3> HIDE DEF t
    <3> QED BY <2>5, <2>6, <3>1
  <2>8. Lookup(t.minted, epoch) = Lookup(s.minted, epoch) + Amount(r)
    BY <2>6, <2>7 DEF Lookup
  <2>9. r.deposit \notin s.nullifiers_base /\ r.deposit \notin s.nullifiers_overlay
    BY <2>2 DEF IsNullified
  <2>10. /\ s.minted_this_block <= MaxPerBlock
         /\ Amount(r) <= MaxPerBlock - s.minted_this_block
         /\ Lookup(s.minted, epoch) <= MaxPerEpoch
         /\ Amount(r) <= MaxPerEpoch - Lookup(s.minted, epoch)
    BY <2>2 DEF AdmitConfiguredDeposit
  <2>11. Lookup(s.minted, epoch) \in Nat
    BY DEF epoch
  <2> HIDE DEF t
  <2>12. t.minted_this_block <= MaxPerBlock
    BY <2>4, <2>5, <2>10
  <2>13. Lookup(t.minted, epoch) <= MaxPerEpoch
    <3> DEFINE x == Lookup(s.minted, epoch)
               y == Lookup(t.minted, epoch)
    <3>1. x \in Nat /\ y = x + Amount(r) /\ Amount(r) <= MaxPerEpoch - x
      BY <2>8, <2>10, <2>11
    <3> HIDE DEF x, y
    <3>2. y <= MaxPerEpoch
      BY <2>4, <3>1
    <3> QED BY <3>2 DEF y
  <2> QED BY <2>4, <2>5, <2>7, <2>8, <2>9, <2>12, <2>13
<1>4. ASSUME r.kind # "MINT"
      PROVE  /\ t.nullifiers_overlay = s.nullifiers_overlay
             /\ t.minted_this_block = s.minted_this_block
             /\ t.minted = s.minted
  <2>1. CASE r.kind = "BOOTSTRAP"
    BY <1>2, <2>1 DEF VerifyBridgeTransaction, VerifyBootstrap, AddAnchor, IsScratch
  <2>2. CASE r.kind = "UPDATE"
    <3> DEFINE old == CHOOSE store \in s.client : TRUE
               new == ProcessUpdate(old, r)
    <3>1. t = VerifyUpdate(s, r, at)
      BY <1>2, <2>2 DEF VerifyBridgeTransaction
    <3>2. t = LET u == [s EXCEPT !.client = {new}]
              IN  IF new.block # old.block THEN AddAnchor(u, new.block, new.block, at) ELSE u
      BY <1>1, <3>1 DEF VerifyUpdate
    <3> HIDE DEF t, old, new
    <3> QED BY <3>2 DEF AddAnchor, IsScratch
  <2>3. CASE r.kind = "BACKFILL"
    BY <1>2, <2>3 DEF VerifyBridgeTransaction, VerifyBackfill, AddAnchor, IsScratch
  <2>4. CASE r.kind = "BURN"
    BY <1>2, <2>4 DEF VerifyBridgeTransaction, VerifyBridgeBurn, IsScratch
  <2> QED BY <1>4, <2>1, <2>2, <2>3, <2>4 DEF WellFormed
<1> QED BY <1>3, <1>4

(* What an accepted record does to the withdrawal tree. *)
LEMMA RecordBurns ==
    ASSUME NEW s, IsScratch(s), NEW at, NEW r, WellFormed(r), NEW time,
           VerifyBridgeTransaction(s, r, at, time).ok
    PROVE  LET t == VerifyBridgeTransaction(s, r, at, time)
           IN  /\ r.kind = "BURN" =>
                      /\ \A i \in DOMAIN s.tree : s.tree[i].source # r.source
                      /\ t.tree = Append(s.tree, [source |-> r.source, height |-> Len(at)])
               /\ r.kind # "BURN" => t.tree = s.tree
<1> DEFINE t == VerifyBridgeTransaction(s, r, at, time)
           failed == [s EXCEPT !.ok = FALSE]
<1>1. ~failed.ok /\ t # failed
  BY DEF IsScratch
<1>2. s.ok
  BY DEF VerifyBridgeTransaction
<1>3. CASE r.kind = "BOOTSTRAP"
  BY <1>2, <1>3 DEF VerifyBridgeTransaction, VerifyBootstrap, AddAnchor, IsScratch
<1>4. CASE r.kind = "UPDATE"
  <2> DEFINE old == CHOOSE store \in s.client : TRUE
             new == ProcessUpdate(old, r)
  <2>1. t = VerifyUpdate(s, r, at)
    BY <1>2, <1>4 DEF VerifyBridgeTransaction
  <2>2. t = LET u == [s EXCEPT !.client = {new}]
            IN  IF new.block # old.block THEN AddAnchor(u, new.block, new.block, at) ELSE u
    BY <1>1, <2>1 DEF VerifyUpdate
  <2>3. t.tree = s.tree
    <3> HIDE DEF t, old, new
    <3> QED BY <2>2 DEF AddAnchor, IsScratch
  <2> QED BY <1>4, <2>3
<1>5. CASE r.kind = "BACKFILL"
  BY <1>2, <1>5 DEF VerifyBridgeTransaction, VerifyBackfill, AddAnchor, IsScratch
<1>6. CASE r.kind = "MINT"
  <2>1. t = VerifyMint(s, r, at, time)
    BY <1>2, <1>6 DEF VerifyBridgeTransaction
  <2>2. t.tree = s.tree
    BY <2>1 DEF VerifyMint, IsScratch
  <2> QED BY <1>6, <2>2
<1>7. CASE r.kind = "BURN"
  <2>1. t = VerifyBridgeBurn(s, r, at)
    BY <1>2, <1>7 DEF VerifyBridgeTransaction
  <2>2. /\ \A i \in DOMAIN s.tree : s.tree[i].source # r.source
        /\ t = [s EXCEPT !.tree = Append(@, [source |-> r.source, height |-> Len(at)])]
    BY <1>1, <2>1 DEF VerifyBridgeBurn
  <2> QED BY <1>7, <2>2 DEF IsScratch
<1> QED BY <1>3, <1>4, <1>5, <1>6, <1>7 DEF WellFormed

-----------------------------------------------------------------------------
(* The records of a block, one after the other.                            *)

(* The rounds of the loop over a block's records. *)
LEMMA VerifiedRounds ==
    ASSUME NEW f, NEW N \in Nat, NEW s, NEW records, NEW at, NEW time,
           IsVerified(f, N, s, records, at, time)
    PROVE  /\ f[0] = s
           /\ \A n \in 0 .. N : n # 0 =>
                  /\ n \in 1 .. N /\ n - 1 \in 0 .. N
                  /\ f[n] = VerifyBridgeTransaction(f[n - 1], records[n], at, time)
<1> DEFINE F(n) == IF n = 0 THEN s
                   ELSE VerifyBridgeTransaction(f[n - 1], records[n], at, time)
<1>1. \A n \in 0 .. N : f[n] = F(n)
  <2> HIDE DEF F
  <2>1. f = [n \in 0 .. N |-> F(n)]
    BY DEF IsVerified, F
  <2> QED BY <2>1
<1>2. 0 \in 0 .. N
  OBVIOUS
<1>3. \A n \in 0 .. N : n # 0 => n \in 1 .. N /\ n - 1 \in 0 .. N
  OBVIOUS
<1> QED BY <1>1, <1>2, <1>3

\* The records of a block and the run of the loop over them.
LoopOf(f, P, records, at, time) ==
    /\ Len(at) \in Nat /\ Len(records) \in Nat
    /\ \A i \in 1 .. Len(records) : WellFormed(records[i])
    /\ IsVerified(f, Len(records), Scratch(P), records, at, time)

(* The light client while the records of a block are verified. *)
LEMMA LoopLight ==
    ASSUME NEW f, NEW P, NEW records, NEW at, NEW time, LoopOf(f, P, records, at, time),
           LightOK(P.client, P.anchors, Len(at))
    PROVE  \A n \in 0 .. Len(records) :
               /\ IsScratch(f[n]) /\ f[n].nullifiers_base = DOMAIN P.nullifiers
               /\ LightOK(f[n].client, f[n].anchors, Len(at))
               /\ Extends(f[n].anchors, P.anchors)
               /\ P.client # {} => f[n].client # {}
               /\ n # 0 /\ f[n].ok => f[n - 1].ok
<1> DEFINE N == Len(records)
           Good(s) == /\ IsScratch(s) /\ s.nullifiers_base = DOMAIN P.nullifiers
                      /\ LightOK(s.client, s.anchors, Len(at))
                      /\ Extends(s.anchors, P.anchors)
                      /\ P.client # {} => s.client # {}
           T == {n \in 0 .. N : Good(f[n])}
<1>0. /\ Len(at) \in Nat /\ N \in Nat /\ \A i \in 1 .. N : WellFormed(records[i])
      /\ IsVerified(f, N, Scratch(P), records, at, time)
  BY DEF LoopOf
<1>1. /\ f[0] = Scratch(P)
      /\ \A n \in 0 .. N : n # 0 =>
             /\ n \in 1 .. N /\ n - 1 \in 0 .. N
             /\ f[n] = VerifyBridgeTransaction(f[n - 1], records[n], at, time)
  <2> HIDE DEF N
  <2> QED BY <1>0, VerifiedRounds
<1>2. Good(Scratch(P))
  BY DEF Scratch, IsScratch, Extends
<1>3. ASSUME NEW n \in 0 .. N, n # 0, Good(f[n - 1])
      PROVE  Good(f[n]) /\ (f[n].ok => f[n - 1].ok)
  <2> DEFINE s == f[n - 1]
             t == VerifyBridgeTransaction(s, records[n], at, time)
  <2>1. WellFormed(records[n]) /\ f[n] = t
    BY <1>0, <1>1, <1>3
  <2>2. /\ IsScratch(t) /\ t.nullifiers_base = s.nullifiers_base
        /\ t.ok => s.ok
        /\ LightOK(t.client, t.anchors, Len(at))
        /\ Extends(t.anchors, s.anchors)
        /\ s.client # {} => t.client # {}
    <3> HIDE DEF s
    <3>1. Good(s)
      BY <1>3 DEF s
    <3> QED BY <1>0, <2>1, <3>1, RecordKeepsLight
  <2> HIDE DEF t
  <2>3. Extends(t.anchors, P.anchors)
    BY <1>3, <2>2 DEF Extends
  <2> QED BY <1>3, <2>1, <2>2, <2>3
<1>4. \A n \in 0 .. N : n \in T
  <2> HIDE DEF Good, N
  <2>1. 0 \in T
    BY <1>0, <1>1, <1>2
  <2>2. ASSUME NEW n \in 0 .. N, n # 0, n - 1 \in T PROVE n \in T
    BY <1>3, <2>2
  <2>3. 0 \in Int /\ N \in Int
    BY <1>0
  <2> HIDE DEF T
  <2> QED BY <2>1, <2>2, <2>3, InductionUpTo
<1>5. \A n \in 0 .. N : n # 0 /\ f[n].ok => f[n - 1].ok
  <2> TAKE n \in 0 .. N
  <2> SUFFICES ASSUME n # 0 PROVE f[n].ok => f[n - 1].ok
    OBVIOUS
  <2>1. n - 1 \in 0 .. N
    BY <1>1
  <2>2. Good(f[n - 1])
    BY <1>4, <2>1
  <2> HIDE DEF Good
  <2> QED BY <1>3, <2>2
<1> QED BY <1>4, <1>5

\* What the mints of the first n records have done.
MintsDone(s, n, sum, P, records, epoch) ==
    /\ \A i \in 1 .. n : records[i].kind = "MINT" => records[i].deposit \in s.nullifiers_overlay
    /\ s.nullifiers_overlay \intersect DOMAIN P.nullifiers = {}
    /\ \A i, j \in 1 .. n :
           records[i].kind = "MINT" /\ records[j].kind = "MINT"
               /\ records[i].deposit = records[j].deposit => i = j
    /\ sum \in Nat /\ s.minted_this_block = sum /\ sum <= MaxPerBlock
    /\ Lookup(s.minted, epoch) = Lookup(P.minted, epoch) + sum
    /\ Lookup(s.minted, epoch) <= MaxPerEpoch
    /\ sum > 0 => epoch \in DOMAIN s.minted

(* One more record. *)
LEMMA MintRound ==
    ASSUME NEW s, IsScratch(s), NEW P, s.nullifiers_base = DOMAIN P.nullifiers,
           NEW records, NEW n, n \in Nat \ {0}, WellFormed(records[n]), NEW at, NEW time,
           NEW sum, MintsDone(s, n - 1, sum, P, records, BridgeEpoch(Len(at))),
           Lookup(P.minted, BridgeEpoch(Len(at))) \in Nat,
           VerifyBridgeTransaction(s, records[n], at, time).ok
    PROVE  MintsDone(VerifyBridgeTransaction(s, records[n], at, time), n,
                     sum + (IF records[n].kind = "MINT"
                            THEN Deposits[records[n].deposit].amount ELSE 0),
                     P, records, BridgeEpoch(Len(at)))
<1> DEFINE r == records[n]
           epoch == BridgeEpoch(Len(at))
           t == VerifyBridgeTransaction(s, r, at, time)
           base == Lookup(P.minted, epoch)
<1>1. /\ \A i \in 1 .. n - 1 : records[i].kind = "MINT" => records[i].deposit \in s.nullifiers_overlay
      /\ s.nullifiers_overlay \intersect DOMAIN P.nullifiers = {}
      /\ \A i, j \in 1 .. n - 1 :
             records[i].kind = "MINT" /\ records[j].kind = "MINT"
                 /\ records[i].deposit = records[j].deposit => i = j
      /\ sum \in Nat /\ s.minted_this_block = sum /\ sum <= MaxPerBlock
      /\ Lookup(s.minted, epoch) = base + sum
      /\ Lookup(s.minted, epoch) <= MaxPerEpoch
      /\ sum > 0 => epoch \in DOMAIN s.minted
  BY DEF MintsDone
<1>2. s.minted_this_block \in Nat /\ Lookup(s.minted, epoch) \in Nat
  <2>1. base \in Nat
    OBVIOUS
  <2> HIDE DEF base, epoch
  <2> QED BY <1>1, <2>1
<1>3. /\ r.kind = "MINT" =>
             /\ r.deposit \notin s.nullifiers_base
             /\ r.deposit \notin s.nullifiers_overlay
             /\ t.nullifiers_overlay = s.nullifiers_overlay \union {r.deposit}
             /\ Amount(r) \in Nat \ {0}
             /\ t.minted_this_block = s.minted_this_block + Amount(r)
             /\ t.minted_this_block <= MaxPerBlock
             /\ epoch \in DOMAIN t.minted
             /\ Lookup(t.minted, epoch) = Lookup(s.minted, epoch) + Amount(r)
             /\ Lookup(t.minted, epoch) <= MaxPerEpoch
      /\ r.kind # "MINT" =>
             /\ t.nullifiers_overlay = s.nullifiers_overlay
             /\ t.minted_this_block = s.minted_this_block
             /\ t.minted = s.minted
  <2> HIDE DEF r
  <2>1. WellFormed(r) /\ VerifyBridgeTransaction(s, r, at, time).ok
    BY DEF r
  <2> QED BY <1>2, <2>1, RecordMints
<1>4. \A i \in 1 .. n : i # n => i \in 1 .. n - 1
  OBVIOUS
<1> HIDE DEF t
<1>5. CASE r.kind = "MINT"
  <2> DEFINE total == sum + Amount(r)
  <2>1. \A i \in 1 .. n : records[i].kind = "MINT" => records[i].deposit \in t.nullifiers_overlay
    BY <1>1, <1>3, <1>4, <1>5
  <2>2. t.nullifiers_overlay \intersect DOMAIN P.nullifiers = {}
    BY <1>1, <1>3, <1>5
  <2>3. ASSUME NEW i \in 1 .. n, NEW j \in 1 .. n, records[i].kind = "MINT",
               records[j].kind = "MINT", records[i].deposit = records[j].deposit
        PROVE  i = j
    BY <1>1, <1>3, <1>4, <1>5, <2>3
  <2>4. total \in Nat /\ t.minted_this_block = total /\ total <= MaxPerBlock
    BY <1>1, <1>3, <1>5
  <2>5. Lookup(t.minted, epoch) = base + total
    <3> DEFINE x == Lookup(t.minted, epoch)
               y == Lookup(s.minted, epoch)
    <3>1. base \in Nat /\ y = base + sum /\ x = y + Amount(r)
      BY <1>1, <1>3, <1>5
    <3>2. sum \in Nat /\ Amount(r) \in Nat
      BY <1>1, <1>3, <1>5
    <3> HIDE DEF x, y, base, r
    <3>3. x = base + total
      BY <3>1, <3>2
    <3> QED BY <3>3 DEF x
  <2>6. Lookup(t.minted, epoch) <= MaxPerEpoch /\ epoch \in DOMAIN t.minted
    BY <1>3, <1>5
  <2>7. MintsDone(t, n, total, P, records, epoch)
    <3> HIDE DEF total, epoch
    <3> QED BY <2>1, <2>2, <2>3, <2>4, <2>5, <2>6 DEF MintsDone
  <2> QED BY <1>5, <2>7 DEF Amount, t
<1>6. CASE r.kind # "MINT"
  <2>1. sum + 0 = sum
    BY <1>1
  <2>2. \A i \in 1 .. n : records[i].kind = "MINT" => i \in 1 .. n - 1
    BY <1>4, <1>6
  <2>3. MintsDone(t, n, sum, P, records, epoch)
    <3> HIDE DEF epoch
    <3> QED BY <1>1, <1>3, <1>6, <2>2 DEF MintsDone
  <2> QED BY <1>6, <2>1, <2>3 DEF t
<1> QED BY <1>5, <1>6

(* The mints of an accepted block. *)
LEMMA LoopMints ==
    ASSUME NEW f, NEW P, NEW records, NEW at, NEW time, LoopOf(f, P, records, at, time),
           LightOK(P.client, P.anchors, Len(at)), f[Len(records)].ok,
           Lookup(P.minted, BridgeEpoch(Len(at))) \in Nat,
           Lookup(P.minted, BridgeEpoch(Len(at))) <= MaxPerEpoch
    PROVE  MintsDone(f[Len(records)], Len(records), MintedIn(records), P, records,
                     BridgeEpoch(Len(at)))
<1> DEFINE N == Len(records)
           epoch == BridgeEpoch(Len(at))
           Add(n) == IF records[n].kind = "MINT" THEN Deposits[records[n].deposit].amount ELSE 0
<1>0. /\ Len(at) \in Nat /\ N \in Nat /\ \A i \in 1 .. N : WellFormed(records[i])
      /\ IsVerified(f, N, Scratch(P), records, at, time)
  BY DEF LoopOf
<1>1. /\ f[0] = Scratch(P)
      /\ \A n \in 0 .. N : n # 0 =>
             /\ n \in 1 .. N /\ n - 1 \in 0 .. N
             /\ f[n] = VerifyBridgeTransaction(f[n - 1], records[n], at, time)
  <2> HIDE DEF N
  <2> QED BY <1>0, VerifiedRounds
<1>2. \A n \in 0 .. N :
          /\ IsScratch(f[n]) /\ f[n].nullifiers_base = DOMAIN P.nullifiers
          /\ n # 0 /\ f[n].ok => f[n - 1].ok
  BY LoopLight
<1>3. PICK m : IsMinted(m, N, records) /\ MintedIn(records) = m[N]
  BY <1>0, MintedInRuns
<1>4. m[0] = 0 /\ \A n \in 0 .. N : n # 0 => m[n] = m[n - 1] + Add(n)
  <2> DEFINE F(n) == IF n = 0 THEN 0 ELSE m[n - 1] + Add(n)
  <2>1. \A n \in 0 .. N : m[n] = F(n)
    <3>1. m = [n \in 0 .. N |-> F(n)]
      BY <1>3 DEF IsMinted
    <3> HIDE DEF F
    <3> QED BY <3>1
  <2>2. 0 \in 0 .. N
    BY <1>0
  <2> QED BY <2>1, <2>2
<1> DEFINE T == {n \in 0 .. N : f[n].ok => MintsDone(f[n], n, m[n], P, records, epoch)}
<1>5. 0 \in T
  <2> DEFINE s == Scratch(P)
  <2>1. /\ s.nullifiers_overlay = {} /\ s.minted_this_block = 0 /\ s.minted = P.minted
    BY DEF Scratch
  <2>2. 0 <= MaxPerBlock /\ Lookup(P.minted, epoch) = Lookup(P.minted, epoch) + 0
    BY BridgeAssumption
  <2>3. MintsDone(s, 0, 0, P, records, epoch)
    <3> HIDE DEF s, epoch
    <3>1. Lookup(s.minted, epoch) <= MaxPerEpoch
      BY <2>1 DEF epoch
    <3> QED BY <2>1, <2>2, <3>1 DEF MintsDone
  <2> HIDE DEF s, epoch
  <2> QED BY <1>0, <1>1, <1>4, <2>3 DEF s
<1>6. ASSUME NEW n \in 0 .. N, n # 0, n - 1 \in T PROVE n \in T
  <2> SUFFICES ASSUME f[n].ok PROVE MintsDone(f[n], n, m[n], P, records, epoch)
    OBVIOUS
  <2> DEFINE s == f[n - 1]
             sum == m[n - 1]
  <2>1. /\ n \in Nat \ {0} /\ WellFormed(records[n]) /\ IsScratch(s)
        /\ s.nullifiers_base = DOMAIN P.nullifiers
        /\ f[n] = VerifyBridgeTransaction(s, records[n], at, time)
        /\ MintsDone(s, n - 1, sum, P, records, epoch)
    BY <1>0, <1>1, <1>2, <1>6
  <2>2. m[n] = sum + Add(n)
    BY <1>4, <1>6
  <2> HIDE DEF s, sum
  <2>3. VerifyBridgeTransaction(s, records[n], at, time).ok
    BY <2>1
  <2>4. MintsDone(VerifyBridgeTransaction(s, records[n], at, time), n, sum + Add(n), P, records, epoch)
    BY <2>1, <2>3, MintRound
  <2> HIDE DEF Add, epoch
  <2> QED BY <2>1, <2>2, <2>4
<1>7. \A n \in 0 .. N : n # 0 /\ n - 1 \in T => n \in T
  BY <1>6
<1>8. N \in 0 .. N /\ 0 \in Int /\ N \in Int
  BY <1>0
<1>9. N \in T
  <2> HIDE DEF T, N
  <2> QED BY <1>5, <1>7, <1>8, InductionUpTo
<1> QED BY <1>3, <1>9

\* A withdrawal tree with each source once and leaves up to height h.
TreeOK(tree, h) ==
    /\ tree \in Seq(Leaf)
    /\ \A i \in 1 .. Len(tree) : tree[i].height \in 0 .. h
    /\ \A i, j \in 1 .. Len(tree) : tree[i].source = tree[j].source => i = j

\* A tree that adds leaves of height h to another.
Grows(tree, before, h) ==
    /\ Len(before) <= Len(tree)
    /\ \A i \in 1 .. Len(before) : tree[i] = before[i]
    /\ \A i \in 1 .. Len(tree) : i > Len(before) => tree[i].height = h

(* One more leaf. *)
LEMMA LeafAdded ==
    ASSUME NEW h \in Nat, NEW tree, TreeOK(tree, h), NEW before \in Seq(Leaf), Grows(tree, before, h),
           NEW r \in AllRecords, \A i \in DOMAIN tree : tree[i].source # r.source
    PROVE  LET more == Append(tree, [source |-> r.source, height |-> h])
           IN  TreeOK(more, h) /\ Grows(more, before, h)
<1> DEFINE leaf == [source |-> r.source, height |-> h]
           more == Append(tree, leaf)
           n == Len(tree)
<1>1. leaf \in Leaf /\ leaf.source = r.source /\ leaf.height = h
  BY DEF Leaf
<1>2. tree \in Seq(Leaf) /\ n \in Nat /\ DOMAIN tree = 1 .. n
  BY DEF TreeOK
<1> HIDE DEF leaf
<1>3. /\ more \in Seq(Leaf) /\ Len(more) = n + 1 /\ more[n + 1] = leaf
      /\ \A i \in 1 .. n : more[i] = tree[i]
  BY <1>1, <1>2
<1>4. \A i \in 1 .. n + 1 : i = n + 1 \/ i \in 1 .. n
  BY <1>2
<1>5. Len(before) \in Nat
  OBVIOUS
<1> HIDE DEF more, n
<1>6. TreeOK(more, h)
  <2>1. \A i \in 1 .. Len(more) : more[i].height \in 0 .. h
    <3>1. \A i \in 1 .. n : tree[i].height \in 0 .. h
      BY DEF TreeOK, n
    <3> QED BY <1>1, <1>3, <1>4, <3>1
  <2>2. ASSUME NEW i \in 1 .. Len(more), NEW j \in 1 .. Len(more), more[i].source = more[j].source
        PROVE  i = j
    <3>1. \A k, l \in 1 .. n : tree[k].source = tree[l].source => k = l
      BY DEF TreeOK, n
    <3>2. \A k \in 1 .. n : more[k].source # leaf.source
      BY <1>1, <1>2, <1>3
    <3> QED BY <1>3, <1>4, <2>2, <3>1, <3>2
  <2> QED BY <1>3, <2>1, <2>2 DEF TreeOK
<1>7. Grows(more, before, h)
  <2>1. /\ Len(before) <= n
        /\ \A i \in 1 .. Len(before) : tree[i] = before[i] /\ i \in 1 .. n
        /\ \A i \in 1 .. n : i > Len(before) => tree[i].height = h
    BY <1>2, <1>5 DEF Grows, n
  <2>2. Len(before) <= Len(more)
    BY <1>2, <1>3, <1>5, <2>1
  <2>3. \A i \in 1 .. Len(before) : more[i] = before[i]
    BY <1>3, <2>1
  <2>4. \A i \in 1 .. Len(more) : i > Len(before) => more[i].height = h
    BY <1>1, <1>3, <1>4, <2>1
  <2> QED BY <2>2, <2>3, <2>4 DEF Grows
<1> QED BY <1>6, <1>7 DEF more, leaf

(* The withdrawals of an accepted block. *)
LEMMA LoopBurns ==
    ASSUME NEW f, NEW P, NEW records, NEW at, NEW time, LoopOf(f, P, records, at, time),
           LightOK(P.client, P.anchors, Len(at)), f[Len(records)].ok,
           \A i \in 1 .. Len(records) : records[i] \in AllRecords,
           TreeOK(P.tree, Len(at))
    PROVE  /\ f[Len(records)].tree = BurnedIn(P.tree, records, Len(at))
           /\ TreeOK(f[Len(records)].tree, Len(at))
           /\ Grows(f[Len(records)].tree, P.tree, Len(at))
<1> DEFINE N == Len(records)
           h == Len(at)
           Burn(x, n) == IF records[n].kind = "BURN"
                         THEN Append(x, [source |-> records[n].source, height |-> h]) ELSE x
<1>0. /\ h \in Nat /\ N \in Nat /\ \A i \in 1 .. N : WellFormed(records[i])
      /\ IsVerified(f, N, Scratch(P), records, at, time)
  BY DEF LoopOf
<1>1. /\ f[0] = Scratch(P)
      /\ \A n \in 0 .. N : n # 0 =>
             /\ n \in 1 .. N /\ n - 1 \in 0 .. N
             /\ f[n] = VerifyBridgeTransaction(f[n - 1], records[n], at, time)
  <2> HIDE DEF N
  <2> QED BY <1>0, VerifiedRounds
<1>2. \A n \in 0 .. N : IsScratch(f[n]) /\ (n # 0 /\ f[n].ok => f[n - 1].ok)
  BY LoopLight
<1>3. PICK b : IsBurned(b, N, P.tree, records, h) /\ BurnedIn(P.tree, records, h) = b[N]
  BY <1>0, BurnedInRuns
<1>4. b[0] = P.tree /\ \A n \in 0 .. N : n # 0 => b[n] = Burn(b[n - 1], n)
  <2> DEFINE F(n) == IF n = 0 THEN P.tree ELSE Burn(b[n - 1], n)
  <2>1. \A n \in 0 .. N : b[n] = F(n)
    <3>1. b = [n \in 0 .. N |-> F(n)]
      BY <1>3 DEF IsBurned
    <3> HIDE DEF F
    <3> QED BY <3>1
  <2>2. 0 \in 0 .. N
    BY <1>0
  <2> QED BY <2>1, <2>2
<1> DEFINE Good(x, n) == x = b[n] /\ TreeOK(x, h) /\ Grows(x, P.tree, h)
           T == {n \in 0 .. N : f[n].ok => Good(f[n].tree, n)}
<1>5. 0 \in T
  <2>1. Scratch(P).tree = P.tree
    BY DEF Scratch
  <2>2. P.tree \in Seq(Leaf) /\ Len(P.tree) \in Nat
    BY DEF TreeOK
  <2>3. Grows(P.tree, P.tree, h)
    BY <2>2 DEF Grows
  <2> QED BY <1>0, <1>1, <1>4, <2>1, <2>3
<1>6. ASSUME NEW n \in 0 .. N, n # 0, n - 1 \in T PROVE n \in T
  <2> SUFFICES ASSUME f[n].ok PROVE Good(f[n].tree, n)
    OBVIOUS
  <2> DEFINE s == f[n - 1]
             r == records[n]
             t == VerifyBridgeTransaction(s, r, at, time)
  <2>1. /\ WellFormed(r) /\ IsScratch(s) /\ f[n] = t /\ r \in AllRecords
        /\ Good(s.tree, n - 1)
    BY <1>0, <1>1, <1>2, <1>6
  <2>2. b[n] = Burn(b[n - 1], n)
    BY <1>4, <1>6
  <2>3. /\ r.kind = "BURN" =>
               /\ \A i \in DOMAIN s.tree : s.tree[i].source # r.source
               /\ t.tree = Append(s.tree, [source |-> r.source, height |-> h])
        /\ r.kind # "BURN" => t.tree = s.tree
    <3> HIDE DEF s, r
    <3>1. t.ok
      BY <2>1
    <3> QED BY <2>1, <3>1, RecordBurns
  <2> HIDE DEF t
  <2>4. t.tree = b[n]
    BY <2>1, <2>2, <2>3
  <2>5. TreeOK(t.tree, h) /\ Grows(t.tree, P.tree, h)
    <3>1. CASE r.kind = "BURN"
      <4> DEFINE more == Append(s.tree, [source |-> r.source, height |-> h])
                 x == s.tree
                 y == P.tree
      <4>1. /\ TreeOK(x, h) /\ Grows(x, y, h) /\ y \in Seq(Leaf)
            /\ \A i \in DOMAIN x : x[i].source # r.source
        BY <2>1, <2>3, <3>1 DEF TreeOK
      <4>2. TreeOK(more, h) /\ Grows(more, y, h)
        <5>1. more = Append(x, [source |-> r.source, height |-> h])
          OBVIOUS
        <5> HIDE DEF x, y, more, r, h
        <5>2. h \in Nat /\ r \in AllRecords
          BY <1>0, <2>1
        <5> QED BY <4>1, <5>1, <5>2, LeafAdded
      <4> QED BY <2>3, <3>1, <4>2
    <3>2. CASE r.kind # "BURN"
      BY <2>1, <2>3, <3>2
    <3> QED BY <3>1, <3>2
  <2> QED BY <2>1, <2>4, <2>5
<1>7. \A n \in 0 .. N : n # 0 /\ n - 1 \in T => n \in T
  BY <1>6
<1>8. N \in 0 .. N /\ 0 \in Int /\ N \in Int
  BY <1>0
<1>9. N \in T
  <2> HIDE DEF T, N
  <2> QED BY <1>5, <1>7, <1>8, InductionUpTo
<1> QED BY <1>3, <1>9

-----------------------------------------------------------------------------
(* What the chain itself says, when it grows by a block.                   *)

(* The mints of a block add up to a number, and to none without records. *)
LEMMA MintedInType ==
    ASSUME NEW records, Len(records) \in Nat, \A i \in 1 .. Len(records) : WellFormed(records[i])
    PROVE  MintedIn(records) \in Nat
<1> DEFINE N == Len(records)
           Add(n) == IF records[n].kind = "MINT" THEN Deposits[records[n].deposit].amount ELSE 0
<1>1. PICK m : IsMinted(m, N, records) /\ MintedIn(records) = m[N]
  BY MintedInRuns
<1>2. m[0] = 0 /\ \A n \in 0 .. N : n # 0 => m[n] = m[n - 1] + Add(n)
  <2> DEFINE F(n) == IF n = 0 THEN 0 ELSE m[n - 1] + Add(n)
  <2>1. \A n \in 0 .. N : m[n] = F(n)
    <3>1. m = [n \in 0 .. N |-> F(n)]
      BY <1>1 DEF IsMinted
    <3> HIDE DEF F
    <3> QED BY <3>1
  <2>2. 0 \in 0 .. N
    OBVIOUS
  <2> QED BY <2>1, <2>2
<1> DEFINE T == {n \in 0 .. N : m[n] \in Nat}
<1>3. 0 \in T
  BY <1>2
<1>4. ASSUME NEW n \in 0 .. N, n # 0, n - 1 \in T PROVE n \in T
  <2>1. n \in 1 .. N
    BY <1>4
  <2>2. Add(n) \in Nat
    <3>1. records[n].kind = "MINT" => records[n].deposit \in DOMAIN Deposits
      BY <2>1 DEF WellFormed
    <3> QED BY <3>1, BridgeAssumption
  <2> HIDE DEF Add
  <2>3. m[n] \in Nat
    BY <1>2, <1>4, <2>2
  <2> QED BY <2>3
<1>5. \A n \in 0 .. N : n # 0 /\ n - 1 \in T => n \in T
  BY <1>4
<1>6. N \in T
  <2>1. N \in 0 .. N /\ 0 \in Int /\ N \in Int
    OBVIOUS
  <2> HIDE DEF T, N
  <2> QED BY <1>3, <1>5, <2>1, InductionUpTo
<1> QED BY <1>1, <1>6

(* A block adds its mints to the account of its epoch. *)
LEMMA EpochMintedAppend ==
    ASSUME NEW X, NEW c \in Seq(X), NEW b \in X, NEW epoch
    PROVE  MintedInEpoch(Append(c, b), epoch)
               = MintedInEpoch(c, epoch)
                     + (IF Len(c) + 1 >= Activation /\ BridgeEpoch(Len(c) + 1) = epoch
                        THEN MintedIn(b.records) ELSE 0)
<1> DEFINE a == Append(c, b)
           N == Len(c)
           Add(d, n) == IF n >= Activation /\ BridgeEpoch(n) = epoch
                        THEN MintedIn(d[n].records) ELSE 0
<1>0. /\ N \in Nat /\ Len(a) = N + 1 /\ a[N + 1] = b
      /\ \A n \in 1 .. N : a[n] = c[n]
  OBVIOUS
<1>1. PICK f : IsEpochMinted(f, Len(a), a, epoch) /\ MintedInEpoch(a, epoch) = f[Len(a)]
  <2>1. Len(a) \in Nat
    BY <1>0
  <2> HIDE DEF a
  <2> QED BY <2>1, MintedInEpochRuns
<1>2. PICK g : IsEpochMinted(g, N, c, epoch) /\ MintedInEpoch(c, epoch) = g[N]
  BY <1>0, MintedInEpochRuns
<1> HIDE DEF a, N
<1>3. f[0] = 0 /\ \A n \in 0 .. N + 1 : n # 0 => f[n] = f[n - 1] + Add(a, n)
  <2> DEFINE F(n) == IF n = 0 THEN 0 ELSE f[n - 1] + Add(a, n)
  <2>1. \A n \in 0 .. N + 1 : f[n] = F(n)
    <3>1. f = [n \in 0 .. N + 1 |-> F(n)]
      BY <1>0, <1>1 DEF IsEpochMinted
    <3> HIDE DEF F
    <3> QED BY <3>1
  <2>2. 0 \in 0 .. N + 1
    BY <1>0
  <2> QED BY <2>1, <2>2
<1>4. g[0] = 0 /\ \A n \in 0 .. N : n # 0 => g[n] = g[n - 1] + Add(c, n)
  <2> DEFINE F(n) == IF n = 0 THEN 0 ELSE g[n - 1] + Add(c, n)
  <2>1. \A n \in 0 .. N : g[n] = F(n)
    <3>1. g = [n \in 0 .. N |-> F(n)]
      BY <1>2 DEF IsEpochMinted
    <3> HIDE DEF F
    <3> QED BY <3>1
  <2>2. 0 \in 0 .. N
    BY <1>0
  <2> QED BY <2>1, <2>2
<1> DEFINE T == {n \in 0 .. N : f[n] = g[n]}
<1>5. 0 \in T
  BY <1>0, <1>3, <1>4
<1>6. ASSUME NEW n \in 0 .. N, n # 0, n - 1 \in T PROVE n \in T
  <2>1. n \in 1 .. N /\ n \in 0 .. N + 1
    BY <1>0, <1>6
  <2>2. a[n] = c[n]
    BY <1>0, <2>1
  <2> QED BY <1>3, <1>4, <1>6, <2>1, <2>2
<1>7. \A n \in 0 .. N : n # 0 /\ n - 1 \in T => n \in T
  BY <1>6
<1>8. f[N] = g[N]
  <2>1. N \in 0 .. N /\ 0 \in Int /\ N \in Int
    BY <1>0
  <2>2. N \in T
    <3> HIDE DEF T
    <3> QED BY <1>5, <1>7, <2>1, InductionUpTo
  <2> QED BY <2>2
<1>9. f[N + 1] = f[N] + Add(a, N + 1)
  <2>1. N + 1 \in 0 .. N + 1 /\ N + 1 # 0 /\ (N + 1) - 1 = N
    BY <1>0
  <2> QED BY <1>3, <2>1
<1>10. MintedInEpoch(a, epoch) = MintedInEpoch(c, epoch) + Add(a, N + 1)
  <2> HIDE DEF Add
  <2> QED BY <1>0, <1>1, <1>2, <1>8, <1>9
<1> QED BY <1>0, <1>10 DEF a, N

(* A block adds its burns to the leaves. *)
LEMMA BurnedAppend ==
    ASSUME NEW X, NEW c \in Seq(X), NEW b \in X
    PROVE  Burned(Append(c, b)) = BurnedIn(Burned(c), b.records, Len(c) + 1)
<1> DEFINE a == Append(c, b)
           N == Len(c)
<1>0. /\ N \in Nat /\ Len(a) = N + 1 /\ a[N + 1] = b
      /\ \A n \in 1 .. N : a[n] = c[n]
  OBVIOUS
<1>1. PICK f : IsChainBurned(f, Len(a), a) /\ Burned(a) = f[Len(a)]
  <2>1. Len(a) \in Nat
    BY <1>0
  <2> HIDE DEF a
  <2> QED BY <2>1, BurnedRuns
<1>2. PICK g : IsChainBurned(g, N, c) /\ Burned(c) = g[N]
  BY <1>0, BurnedRuns
<1> HIDE DEF a, N
<1>3. f[0] = << >> /\ \A n \in 0 .. N + 1 : n # 0 => f[n] = BurnedIn(f[n - 1], a[n].records, n)
  <2> DEFINE F(n) == IF n = 0 THEN << >> ELSE BurnedIn(f[n - 1], a[n].records, n)
  <2>1. \A n \in 0 .. N + 1 : f[n] = F(n)
    <3>1. f = [n \in 0 .. N + 1 |-> F(n)]
      BY <1>0, <1>1 DEF IsChainBurned
    <3> HIDE DEF F
    <3> QED BY <3>1
  <2>2. 0 \in 0 .. N + 1
    BY <1>0
  <2> QED BY <2>1, <2>2
<1>4. g[0] = << >> /\ \A n \in 0 .. N : n # 0 => g[n] = BurnedIn(g[n - 1], c[n].records, n)
  <2> DEFINE F(n) == IF n = 0 THEN << >> ELSE BurnedIn(g[n - 1], c[n].records, n)
  <2>1. \A n \in 0 .. N : g[n] = F(n)
    <3>1. g = [n \in 0 .. N |-> F(n)]
      BY <1>2 DEF IsChainBurned
    <3> HIDE DEF F
    <3> QED BY <3>1
  <2>2. 0 \in 0 .. N
    BY <1>0
  <2> QED BY <2>1, <2>2
<1> DEFINE T == {n \in 0 .. N : f[n] = g[n]}
<1>5. 0 \in T
  BY <1>0, <1>3, <1>4
<1>6. ASSUME NEW n \in 0 .. N, n # 0, n - 1 \in T PROVE n \in T
  <2>1. n \in 1 .. N /\ n \in 0 .. N + 1
    BY <1>0, <1>6
  <2>2. a[n] = c[n]
    BY <1>0, <2>1
  <2> QED BY <1>3, <1>4, <1>6, <2>1, <2>2
<1>7. \A n \in 0 .. N : n # 0 /\ n - 1 \in T => n \in T
  BY <1>6
<1>8. f[N] = g[N]
  <2>1. N \in 0 .. N /\ 0 \in Int /\ N \in Int
    BY <1>0
  <2>2. N \in T
    <3> HIDE DEF T
    <3> QED BY <1>5, <1>7, <2>1, InductionUpTo
  <2> QED BY <2>2
<1>9. f[N + 1] = BurnedIn(f[N], b.records, N + 1)
  <2>1. N + 1 \in 0 .. N + 1 /\ N + 1 # 0 /\ (N + 1) - 1 = N
    BY <1>0
  <2> QED BY <1>0, <1>3, <2>1
<1> QED BY <1>0, <1>1, <1>2, <1>8, <1>9 DEF a, N

(* An empty chain has minted and burned nothing, and a block without records
   adds no burn. *)
LEMMA NothingYet ==
    /\ \A epoch : MintedInEpoch(<< >>, epoch) = 0
    /\ Burned(<< >>) = << >>
    /\ \A before, height : BurnedIn(before, << >>, height) = before
<1>0. Len(<< >>) = 0 /\ 0 \in 0 .. 0
  OBVIOUS
<1>1. ASSUME NEW epoch PROVE MintedInEpoch(<< >>, epoch) = 0
  <2> DEFINE c == << >>
  <2>1. Len(c) = 0
    OBVIOUS
  <2> HIDE DEF c
  <2>2. PICK f : IsEpochMinted(f, Len(c), c, epoch) /\ MintedInEpoch(c, epoch) = f[Len(c)]
    BY <2>1, MintedInEpochRuns
  <2>3. f[0] = 0
    BY <2>1, <2>2 DEF IsEpochMinted
  <2> QED BY <2>1, <2>2, <2>3 DEF c
<1>2. Burned(<< >>) = << >>
  <2> DEFINE c == << >>
  <2>1. Len(c) = 0
    OBVIOUS
  <2> HIDE DEF c
  <2>2. PICK f : IsChainBurned(f, Len(c), c) /\ Burned(c) = f[Len(c)]
    BY <2>1, BurnedRuns
  <2>3. f[0] = << >>
    BY <2>1, <2>2 DEF IsChainBurned
  <2> QED BY <2>1, <2>2, <2>3 DEF c
<1>3. ASSUME NEW before, NEW height PROVE BurnedIn(before, << >>, height) = before
  <2> DEFINE c == << >>
  <2>1. Len(c) = 0
    OBVIOUS
  <2> HIDE DEF c
  <2>2. PICK f : /\ IsBurned(f, Len(c), before, c, height)
                 /\ BurnedIn(before, c, height) = f[Len(c)]
    BY <2>1, BurnedInRuns
  <2>3. f[0] = before
    BY <2>1, <2>2 DEF IsBurned
  <2> QED BY <2>1, <2>2, <2>3 DEF c
<1> QED BY <1>1, <1>2, <1>3

-----------------------------------------------------------------------------
(* The index of a chain.                                                   *)

\* The leaves of a root are those of the tree up to height g.
Cut(tree, root, g) ==
    /\ root \in Seq(Leaf) /\ Len(root) <= Len(tree)
    /\ \A i \in 1 .. Len(root) : root[i] = tree[i] /\ tree[i].height <= g
    /\ \A i \in 1 .. Len(tree) : i > Len(root) => tree[i].height > g

NullifiersOK(nullifiers, c) ==
    /\ IsMap(nullifiers)
    /\ \A g \in 1 .. Len(c) : \A i \in 1 .. Len(c[g].records) :
           c[g].records[i].kind = "MINT" => c[g].records[i].deposit \in DOMAIN nullifiers

MintedOK(minted, c) ==
    /\ IsMap(minted) /\ \A e \in DOMAIN minted : minted[e] \in Nat \ {0}
    /\ \A e \in Nat : /\ Lookup(minted, e) = MintedInEpoch(c, e)
                      /\ Lookup(minted, e) <= MaxPerEpoch

RootsOK(roots, tree, c) ==
    /\ IsMap(roots) /\ DOMAIN roots = Activation .. Len(c)
    /\ \A g \in Activation .. Len(c) : roots[g] = Burned(Hash(c, g)) /\ Cut(tree, roots[g], g)

\* What the index of a chain says of it.
IndexOK(P, c) ==
    /\ IsIndex(P)
    /\ LightOK(P.client, P.anchors, Len(c))
    /\ NullifiersOK(P.nullifiers, c)
    /\ MintedOK(P.minted, c)
    /\ P.tree = Burned(c) /\ TreeOK(P.tree, Len(c))
    /\ RootsOK(P.roots, P.tree, c)
    /\ P.tip = IF Len(c) >= Activation THEN c ELSE NoBlock

(* The records of a block of the model. *)
LEMMA BlockRecords ==
    ASSUME NEW b \in Blocks
    PROVE  /\ Len(b.records) \in Nat /\ DOMAIN b.records = 1 .. Len(b.records)
           /\ \A i \in 1 .. Len(b.records) : WellFormed(b.records[i]) /\ b.records[i] \in AllRecords
<1>1. /\ b.records \in Seq(Range(b.records))
      /\ \A i \in DOMAIN b.records : WellFormed(b.records[i])
  BY BlocksAssumption
<1> DEFINE x == b.records
           R == Range(x)
<1>2. Len(x) \in Nat /\ DOMAIN x = 1 .. Len(x) /\ \A i \in 1 .. Len(x) : x[i] \in R
  <2>1. x \in Seq(R)
    BY <1>1
  <2> HIDE DEF R, x
  <2> QED BY <2>1
<1>3. R \in {Range(q.records) : q \in Blocks}
  OBVIOUS
<1> HIDE DEF R
<1> QED BY <1>1, <1>2, <1>3 DEF AllRecords

(* The epoch of a bridge-active block is a number. *)
LEMMA EpochType ==
    ASSUME NEW h \in Nat, h >= Activation
    PROVE  BridgeEpoch(h) \in Nat
<1>1. h - Activation \in Nat /\ EpochLength \in Nat \ {0}
  BY BridgeAssumption
<1> QED BY <1>1 DEF BridgeEpoch

(* One B3 block later the light client is what it was. *)
LEMMA LightLater ==
    ASSUME NEW client, NEW anchors, NEW h \in Nat, LightOK(client, anchors, h)
    PROVE  LightOK(client, anchors, h + 1)
<1>1. \A n \in 0 .. h : n \in 0 .. h + 1
  OBVIOUS
<1> QED BY <1>1 DEF LightOK

\* What the records of a block b after chain c leave of the index P.
BlockDone(s, P, c, b) ==
    /\ IsScratch(s) /\ s.ok
    /\ LightOK(s.client, s.anchors, Len(c) + 1) /\ Extends(s.anchors, P.anchors)
    /\ P.client # {} => s.client # {}
    /\ MintsDone(s, Len(b.records), MintedIn(b.records), P, b.records, BridgeEpoch(Len(c) + 1))
    /\ s.tree = BurnedIn(P.tree, b.records, Len(c) + 1)
    /\ TreeOK(s.tree, Len(c) + 1) /\ Grows(s.tree, P.tree, Len(c) + 1)

(* The scratch state at the end of an accepted block. *)
LEMMA BlockVerified ==
    ASSUME NEW c \in Seq(Blocks), NEW b \in Blocks, NEW P, IndexOK(P, c),
           Len(c) + 1 >= Activation, VerifyBlock(P, Append(c, b)).ok
    PROVE  BlockDone(Verified(Scratch(P), b.records, Append(c, b), b.time), P, c, b)
<1> DEFINE at == Append(c, b)
           records == b.records
           s == Verified(Scratch(P), records, at, b.time)
           epoch == BridgeEpoch(Len(at))
<1>0. Len(c) \in Nat /\ Len(at) = Len(c) + 1 /\ Last(at) = b /\ Len(at) \in Nat
  BY HashOfAppend
<1>1. Len(records) \in Nat
      /\ \A i \in 1 .. Len(records) : WellFormed(records[i]) /\ records[i] \in AllRecords
  BY BlockRecords
<1>2. s.ok
  BY <1>0 DEF VerifyBlock, DeltaOf
<1> HIDE DEF at, records
<1>3. PICK f : /\ IsVerified(f, Len(records), Scratch(P), records, at, b.time)
               /\ s = f[Len(records)]
  BY <1>1, VerifiedRuns
<1>4. LoopOf(f, P, records, at, b.time)
  BY <1>0, <1>1, <1>3 DEF LoopOf
<1>5. LightOK(P.client, P.anchors, Len(at))
  <2>1. LightOK(P.client, P.anchors, Len(c))
    BY DEF IndexOK
  <2> QED BY <1>0, <2>1, LightLater
<1>6. Lookup(P.minted, epoch) \in Nat /\ Lookup(P.minted, epoch) <= MaxPerEpoch
  <2>1. epoch \in Nat
    BY <1>0, EpochType
  <2>2. /\ \A e \in DOMAIN P.minted : P.minted[e] \in Nat \ {0}
        /\ \A e \in Nat : Lookup(P.minted, e) <= MaxPerEpoch
    BY DEF IndexOK, MintedOK
  <2> HIDE DEF epoch
  <2>3. Lookup(P.minted, epoch) \in Nat
    BY <2>2 DEF Lookup
  <2> QED BY <2>1, <2>2, <2>3
<1>7. TreeOK(P.tree, Len(at))
  <2>1. \A n \in 0 .. Len(c) : n \in 0 .. Len(at)
    BY <1>0
  <2>2. TreeOK(P.tree, Len(c))
    BY DEF IndexOK
  <2> QED BY <2>1, <2>2 DEF TreeOK
<1> DEFINE N == Len(records)
<1>8. f[N].ok /\ N \in 0 .. N
  BY <1>1, <1>2, <1>3
<1>9. /\ IsScratch(f[N]) /\ LightOK(f[N].client, f[N].anchors, Len(at))
      /\ Extends(f[N].anchors, P.anchors) /\ (P.client # {} => f[N].client # {})
  BY <1>4, <1>5, <1>8, LoopLight
<1>10. MintsDone(f[N], N, MintedIn(records), P, records, epoch)
  BY <1>4, <1>5, <1>6, <1>8, LoopMints
<1>11. /\ f[N].tree = BurnedIn(P.tree, records, Len(at))
       /\ TreeOK(f[N].tree, Len(at)) /\ Grows(f[N].tree, P.tree, Len(at))
  BY <1>1, <1>4, <1>5, <1>7, <1>8, LoopBurns
<1> HIDE DEF s
<1>12. BlockDone(s, P, c, b)
  BY <1>0, <1>2, <1>3, <1>9, <1>10, <1>11 DEF BlockDone, records
<1> QED BY <1>12 DEF s, at, records

(* The delta of an accepted block, and the index it leads to. *)
LEMMA DeltaFields ==
    ASSUME NEW c \in Seq(Blocks), NEW b \in Blocks, NEW P, IndexOK(P, c),
           Len(c) + 1 >= Activation, VerifyBlock(P, Append(c, b)).ok
    PROVE  LET at == Append(c, b)
               s == Verified(Scratch(P), b.records, at, b.time)
               d == VerifyBlock(P, at)
               Q == ConnectBlock(P, d)
               e == BridgeEpoch(Len(c) + 1)
           IN  /\ IsIndex(Q) /\ Q.client = s.client /\ Q.tree = s.tree /\ Q.tip = at
               /\ Q.anchors = s.anchors
               /\ Q.nullifiers = With(P.nullifiers, [n \in s.nullifiers_overlay |-> at])
               /\ Q.minted = With(P.minted, [x \in {x \in {e} : s.minted_this_block > 0} |-> s.minted[x]])
               /\ Q.roots = With(P.roots, [g \in {Len(c) + 1} |-> s.tree])
<1> DEFINE at == Append(c, b)
           s == Verified(Scratch(P), b.records, at, b.time)
           d == VerifyBlock(P, at)
           Q == ConnectBlock(P, d)
           e == BridgeEpoch(Len(c) + 1)
           added == Restrict(s.anchors, DOMAIN s.anchors \ DOMAIN P.anchors)
<1>0. Len(c) \in Nat /\ Len(at) = Len(c) + 1 /\ Last(at) = b
  BY HashOfAppend
<1>1. BlockDone(s, P, c, b)
  BY BlockVerified
<1> HIDE DEF at, s
<1>2. /\ d.client_after = s.client /\ d.tree_after = s.tree /\ d.block = at
      /\ d.anchors_added = added
      /\ d.nullifiers_added = s.nullifiers_overlay
      /\ d.epoch_changes = [x \in {x \in {e} : s.minted_this_block > 0} |->
                               [before |-> Lookup(P.minted, x), after |-> s.minted[x]]]
  BY <1>0 DEF VerifyBlock, DeltaOf, s
<1> HIDE DEF d, e
<1>3. With(P.anchors, added) = s.anchors
  <2>1. IsMap(s.anchors) /\ Extends(s.anchors, P.anchors)
    BY <1>1 DEF BlockDone, LightOK
  <2>2. /\ DOMAIN added = DOMAIN s.anchors \ DOMAIN P.anchors
        /\ \A a \in DOMAIN added : added[a] = s.anchors[a]
    BY DEF Restrict
  <2> HIDE DEF added
  <2>3. DOMAIN P.anchors \union DOMAIN added = DOMAIN s.anchors
    BY <2>1, <2>2 DEF Extends
  <2>4. \A a \in DOMAIN s.anchors :
            (IF a \in DOMAIN added THEN added[a] ELSE P.anchors[a]) = s.anchors[a]
    BY <2>1, <2>2, <2>3 DEF Extends
  <2> QED BY <2>1, <2>3, <2>4 DEF With, IsMap
<1>4. [x \in DOMAIN d.epoch_changes |-> d.epoch_changes[x].after]
          = [x \in {x \in {e} : s.minted_this_block > 0} |-> s.minted[x]]
  BY <1>2
<1>5. /\ Q.client = d.client_after /\ Q.tree = d.tree_after /\ Q.tip = d.block
      /\ Q.anchors = With(P.anchors, d.anchors_added)
      /\ Q.nullifiers = With(P.nullifiers, [n \in d.nullifiers_added |-> d.block])
      /\ Q.minted = With(P.minted, [x \in DOMAIN d.epoch_changes |-> d.epoch_changes[x].after])
      /\ Q.roots = With(P.roots, [g \in {Len(d.block)} |-> d.tree_after])
      /\ IsIndex(Q)
  BY DEF ConnectBlock, IsIndex
<1> HIDE DEF Q, added
<1>6. /\ IsIndex(Q) /\ Q.client = s.client /\ Q.tree = s.tree /\ Q.tip = at
      /\ Q.anchors = s.anchors
      /\ Q.nullifiers = With(P.nullifiers, [n \in s.nullifiers_overlay |-> at])
      /\ Q.minted = With(P.minted, [x \in {x \in {e} : s.minted_this_block > 0} |-> s.minted[x]])
      /\ Q.roots = With(P.roots, [g \in {Len(c) + 1} |-> s.tree])
  <2>1. Q.client = s.client /\ Q.tree = s.tree /\ Q.tip = at /\ Q.anchors = s.anchors
    BY <1>2, <1>3, <1>5
  <2>2. Q.minted = With(P.minted, [x \in {x \in {e} : s.minted_this_block > 0} |-> s.minted[x]])
    BY <1>4, <1>5
  <2>3. Q.nullifiers = With(P.nullifiers, [n \in s.nullifiers_overlay |-> at])
    BY <1>2, <1>5
  <2>4. Q.roots = With(P.roots, [g \in {Len(c) + 1} |-> s.tree])
    BY <1>0, <1>2, <1>5
  <2> QED BY <1>5, <2>1, <2>2, <2>3, <2>4
<1> QED BY <1>6 DEF Q, d, s, at, e

(* The nullifiers after a block. *)
LEMMA NullifiersConnect ==
    ASSUME NEW c \in Seq(Blocks), NEW b \in Blocks, NEW P, NullifiersOK(P.nullifiers, c),
           NEW s, BlockDone(s, P, c, b), NEW at
    PROVE  NullifiersOK(With(P.nullifiers, [n \in s.nullifiers_overlay |-> at]), Append(c, b))
<1> DEFINE new == [n \in s.nullifiers_overlay |-> at]
           more == With(P.nullifiers, new)
           a == Append(c, b)
<1>1. IsMap(more) /\ DOMAIN more = DOMAIN P.nullifiers \union s.nullifiers_overlay
  <2>1. DOMAIN new = s.nullifiers_overlay
    OBVIOUS
  <2>2. IsMap(more) /\ DOMAIN more = DOMAIN P.nullifiers \union DOMAIN new
    <3> HIDE DEF new
    <3> QED BY WithFacts
  <2> HIDE DEF new, more
  <2> QED BY <2>1, <2>2
<1>2. /\ Len(c) \in Nat /\ Len(a) = Len(c) + 1 /\ a[Len(c) + 1] = b
      /\ \A g \in 1 .. Len(c) : a[g] = c[g]
  OBVIOUS
<1> HIDE DEF more, a
<1>3. ASSUME NEW g \in 1 .. Len(a), NEW i \in 1 .. Len(a[g].records),
             a[g].records[i].kind = "MINT"
      PROVE  a[g].records[i].deposit \in DOMAIN more
  <2>1. CASE g = Len(c) + 1
    <3>1. \A k \in 1 .. Len(b.records) :
              b.records[k].kind = "MINT" => b.records[k].deposit \in s.nullifiers_overlay
      BY DEF BlockDone, MintsDone
    <3> QED BY <1>1, <1>2, <1>3, <2>1, <3>1
  <2>2. CASE g \in 1 .. Len(c)
    BY <1>1, <1>2, <1>3, <2>2 DEF NullifiersOK
  <2> QED BY <1>2, <2>1, <2>2
<1>4. NullifiersOK(more, a)
  BY <1>1, <1>3 DEF NullifiersOK
<1> QED BY <1>4 DEF more, a

(* The accounts of the mint epochs after a block. *)
LEMMA MintedConnect ==
    ASSUME NEW c \in Seq(Blocks), NEW b \in Blocks, NEW P, MintedOK(P.minted, c),
           Len(c) + 1 >= Activation, NEW s, BlockDone(s, P, c, b)
    PROVE  LET e == BridgeEpoch(Len(c) + 1)
           IN  MintedOK(With(P.minted, [x \in {x \in {e} : s.minted_this_block > 0} |-> s.minted[x]]),
                        Append(c, b))
<1> DEFINE h == Len(c) + 1
           e == BridgeEpoch(h)
           new == [x \in {x \in {e} : s.minted_this_block > 0} |-> s.minted[x]]
           more == With(P.minted, new)
           a == Append(c, b)
           sum == MintedIn(b.records)
<1>0. Len(c) \in Nat /\ h \in Nat /\ e \in Nat
  BY EpochType
<1>1. /\ sum \in Nat /\ s.minted_this_block = sum
      /\ Lookup(s.minted, e) = Lookup(P.minted, e) + sum
      /\ Lookup(s.minted, e) <= MaxPerEpoch
      /\ sum > 0 => e \in DOMAIN s.minted
  BY DEF BlockDone, MintsDone
<1>2. /\ IsMap(P.minted) /\ \A x \in DOMAIN P.minted : P.minted[x] \in Nat \ {0}
      /\ \A x \in Nat : /\ Lookup(P.minted, x) = MintedInEpoch(c, x)
                        /\ Lookup(P.minted, x) <= MaxPerEpoch
  BY DEF MintedOK
<1>3. \A x \in Nat : Lookup(P.minted, x) \in Nat
  BY <1>2 DEF Lookup
<1>4. \A x \in Nat : MintedInEpoch(a, x)
                         = Lookup(P.minted, x) + (IF x = e THEN sum ELSE 0)
  <2> TAKE x \in Nat
  <2>1. MintedInEpoch(a, x) = MintedInEpoch(c, x)
            + (IF h >= Activation /\ BridgeEpoch(h) = x THEN sum ELSE 0)
    BY EpochMintedAppend
  <2> QED BY <1>2, <2>1
<1> HIDE DEF e, h, a, sum
<1>5. /\ IsMap(more) /\ DOMAIN more = DOMAIN P.minted \union DOMAIN new
      /\ \A k \in DOMAIN new : more[k] = new[k]
      /\ \A k \in DOMAIN P.minted : k \notin DOMAIN new => more[k] = P.minted[k]
  <2> HIDE DEF new
  <2> QED BY WithFacts
<1>6. CASE sum = 0
  <2>1. DOMAIN new = {}
    BY <1>1, <1>6
  <2> HIDE DEF new, more
  <2>2. DOMAIN more = DOMAIN P.minted /\ \A k \in DOMAIN P.minted : more[k] = P.minted[k]
    BY <1>5, <2>1
  <2>3. \A x \in Nat : Lookup(more, x) = Lookup(P.minted, x)
    BY <2>2 DEF Lookup
  <2>4. \A x \in Nat : MintedInEpoch(a, x) = Lookup(P.minted, x)
    BY <1>3, <1>4, <1>6
  <2>5. MintedOK(more, a)
    BY <1>2, <1>5, <2>2, <2>3, <2>4 DEF MintedOK
  <2> QED BY <2>5 DEF more, new, a, e, h
<1>7. CASE sum # 0
  <2>1. sum > 0
    BY <1>1, <1>7
  <2>2. DOMAIN new = {e} /\ new[e] = s.minted[e]
    BY <1>1, <2>1
  <2>3. s.minted[e] = Lookup(P.minted, e) + sum /\ s.minted[e] <= MaxPerEpoch
    BY <1>1, <2>1 DEF Lookup
  <2> HIDE DEF new, more
  <2>4. /\ e \in DOMAIN more /\ more[e] = Lookup(P.minted, e) + sum
        /\ more[e] <= MaxPerEpoch
        /\ \A k : k # e => (k \in DOMAIN more <=> k \in DOMAIN P.minted)
        /\ \A k \in DOMAIN P.minted : k # e => more[k] = P.minted[k]
    BY <1>5, <2>2, <2>3
  <2>5. \A x \in DOMAIN more : more[x] \in Nat \ {0}
    <3>1. more[e] \in Nat \ {0}
      <4>1. Lookup(P.minted, e) \in Nat
        BY <1>0, <1>3
      <4> QED BY <1>1, <1>7, <2>4, <4>1
    <3> QED BY <1>2, <2>4, <3>1
  <2>6. ASSUME NEW x \in Nat
        PROVE  Lookup(more, x) = MintedInEpoch(a, x) /\ Lookup(more, x) <= MaxPerEpoch
    <3>1. CASE x = e
      <4>1. Lookup(more, e) = more[e]
        BY <2>4 DEF Lookup
      <4> QED BY <1>4, <2>4, <3>1, <4>1
    <3>2. CASE x # e
      <4>1. Lookup(more, x) = Lookup(P.minted, x)
        BY <2>4, <3>2 DEF Lookup
      <4>2. MintedInEpoch(a, x) = Lookup(P.minted, x)
        BY <1>3, <1>4, <3>2
      <4> QED BY <1>2, <4>1, <4>2
    <3> QED BY <3>1, <3>2
  <2>7. MintedOK(more, a)
    BY <1>5, <2>5, <2>6 DEF MintedOK
  <2> QED BY <2>7 DEF more, new, a, e, h
<1> QED BY <1>6, <1>7

(* The withdrawal roots after a block. *)
LEMMA RootsConnect ==
    ASSUME NEW c \in Seq(Blocks), NEW b \in Blocks, NEW P, RootsOK(P.roots, P.tree, c),
           P.tree = Burned(c), TreeOK(P.tree, Len(c)), Len(c) + 1 >= Activation,
           NEW s, BlockDone(s, P, c, b)
    PROVE  /\ s.tree = Burned(Append(c, b))
           /\ RootsOK(With(P.roots, [g \in {Len(c) + 1} |-> s.tree]), s.tree, Append(c, b))
<1> DEFINE h == Len(c) + 1
           new == [g \in {h} |-> s.tree]
           more == With(P.roots, new)
           a == Append(c, b)
<1>0. /\ Len(c) \in Nat /\ h \in Nat /\ Len(a) = h /\ Activation \in Nat \ {0}
      /\ \A g \in 0 .. Len(c) : Hash(a, g) = Hash(c, g)
      /\ Hash(a, h) = a
  BY HashOfAppend, BridgeAssumption
<1>1. /\ s.tree = BurnedIn(P.tree, b.records, h)
      /\ TreeOK(s.tree, h) /\ Grows(s.tree, P.tree, h)
  BY DEF BlockDone
<1>2. s.tree = Burned(a)
  BY <1>1, BurnedAppend
<1>3. /\ IsMap(P.roots) /\ DOMAIN P.roots = Activation .. Len(c)
      /\ \A g \in Activation .. Len(c) :
             P.roots[g] = Burned(Hash(c, g)) /\ Cut(P.tree, P.roots[g], g)
  BY DEF RootsOK
<1> HIDE DEF a
<1>4. /\ IsMap(more) /\ DOMAIN more = DOMAIN P.roots \union {h} /\ more[h] = s.tree
      /\ \A k \in DOMAIN P.roots : k # h => more[k] = P.roots[k]
  <2>1. DOMAIN new = {h} /\ new[h] = s.tree
    OBVIOUS
  <2>2. /\ IsMap(more) /\ DOMAIN more = DOMAIN P.roots \union DOMAIN new
        /\ \A k \in DOMAIN new : more[k] = new[k]
        /\ \A k \in DOMAIN P.roots : k \notin DOMAIN new => more[k] = P.roots[k]
    <3> HIDE DEF new
    <3> QED BY WithFacts
  <2> HIDE DEF new, more
  <2> QED BY <2>1, <2>2
<1> HIDE DEF more, h, new
<1>5. h = Len(c) + 1 /\ h >= Activation
  BY DEF h
<1>6. DOMAIN more = Activation .. h
  BY <1>0, <1>3, <1>4, <1>5
<1>7. /\ s.tree \in Seq(Leaf) /\ Len(s.tree) \in Nat
      /\ P.tree \in Seq(Leaf) /\ Len(P.tree) \in Nat
  BY <1>1 DEF TreeOK
<1>8. ASSUME NEW g \in Activation .. h
      PROVE  more[g] = Burned(Hash(a, g)) /\ Cut(s.tree, more[g], g)
  <2>1. CASE g = h
    <3>1. Cut(s.tree, s.tree, h)
      <4>1. \A i \in 1 .. Len(s.tree) : s.tree[i].height <= h
        BY <1>0, <1>1 DEF TreeOK
      <4> QED BY <1>7, <4>1 DEF Cut
    <3> QED BY <1>0, <1>2, <1>4, <2>1, <3>1
  <2>2. CASE g # h
    <3>1. g \in Activation .. Len(c) /\ g \in 0 .. Len(c)
      BY <1>0, <1>5, <2>2
    <3> DEFINE root == P.roots[g]
    <3>2. more[g] = root /\ root = Burned(Hash(a, g)) /\ Cut(P.tree, root, g)
      BY <1>0, <1>3, <1>4, <2>2, <3>1
    <3>3. Cut(s.tree, root, g)
      <4> HIDE DEF root
      <4>1. /\ root \in Seq(Leaf) /\ Len(root) \in Nat /\ Len(root) <= Len(P.tree)
            /\ \A i \in 1 .. Len(root) : root[i] = P.tree[i] /\ P.tree[i].height <= g
            /\ \A i \in 1 .. Len(P.tree) : i > Len(root) => P.tree[i].height > g
        BY <3>2 DEF Cut
      <4>2. /\ Len(P.tree) <= Len(s.tree)
            /\ \A i \in 1 .. Len(P.tree) : s.tree[i] = P.tree[i]
            /\ \A i \in 1 .. Len(s.tree) : i > Len(P.tree) => s.tree[i].height = h
        BY <1>1 DEF Grows
      <4>3. Len(root) <= Len(s.tree)
        BY <1>7, <4>1, <4>2
      <4>4. \A i \in 1 .. Len(root) : root[i] = s.tree[i] /\ s.tree[i].height <= g
        <5>1. \A i \in 1 .. Len(root) : i \in 1 .. Len(P.tree)
          BY <1>7, <4>1
        <5> QED BY <4>1, <4>2, <5>1
      <4>5. ASSUME NEW i \in 1 .. Len(s.tree), i > Len(root) PROVE s.tree[i].height > g
        <5>1. CASE i > Len(P.tree)
          <6>1. s.tree[i].height = h /\ h > g
            BY <1>0, <1>5, <3>1, <4>2, <5>1
          <6> QED BY <6>1
        <5>2. CASE ~(i > Len(P.tree))
          <6>1. i \in 1 .. Len(P.tree)
            BY <1>7, <5>2
          <6> QED BY <4>1, <4>2, <4>5, <6>1
        <5> QED BY <5>1, <5>2
      <4> QED BY <4>1, <4>3, <4>4, <4>5 DEF Cut
    <3> QED BY <3>2, <3>3
  <2> QED BY <2>1, <2>2
<1>9. RootsOK(more, s.tree, a)
  BY <1>0, <1>4, <1>6, <1>8 DEF RootsOK
<1> QED BY <1>2, <1>9 DEF more, new, a, h

(* The index an accepted block leads to is the index of the longer chain, and
   its delta extends the index of the parent: of what ConnectBlock checks, only
   the advance of the whole block can fail. *)
LEMMA IndexConnect ==
    ASSUME NEW c \in Seq(Blocks), NEW b \in Blocks, NEW P, IndexOK(P, c),
           Len(c) + 1 >= Activation, VerifyBlock(P, Append(c, b)).ok
    PROVE  LET d == VerifyBlock(P, Append(c, b))
           IN  DeltaExtends(P, d) /\ IndexOK(ConnectBlock(P, d), Append(c, b))
<1> DEFINE at == Append(c, b)
           s == Verified(Scratch(P), b.records, at, b.time)
           d == VerifyBlock(P, at)
           Q == ConnectBlock(P, d)
           e == BridgeEpoch(Len(c) + 1)
<1>0. Len(c) \in Nat /\ Len(at) = Len(c) + 1 /\ Last(at) = b
  BY HashOfAppend
<1>1. BlockDone(s, P, c, b)
  BY BlockVerified
<1>2. /\ IsIndex(Q) /\ Q.client = s.client /\ Q.tree = s.tree /\ Q.tip = at
      /\ Q.anchors = s.anchors
      /\ Q.nullifiers = With(P.nullifiers, [n \in s.nullifiers_overlay |-> at])
      /\ Q.minted = With(P.minted, [x \in {x \in {e} : s.minted_this_block > 0} |-> s.minted[x]])
      /\ Q.roots = With(P.roots, [g \in {Len(c) + 1} |-> s.tree])
  BY DeltaFields
<1>3. /\ NullifiersOK(P.nullifiers, c) /\ MintedOK(P.minted, c) /\ P.tree = Burned(c)
      /\ TreeOK(P.tree, Len(c)) /\ RootsOK(P.roots, P.tree, c)
      /\ P.tip = IF Len(c) >= Activation THEN c ELSE NoBlock
  BY DEF IndexOK
<1>4. DeltaExtends(P, d)
  <2>1. /\ d.previous = P.tip /\ d.block = at /\ d.client_before = P.client
        /\ d.connection_before = P.connection /\ d.tree_before = P.tree
        /\ d.nullifiers_added = s.nullifiers_overlay
        /\ d.anchors_added = Restrict(s.anchors, DOMAIN s.anchors \ DOMAIN P.anchors)
        /\ d.epoch_changes = [x \in {x \in {e} : s.minted_this_block > 0} |->
                                 [before |-> Lookup(P.minted, x), after |-> s.minted[x]]]
    BY <1>0 DEF VerifyBlock, DeltaOf
  <2> HIDE DEF d, s
  <2>2. P.tip # NoBlock => Len(d.block) = Len(P.tip) + 1
    BY <1>0, <1>3, <2>1
  <2>3. DOMAIN d.anchors_added \intersect DOMAIN P.anchors = {}
    BY <2>1 DEF Restrict
  <2>4. d.nullifiers_added \intersect DOMAIN P.nullifiers = {}
    BY <1>1, <2>1 DEF BlockDone, MintsDone
  <2>5. \A x \in DOMAIN d.epoch_changes : d.epoch_changes[x].before = Lookup(P.minted, x)
    BY <2>1
  <2>6. Len(d.block) \notin DOMAIN P.roots
    BY <1>0, <1>3, <2>1, BridgeAssumption DEF RootsOK
  <2> QED BY <2>1, <2>2, <2>3, <2>4, <2>5, <2>6 DEF DeltaExtends
<1> HIDE DEF at, s, d, Q, e
<1>5. LightOK(Q.client, Q.anchors, Len(at))
  BY <1>0, <1>1, <1>2 DEF BlockDone
<1>6. NullifiersOK(Q.nullifiers, at)
  <2>1. NullifiersOK(With(P.nullifiers, [n \in s.nullifiers_overlay |-> at]), Append(c, b))
    BY <1>1, <1>3, NullifiersConnect
  <2>2. NullifiersOK(Q.nullifiers, Append(c, b))
    BY <1>2, <2>1
  <2> QED BY <2>2 DEF at
<1>7. MintedOK(Q.minted, at)
  <2>1. MintedOK(With(P.minted, [x \in {x \in {e} : s.minted_this_block > 0} |-> s.minted[x]]),
                 Append(c, b))
    BY <1>1, <1>3, MintedConnect DEF e
  <2> QED BY <1>2, <2>1 DEF at
<1>8. Q.tree = Burned(at) /\ RootsOK(Q.roots, Q.tree, at)
  <2>1. /\ s.tree = Burned(Append(c, b))
        /\ RootsOK(With(P.roots, [g \in {Len(c) + 1} |-> s.tree]), s.tree, Append(c, b))
    BY <1>1, <1>3, RootsConnect
  <2> QED BY <1>2, <2>1 DEF at
<1>9. TreeOK(Q.tree, Len(at))
  BY <1>0, <1>1, <1>2 DEF BlockDone
<1>10. Q.tip = IF Len(at) >= Activation THEN at ELSE NoBlock
  BY <1>0, <1>2
<1>11. IndexOK(Q, at)
  BY <1>2, <1>5, <1>6, <1>7, <1>8, <1>9, <1>10 DEF IndexOK
<1> QED BY <1>4, <1>11 DEF Q, d, at

-----------------------------------------------------------------------------
(* The indexes of all heights of a chain, and the deltas between them.     *)

\* The delta of the block at height h, when r[g] is the index of height g.
Delta(r, c, h) == VerifyBlock(r[h - 1], Hash(c, h))

IsSeq(x) == \E S : x \in Seq(S)

\* Retained deltas at height h: the last ones, in order, no more than retained.
IsHistory(H, r, c, h) ==
    /\ IsSeq(H) /\ Len(H) <= UndoBlocks
    /\ Len(H) = 0 \/ Activation + Len(H) <= h + 1
    /\ \A i \in 1 .. Len(H) : H[i] = Delta(r, c, (h - Len(H)) + i)

\* As many as there can be.
IsFull(H, h) == h >= Activation => Len(H) = UndoBlocks \/ Activation + Len(H) = h + 1

\* The floor is the first store the chain had.
FloorOK(fl, r, c, h) ==
    /\ Len(fl.at) \in Activation .. h /\ fl.at = Hash(c, Len(fl.at))
    /\ r[Len(fl.at)].client = {fl.store}
    /\ \A g \in 0 .. h : g < Len(fl.at) => r[g].client = {}

\* Where the store at height h comes from: the last block that changed it, and
\* the first one that set it.
ConnectionOK(r, c, h) ==
    LET P == r[h]
        k == Len(P.connection)
    IN  /\ P.client = {} => /\ P.connection = NoBlock /\ P.floor = {}
                            /\ \A g \in 0 .. h : r[g].client = {}
        /\ P.client # {} =>
               /\ k \in Activation .. h /\ P.connection = Hash(c, k)
               /\ r[k].client = P.client
               /\ \A g \in k .. h : r[g].connection = P.connection
               /\ \E fl : P.floor = {fl} /\ FloorOK(fl, r, c, h)

HeightOK(r, c, h) ==
    /\ IndexOK(r[h], Hash(c, h))
    /\ ConnectionOK(r, c, h)
    /\ IsHistory(r[h].history, r, c, h) /\ IsFull(r[h].history, h)
    /\ h < Activation => r[h] = EmptyIndex
    /\ h >= Activation => /\ Delta(r, c, h).ok /\ DeltaExtends(r[h - 1], Delta(r, c, h))
                          /\ r[h] = ConnectBlock(r[h - 1], Delta(r, c, h))

Replays(r, c) == \A h \in 0 .. Len(c) : HeightOK(r, c, h)

\* The blocks up to height h advance the light client by no more than the window.
Fits(r, c, h) == \A g \in Activation .. h : AdvanceReachable(Delta(r, c, g))

\* Two indexes that differ at most in the deltas they retain.
SameState(I, P) ==
    /\ I.client = P.client /\ I.connection = P.connection /\ I.floor = P.floor
    /\ I.anchors = P.anchors /\ I.nullifiers = P.nullifiers /\ I.minted = P.minted
    /\ I.tree = P.tree /\ I.roots = P.roots /\ I.tip = P.tip

(* What is retained plays no part in verifying and connecting a block. *)
LEMMA SameVerifies ==
    ASSUME NEW I, NEW P, SameState(I, P), NEW at
    PROVE  /\ VerifyBlock(I, at) = VerifyBlock(P, at)
           /\ \A d : DeltaExtends(I, d) <=> DeltaExtends(P, d)
           /\ \A d : /\ SameState(ConnectBlock(I, d), ConnectBlock(P, d))
                     /\ IsIndex(ConnectBlock(I, d))
                     /\ ConnectBlock(I, d).history = Retained(Append(I.history, d))
<1>1. Scratch(I) = Scratch(P)
  BY DEF Scratch, SameState
<1>2. VerifyBlock(I, at) = VerifyBlock(P, at)
  BY <1>1 DEF VerifyBlock, DeltaOf, SameState
<1>3. ASSUME NEW d PROVE DeltaExtends(I, d) <=> DeltaExtends(P, d)
  BY DEF DeltaExtends, SameState
<1>4. ASSUME NEW d
      PROVE  /\ SameState(ConnectBlock(I, d), ConnectBlock(P, d))
             /\ IsIndex(ConnectBlock(I, d))
             /\ ConnectBlock(I, d).history = Retained(Append(I.history, d))
  BY DEF ConnectBlock, SameState, IsIndex
<1> QED BY <1>2, <1>3, <1>4

(* What holds at a height depends on the chain up to it only. *)
LEMMA HistoryLocal ==
    ASSUME NEW h \in Nat, NEW r, NEW c, NEW r2, NEW c2,
           \A g \in 0 .. h : r2[g] = r[g] /\ Hash(c2, g) = Hash(c, g),
           NEW H, IsHistory(H, r, c, h)
    PROVE  IsHistory(H, r2, c2, h)
<1>1. Len(H) \in Nat
  <2>1. PICK S : H \in Seq(S)
    BY DEF IsHistory, IsSeq
  <2> QED BY <2>1
<1>2. ASSUME NEW i \in 1 .. Len(H) PROVE H[i] = Delta(r2, c2, (h - Len(H)) + i)
  <2> DEFINE g == (h - Len(H)) + i
  <2>1. Activation + Len(H) <= h + 1
    BY <1>1, <1>2 DEF IsHistory
  <2>2. g \in 0 .. h /\ g - 1 \in 0 .. h
    BY <1>1, <1>2, <2>1, BridgeAssumption
  <2>3. H[i] = Delta(r, c, g)
    BY DEF IsHistory
  <2> HIDE DEF g
  <2>4. H[i] = Delta(r2, c2, g)
    BY <2>2, <2>3 DEF Delta
  <2> QED BY <2>4 DEF g
<1> QED BY <1>2 DEF IsHistory

(* The same for all that holds at a height. *)
LEMMA HeightLocal ==
    ASSUME NEW h \in Nat, NEW r, NEW c, NEW r2, NEW c2,
           \A g \in 0 .. h : r2[g] = r[g] /\ Hash(c2, g) = Hash(c, g),
           HeightOK(r, c, h)
    PROVE  HeightOK(r2, c2, h)
<1>0. h \in 0 .. h /\ (h # 0 => h - 1 \in 0 .. h) /\ Activation \in Nat \ {0}
  BY BridgeAssumption
<1>1. r2[h] = r[h] /\ Hash(c2, h) = Hash(c, h)
  BY <1>0
<1>2. h >= Activation => Delta(r2, c2, h) = Delta(r, c, h) /\ r2[h - 1] = r[h - 1]
  <2> SUFFICES ASSUME h >= Activation
               PROVE  Delta(r2, c2, h) = Delta(r, c, h) /\ r2[h - 1] = r[h - 1]
    OBVIOUS
  <2>1. r2[h - 1] = r[h - 1]
    BY <1>0
  <2> QED BY <1>1, <2>1 DEF Delta
<1>3. IsHistory(r2[h].history, r2, c2, h)
  <2>1. IsHistory(r[h].history, r, c, h)
    BY DEF HeightOK
  <2> QED BY <1>1, <2>1, HistoryLocal
<1>4. ConnectionOK(r2, c2, h)
  <2> DEFINE P == r[h]
             k == Len(P.connection)
  <2>1. CASE P.client = {}
    <3>1. P.connection = NoBlock /\ P.floor = {} /\ \A g \in 0 .. h : r[g].client = {}
      BY <2>1 DEF HeightOK, ConnectionOK
    <3>2. \A g \in 0 .. h : r2[g].client = {}
      BY <3>1
    <3> QED BY <1>1, <2>1, <3>1, <3>2 DEF ConnectionOK
  <2>2. CASE P.client # {}
    <3>1. /\ k \in Activation .. h /\ P.connection = Hash(c, k) /\ r[k].client = P.client
          /\ \A g \in k .. h : r[g].connection = P.connection
      BY <2>2 DEF HeightOK, ConnectionOK
    <3>2. PICK fl : P.floor = {fl} /\ FloorOK(fl, r, c, h)
      BY <2>2 DEF HeightOK, ConnectionOK
    <3> HIDE DEF P
    <3>3. k \in 0 .. h /\ \A g \in k .. h : g \in 0 .. h
      BY <1>0, <3>1
    <3>4. /\ P.connection = Hash(c2, k) /\ r2[k].client = P.client
          /\ \A g \in k .. h : r2[g].connection = P.connection
      BY <3>1, <3>3
    <3>5. FloorOK(fl, r2, c2, h)
      <4>1. Len(fl.at) \in 0 .. h
        BY <1>0, <3>2 DEF FloorOK
      <4> QED BY <3>2, <4>1 DEF FloorOK
    <3>6. r2[h] = P
      BY <1>1 DEF P
    <3> QED BY <2>2, <3>1, <3>2, <3>4, <3>5, <3>6 DEF ConnectionOK
  <2> QED BY <2>1, <2>2
<1> QED BY <1>1, <1>2, <1>3, <1>4 DEF HeightOK

(* The deltas of a chain that grew by a block. *)
LEMMA HistoryGrows ==
    ASSUME NEW h \in Nat, NEW r, NEW c, NEW H, IsHistory(H, r, c, h), h + 1 >= Activation,
           h >= Activation \/ Len(H) = 0
    PROVE  LET G == Retained(Append(H, Delta(r, c, h + 1)))
           IN  /\ IsHistory(G, r, c, h + 1)
               /\ IsFull(H, h) => IsFull(G, h + 1)
<1> DEFINE d == Delta(r, c, h + 1)
           A == Append(H, d)
           n == Len(H)
<1>0. PICK S : H \in Seq(S)
  BY DEF IsHistory, IsSeq
<1>1. /\ n \in Nat /\ n <= UndoBlocks /\ (n = 0 \/ Activation + n <= h + 1)
      /\ \A i \in 1 .. n : H[i] = Delta(r, c, (h - n) + i)
      /\ Activation \in Nat \ {0} /\ UndoBlocks \in Nat \ {0}
  BY <1>0, BridgeAssumption DEF IsHistory
<1> HIDE DEF d
<1>2. /\ A \in Seq(S \union {d}) /\ Len(A) = n + 1 /\ A[n + 1] = d
      /\ \A i \in 1 .. n : A[i] = H[i]
  <2>1. H \in Seq(S \union {d})
    BY <1>0
  <2> QED BY <2>1
<1> HIDE DEF A, n
<1>3. \A i \in 1 .. n + 1 : A[i] = Delta(r, c, (h - n) + i)
  <2> TAKE i \in 1 .. n + 1
  <2>1. CASE i = n + 1
    <3>1. (h - n) + i = h + 1
      BY <1>1, <2>1
    <3> QED BY <1>2, <2>1, <3>1 DEF d
  <2>2. CASE i # n + 1
    <3>1. i \in 1 .. n
      BY <1>1, <2>2
    <3> QED BY <1>1, <1>2, <3>1
  <2> QED BY <2>1, <2>2
<1>4. CASE n + 1 > UndoBlocks
  <2> DEFINE G == Tail(A)
  <2>1. Retained(A) = G
    BY <1>2, <1>4 DEF Retained
  <2>2. /\ G \in Seq(S \union {d}) /\ Len(G) = n
        /\ \A i \in 1 .. n : G[i] = A[i + 1]
    BY <1>1, <1>2
  <2> HIDE DEF G
  <2>3. \A i \in 1 .. n : G[i] = Delta(r, c, ((h + 1) - n) + i)
    <3> TAKE i \in 1 .. n
    <3>1. i + 1 \in 1 .. n + 1 /\ (h - n) + (i + 1) = ((h + 1) - n) + i
      BY <1>1
    <3> QED BY <1>3, <2>2, <3>1
  <2>4. n = UndoBlocks /\ (Activation + n <= (h + 1) + 1)
    BY <1>1, <1>4
  <2>5. IsSeq(G)
    BY <2>2 DEF IsSeq
  <2>6. IsHistory(G, r, c, h + 1)
    BY <1>1, <2>2, <2>3, <2>4, <2>5 DEF IsHistory
  <2>7. IsFull(G, h + 1)
    BY <2>2, <2>4 DEF IsFull
  <2> QED BY <2>1, <2>6, <2>7 DEF A, d
<1>5. CASE ~(n + 1 > UndoBlocks)
  <2>1. Retained(A) = A
    BY <1>2, <1>5 DEF Retained
  <2>2. n + 1 <= UndoBlocks /\ Activation + (n + 1) <= (h + 1) + 1
    <3>1. n # 0 => Activation + n <= h + 1
      BY <1>1
    <3> QED BY <1>1, <1>5, <3>1
  <2>3. \A i \in 1 .. n + 1 : A[i] = Delta(r, c, ((h + 1) - (n + 1)) + i)
    <3> TAKE i \in 1 .. n + 1
    <3>1. ((h + 1) - (n + 1)) + i = (h - n) + i
      BY <1>1
    <3> QED BY <1>3, <3>1
  <2>4. IsSeq(A)
    BY <1>2 DEF IsSeq
  <2>5. IsHistory(A, r, c, h + 1)
    BY <1>2, <2>2, <2>3, <2>4 DEF IsHistory
  <2>6. IsFull(H, h) => IsFull(A, h + 1)
    <3> SUFFICES ASSUME IsFull(H, h) PROVE IsFull(A, h + 1)
      OBVIOUS
    <3>1. h >= Activation => n = UndoBlocks \/ Activation + n = h + 1
      BY DEF IsFull, n
    <3>2. ~(h >= Activation) => n = 0 /\ h + 1 = Activation
      BY <1>1 DEF n
    <3>3. Activation + (n + 1) = (h + 1) + 1
      BY <1>1, <1>5, <3>1, <3>2
    <3> QED BY <1>2, <3>3 DEF IsFull
  <2> QED BY <2>1, <2>5, <2>6 DEF A, d
<1> QED BY <1>4, <1>5

(* The deltas of a chain that lost its last block. *)
LEMMA HistoryShrinks ==
    ASSUME NEW h \in Nat \ {0}, NEW r, NEW c, NEW H, IsHistory(H, r, c, h), H # << >>
    PROVE  /\ Last(H) = Delta(r, c, h) /\ h >= Activation
           /\ IsHistory(Front(H), r, c, h - 1)
<1> DEFINE n == Len(H)
           G == Front(H)
<1>0. PICK S : H \in Seq(S)
  BY DEF IsHistory, IsSeq
<1>1. /\ n \in Nat \ {0} /\ n <= UndoBlocks /\ Activation + n <= h + 1
      /\ \A i \in 1 .. n : H[i] = Delta(r, c, (h - n) + i)
      /\ Activation \in Nat \ {0} /\ UndoBlocks \in Nat \ {0}
  <2>1. n \in Nat /\ n # 0
    BY <1>0
  <2> QED BY <2>1, BridgeAssumption DEF IsHistory
<1>2. Last(H) = H[n]
  BY DEF Last
<1>3. /\ G \in Seq(S) /\ Len(G) = n - 1
      /\ \A i \in 1 .. n - 1 : G[i] = H[i]
  BY <1>0, <1>1, HashOfFront
<1> HIDE DEF G, n
<1>4. Last(H) = Delta(r, c, h) /\ h >= Activation
  <2>1. n \in 1 .. n /\ (h - n) + n = h
    BY <1>1
  <2> QED BY <1>1, <1>2, <2>1
<1>5. \A i \in 1 .. n - 1 : G[i] = Delta(r, c, ((h - 1) - (n - 1)) + i)
  <2> TAKE i \in 1 .. n - 1
  <2>1. i \in 1 .. n /\ ((h - 1) - (n - 1)) + i = (h - n) + i
    BY <1>1
  <2> QED BY <1>1, <1>3, <2>1
<1>6. n - 1 <= UndoBlocks /\ Activation + (n - 1) <= (h - 1) + 1
  BY <1>1
<1>7. IsSeq(G)
  BY <1>3 DEF IsSeq
<1>8. IsHistory(G, r, c, h - 1)
  BY <1>3, <1>5, <1>6, <1>7 DEF IsHistory
<1> QED BY <1>4, <1>8 DEF G

(* How far the blocks of a chain advance depends on the chain up to them only. *)
LEMMA FitsLocal ==
    ASSUME NEW h \in Int, NEW r, NEW c, NEW r2, NEW c2,
           \A g \in 0 .. h : r2[g] = r[g] /\ Hash(c2, g) = Hash(c, g),
           Fits(r, c, h)
    PROVE  Fits(r2, c2, h)
<1> SUFFICES ASSUME NEW g \in Activation .. h PROVE AdvanceReachable(Delta(r2, c2, g))
  BY DEF Fits
<1>1. g \in 0 .. h /\ g - 1 \in 0 .. h
  BY BridgeAssumption
<1>2. Delta(r2, c2, g) = Delta(r, c, g)
  BY <1>1 DEF Delta
<1> QED BY <1>2 DEF Fits

-----------------------------------------------------------------------------
(* A chain that grows by a block.                                          *)

\* What an accepted block with delta d, ending at `at', does to the store and to
\* where it comes from.
LightStep(P, Q, d, at) ==
    /\ Q.client = {} \/ \E store : Q.client = {store}
    /\ P.client # {} => Q.client # {}
    /\ d.light_client_changed <=> Q.client # P.client
    /\ d.client_before = P.client /\ d.connection_before = P.connection
    /\ d.client_after = Q.client /\ d.connection_after = Q.connection
    /\ Q.client = P.client => Q.connection = P.connection /\ Q.floor = P.floor
    /\ Q.client # P.client =>
           /\ Q.connection = at
           /\ P.floor # {} => Q.floor = P.floor
           /\ P.floor = {} => \A x : Q.client = {x} => Q.floor = {[store |-> x, at |-> at]}

(* The step of the store in an accepted block. *)
LEMMA LightFields ==
    ASSUME NEW c \in Seq(Blocks), NEW b \in Blocks, NEW P, IndexOK(P, c),
           Len(c) + 1 >= Activation, NEW at, at = Append(c, b),
           NEW d, d = VerifyBlock(P, at), d.ok, NEW Q, Q = ConnectBlock(P, d)
    PROVE  LightStep(P, Q, d, at)
<1> DEFINE s == Verified(Scratch(P), b.records, at, b.time)
<1>0. Last(at) = b
  BY HashOfAppend
<1>1. BlockDone(s, P, c, b)
  BY BlockVerified
<1>2. /\ s.client = {} \/ \E store : s.client = {store}
      /\ P.client # {} => s.client # {}
  BY <1>1 DEF BlockDone, LightOK
<1> HIDE DEF s
<1>3. /\ d.light_client_changed <=> s.client # P.client
      /\ d.client_before = P.client /\ d.connection_before = P.connection
      /\ d.client_after = s.client /\ d.block = at
      /\ d.connection_after = IF s.client # P.client THEN at ELSE P.connection
  BY <1>0 DEF VerifyBlock, DeltaOf, s
<1>4. /\ Q.client = d.client_after /\ Q.connection = d.connection_after
      /\ Q.floor = IF d.light_client_changed /\ P.floor = {}
                   THEN {[store |-> x, at |-> d.block] : x \in d.client_after}
                   ELSE P.floor
  BY DEF ConnectBlock
<1>5. /\ Q.client = {} \/ \E store : Q.client = {store}
      /\ P.client # {} => Q.client # {}
      /\ d.light_client_changed <=> Q.client # P.client
      /\ d.client_before = P.client /\ d.connection_before = P.connection
      /\ d.client_after = Q.client /\ d.connection_after = Q.connection
      /\ Q.client = P.client => Q.connection = P.connection /\ Q.floor = P.floor
      /\ Q.client # P.client => Q.connection = at /\ (P.floor # {} => Q.floor = P.floor)
  BY <1>2, <1>3, <1>4
<1>6. Q.client # P.client /\ P.floor = {} =>
          \A x : Q.client = {x} => Q.floor = {[store |-> x, at |-> at]}
  <2> SUFFICES ASSUME Q.client # P.client, P.floor = {}, NEW x, Q.client = {x}
               PROVE  Q.floor = {[store |-> x, at |-> at]}
    OBVIOUS
  <2>1. Q.floor = {[store |-> y, at |-> at] : y \in {x}}
    BY <1>3, <1>4
  <2> QED BY <2>1
<1> QED BY <1>5, <1>6 DEF LightStep

(* Where the store comes from after one more block. *)
LEMMA ConnectionGrows ==
    ASSUME NEW c \in Seq(Blocks), NEW b \in Blocks, NEW r, Len(c) + 1 >= Activation,
           HeightOK(r, Append(c, b), Len(c)),
           VerifyBlock(r[Len(c)], Append(c, b)).ok,
           r[Len(c) + 1] = ConnectBlock(r[Len(c)], VerifyBlock(r[Len(c)], Append(c, b)))
    PROVE  ConnectionOK(r, Append(c, b), Len(c) + 1)
<1> DEFINE a == Append(c, b)
           N == Len(c)
           P == r[N]
           Q == r[N + 1]
           d == VerifyBlock(P, a)
           k == Len(P.connection)
<1>0. /\ N \in Nat /\ Hash(a, N) = c /\ Hash(a, N + 1) = a /\ Len(a) = N + 1
      /\ Activation \in Nat \ {0}
  BY HashFacts, HashOfAppend, BridgeAssumption
<1>1. IndexOK(P, c) /\ ConnectionOK(r, a, N)
  BY <1>0 DEF HeightOK
<1>2. /\ Q.client = {} \/ \E store : Q.client = {store}
      /\ P.client # {} => Q.client # {}
      /\ Q.client = P.client => Q.connection = P.connection /\ Q.floor = P.floor
      /\ Q.client # P.client =>
             /\ Q.connection = a
             /\ P.floor # {} => Q.floor = P.floor
             /\ P.floor = {} => \A x : Q.client = {x} => Q.floor = {[store |-> x, at |-> a]}
  <2>1. /\ Len(c) + 1 >= Activation /\ a = Append(c, b) /\ d = VerifyBlock(P, a) /\ d.ok
        /\ Q = ConnectBlock(P, d)
    OBVIOUS
  <2> HIDE DEF P, Q, a, d
  <2>2. LightStep(P, Q, d, a)
    BY <1>1, <2>1, LightFields
  <2> QED BY <2>2 DEF LightStep
<1>3. P.client = {} => /\ P.connection = NoBlock /\ P.floor = {}
                       /\ \A g \in 0 .. N : r[g].client = {}
  BY <1>1 DEF ConnectionOK
<1>4. P.client # {} =>
          /\ k \in Activation .. N /\ P.connection = Hash(a, k) /\ r[k].client = P.client
          /\ \A g \in k .. N : r[g].connection = P.connection
          /\ \E fl : P.floor = {fl} /\ FloorOK(fl, r, a, N)
  BY <1>1 DEF ConnectionOK
<1> HIDE DEF a, N, P, Q, d
<1>5. r[N] = P /\ r[N + 1] = Q
  BY DEF P, Q
<1>6. \A g \in 0 .. N + 1 : g = N + 1 \/ g \in 0 .. N
  BY <1>0
<1>7. CASE Q.client = {}
  <2>1. P.client = {} /\ Q.connection = P.connection /\ Q.floor = P.floor
    BY <1>2, <1>7
  <2>2. Q.connection = NoBlock /\ Q.floor = {}
    BY <1>3, <2>1
  <2>3. \A g \in 0 .. N + 1 : r[g].client = {}
    BY <1>3, <1>5, <1>6, <1>7, <2>1
  <2>4. ConnectionOK(r, a, N + 1)
    BY <1>5, <1>7, <2>2, <2>3 DEF ConnectionOK
  <2> QED BY <2>4 DEF a, N
<1>8. CASE Q.client # {}
  <2>1. \E fl : Q.floor = {fl} /\ FloorOK(fl, r, a, N + 1)
    <3>1. CASE P.client # {}
      <4>1. PICK fl : P.floor = {fl} /\ FloorOK(fl, r, a, N)
        BY <1>4, <3>1
      <4>2. Q.floor = {fl}
        BY <1>2, <4>1
      <4>3. Len(fl.at) \in Activation .. N /\ Len(fl.at) \in Activation .. N + 1
        BY <1>0, <4>1 DEF FloorOK
      <4>4. \A g \in 0 .. N + 1 : g < Len(fl.at) => g \in 0 .. N
        BY <1>0, <4>3
      <4>5. FloorOK(fl, r, a, N + 1)
        BY <4>1, <4>3, <4>4 DEF FloorOK
      <4> QED BY <4>2, <4>5
    <3>2. CASE P.client = {}
      <4>1. PICK store : Q.client = {store}
        BY <1>2, <1>8
      <4> DEFINE fl == [store |-> store, at |-> a]
      <4>2. Q.floor = {fl}
        BY <1>2, <1>3, <1>8, <3>2, <4>1
      <4>3. fl.at = a /\ fl.store = store
        OBVIOUS
      <4> HIDE DEF fl
      <4>4. Len(fl.at) = N + 1 /\ N + 1 \in Activation .. N + 1
        BY <1>0, <4>3 DEF N
      <4>5. \A g \in 0 .. N + 1 : g < Len(fl.at) => r[g].client = {}
        BY <1>0, <1>3, <1>6, <3>2, <4>4
      <4>6. FloorOK(fl, r, a, N + 1)
        BY <1>0, <1>5, <4>1, <4>3, <4>4, <4>5 DEF FloorOK
      <4> QED BY <4>2, <4>6
    <3> QED BY <3>1, <3>2
  <2>2. CASE Q.client = P.client
    <3>1. Q.connection = P.connection /\ P.client # {}
      BY <1>2, <1>8, <2>2
    <3>2. k \in Activation .. N + 1 /\ k \in Nat
      BY <1>0, <1>4, <3>1
    <3>3. \A g \in k .. N + 1 : g = N + 1 \/ g \in k .. N
      BY <1>0, <3>2
    <3>4. /\ Q.connection = Hash(a, k) /\ r[k].client = Q.client
          /\ \A g \in k .. N + 1 : r[g].connection = Q.connection
      BY <1>4, <1>5, <2>2, <3>1, <3>3
    <3>5. Len(Q.connection) = k
      BY <3>1
    <3> HIDE DEF k
    <3>6. ConnectionOK(r, a, N + 1)
      BY <1>5, <1>8, <2>1, <3>2, <3>4, <3>5 DEF ConnectionOK
    <3> QED BY <3>6 DEF a, N
  <2>3. CASE Q.client # P.client
    <3>1. Q.connection = a /\ Len(Q.connection) = N + 1
      BY <1>0, <1>2, <2>3
    <3>2. N + 1 \in Activation .. N + 1 /\ \A g \in N + 1 .. N + 1 : g = N + 1
      BY <1>0 DEF N
    <3>3. /\ Q.connection = Hash(a, N + 1) /\ r[N + 1].client = Q.client
          /\ \A g \in N + 1 .. N + 1 : r[g].connection = Q.connection
      BY <1>0, <1>5, <3>1, <3>2
    <3>4. ConnectionOK(r, a, N + 1)
      BY <1>5, <1>8, <2>1, <3>1, <3>2, <3>3 DEF ConnectionOK
    <3> QED BY <3>4 DEF a, N
  <2> QED BY <2>2, <2>3
<1> QED BY <1>7, <1>8

(* One more block: the indexes of the longer chain. *)
LEMMA ReplaysGrow ==
    ASSUME NEW c \in Seq(Blocks), NEW b \in Blocks, NEW r, Replays(r, c),
           Len(c) + 1 >= Activation, VerifyBlock(r[Len(c)], Append(c, b)).ok,
           NEW r2, \A g \in 0 .. Len(c) : r2[g] = r[g],
           r2[Len(c) + 1] = ConnectBlock(r[Len(c)], VerifyBlock(r[Len(c)], Append(c, b)))
    PROVE  Replays(r2, Append(c, b))
<1> DEFINE a == Append(c, b)
           N == Len(c)
           P == r[N]
           Q == r2[N + 1]
           d == VerifyBlock(P, a)
<1>0. /\ N \in Nat /\ N \in 0 .. N /\ Len(a) = N + 1 /\ Activation \in Nat \ {0}
      /\ \A g \in 0 .. N : Hash(a, g) = Hash(c, g)
      /\ Hash(a, N + 1) = a /\ Hash(a, N) = c
  BY HashFacts, HashOfAppend, BridgeAssumption
<1>1. ASSUME NEW h \in 0 .. N PROVE HeightOK(r2, a, h)
  <2>1. HeightOK(r, c, h) /\ h \in Nat
    BY <1>0, <1>1 DEF Replays
  <2>2. \A g \in 0 .. h : g \in 0 .. N
    BY <1>0
  <2>3. \A g \in 0 .. h : r2[g] = r[g] /\ Hash(a, g) = Hash(c, g)
    BY <1>0, <2>2
  <2> HIDE DEF a
  <2> QED BY <2>1, <2>3, HeightLocal
<1>2. r2[N] = P
  BY <1>0
<1>3. /\ IndexOK(P, c) /\ IsHistory(P.history, r2, a, N) /\ IsFull(P.history, N)
      /\ N < Activation => P = EmptyIndex
  BY <1>0, <1>1, <1>2 DEF HeightOK
<1>4. Delta(r2, a, N + 1) = d
  <2>1. (N + 1) - 1 = N
    BY <1>0
  <2> QED BY <1>0, <1>2, <2>1 DEF Delta
<1>5. DeltaExtends(P, d) /\ IndexOK(Q, a)
  BY <1>3, IndexConnect
<1>6. ConnectionOK(r2, a, N + 1)
  <2>1. HeightOK(r2, a, N)
    BY <1>0, <1>1
  <2> QED BY <1>2, <2>1, ConnectionGrows
<1> HIDE DEF a, d, P, N
<1>7. Q.history = Retained(Append(P.history, d))
  BY DEF ConnectBlock, N, P, d, a
<1>8. IsHistory(Q.history, r2, a, N + 1) /\ IsFull(Q.history, N + 1)
  <2>1. N >= Activation \/ Len(P.history) = 0
    BY <1>0, <1>3 DEF EmptyIndex
  <2>2. N + 1 >= Activation
    BY DEF N
  <2>3. LET G == Retained(Append(P.history, d))
        IN  IsHistory(G, r2, a, N + 1) /\ (IsFull(P.history, N) => IsFull(G, N + 1))
    BY <1>0, <1>3, <1>4, <2>1, <2>2, HistoryGrows
  <2> QED BY <1>3, <1>7, <2>3
<1>9. HeightOK(r2, a, N + 1)
  <2>1. (N + 1) - 1 = N /\ ~(N + 1 < Activation)
    BY <1>0 DEF N
  <2>2. d.ok /\ Q = ConnectBlock(P, d)
    BY DEF d, P, a, N
  <2> QED BY <1>0, <1>2, <1>4, <1>5, <1>6, <1>8, <2>1, <2>2 DEF HeightOK
<1>10. \A h \in 0 .. N + 1 : h = N + 1 \/ h \in 0 .. N
  BY <1>0
<1>11. Replays(r2, a)
  BY <1>0, <1>1, <1>9, <1>10 DEF Replays
<1> QED BY <1>11 DEF a

-----------------------------------------------------------------------------
(* Undoing a block.                                                        *)

(* Undoing the accounting of a block gives the accounts before it. *)
LEMMA MintedUndone ==
    ASSUME NEW minted, IsMap(minted), \A e \in DOMAIN minted : minted[e] \in Nat \ {0},
           NEW ec, NEW I, I.minted = With(minted, [e \in DOMAIN ec |-> ec[e].after]),
           NEW d, d.epoch_changes = ec,
           \A e \in DOMAIN ec : ec[e].before = Lookup(minted, e)
    PROVE  UndoneMinted(I, d) = minted
<1> DEFINE S == DOMAIN ec
           new == [e \in S |-> ec[e].after]
           more == With(minted, new)
           less == Without(more, S)
           restored == {e \in S : ec[e].before > 0}
           back == [e \in restored |-> ec[e].before]
<1>1. UndoneMinted(I, d) = With(less, back)
  BY DEF UndoneMinted
<1>2. DOMAIN new = S
  OBVIOUS
<1>3. /\ DOMAIN more = DOMAIN minted \union S
      /\ \A e \in DOMAIN minted : e \notin S => more[e] = minted[e]
  <2> HIDE DEF new, S
  <2>1. IsWith(more, minted, new)
    BY WithIs
  <2> HIDE DEF more
  <2> QED BY <1>2, <2>1 DEF IsWith
<1> HIDE DEF more
<1>4. /\ DOMAIN less = DOMAIN minted \ S
      /\ \A e \in DOMAIN less : less[e] = minted[e]
  BY <1>3 DEF Without, Restrict
<1>5. restored = DOMAIN minted \intersect S
  <2>1. ASSUME NEW e \in S PROVE ec[e].before > 0 <=> e \in DOMAIN minted
    <3>1. ec[e].before = IF e \in DOMAIN minted THEN minted[e] ELSE 0
      BY DEF Lookup
    <3> QED BY <3>1
  <2> QED BY <2>1
<1>6. DOMAIN back = restored /\ \A e \in restored : back[e] = minted[e]
  <2>1. ASSUME NEW e \in restored PROVE ec[e].before = minted[e]
    <3>1. e \in DOMAIN minted /\ e \in S
      BY <1>5, <2>1
    <3>2. ec[e].before = Lookup(minted, e)
      BY <3>1
    <3> QED BY <3>1, <3>2 DEF Lookup
  <2> HIDE DEF restored
  <2> QED BY <2>1
<1> HIDE DEF less, back, restored, S
<1>7. With(less, back) = [e \in DOMAIN minted |-> minted[e]]
  <2>1. DOMAIN less \union DOMAIN back = DOMAIN minted
    BY <1>4, <1>5, <1>6
  <2>2. \A e \in DOMAIN minted :
            (IF e \in DOMAIN back THEN back[e] ELSE less[e]) = minted[e]
    BY <1>4, <1>5, <1>6
  <2> QED BY <2>1, <2>2 DEF With
<1> QED BY <1>1, <1>7 DEF IsMap

\* The index J is that of the parent again, with one delta less than I.
IsUndone(J, I, P) == SameState(J, P) /\ IsIndex(J) /\ J.history = Front(I.history)

(* Undoing the tip gives the index of its parent back, whatever the block did. *)
LEMMA Undone ==
    ASSUME NEW c \in Seq(Blocks), NEW b \in Blocks, NEW P, IndexOK(P, c),
           Len(c) + 1 >= Activation, NEW at, at = Append(c, b),
           NEW d, d = VerifyBlock(P, at), d.ok, \A fl \in P.floor : fl.at # at,
           NEW I, SameState(I, ConnectBlock(P, d)), Last(I.history) = d,
           NEW J \in DisconnectBlock(I, at)
    PROVE  IsUndone(J, I, P)
<1> DEFINE Q == ConnectBlock(P, d)
<1>0. Len(c) \in Nat /\ Len(at) = Len(c) + 1 /\ Last(at) = b
  BY HashOfAppend
<1>1. DeltaExtends(P, d)
  BY IndexConnect
<1>2. /\ J.client = d.client_before /\ J.connection = d.connection_before
      /\ J.floor = UndoneFloor(I, d)
      /\ J.anchors = Without(I.anchors, DOMAIN d.anchors_added)
      /\ J.nullifiers = Without(I.nullifiers, d.nullifiers_added)
      /\ J.minted = UndoneMinted(I, d) /\ J.tree = UndoneTree(I, d)
      /\ J.roots = Without(I.roots, {Len(at)}) /\ J.tip = d.previous
      /\ J.history = Front(I.history) /\ IsIndex(J)
  <2> DEFINE X == [client     |-> d.client_before,
                   connection |-> d.connection_before,
                   floor      |-> UndoneFloor(I, d),
                   anchors    |-> Without(I.anchors, DOMAIN d.anchors_added),
                   nullifiers |-> Without(I.nullifiers, d.nullifiers_added),
                   minted     |-> UndoneMinted(I, d),
                   tree       |-> UndoneTree(I, d),
                   roots      |-> Without(I.roots, {Len(at)}),
                   tip        |-> d.previous,
                   history    |-> Front(I.history)]
  <2>1. J = X
    BY DEF DisconnectBlock
  <2> QED BY <2>1 DEF IsIndex
<1>3. /\ I.floor = Q.floor /\ I.anchors = Q.anchors /\ I.nullifiers = Q.nullifiers
      /\ I.minted = Q.minted /\ I.roots = Q.roots
  BY DEF SameState
<1>4. /\ Q.floor = IF d.light_client_changed /\ P.floor = {}
                   THEN {[store |-> s, at |-> d.block] : s \in d.client_after}
                   ELSE P.floor
      /\ Q.anchors = With(P.anchors, d.anchors_added)
      /\ Q.nullifiers = With(P.nullifiers, [n \in d.nullifiers_added |-> d.block])
      /\ Q.minted = With(P.minted, [e \in DOMAIN d.epoch_changes |-> d.epoch_changes[e].after])
      /\ Q.roots = With(P.roots, [h \in {Len(d.block)} |-> d.tree_after])
  BY DEF ConnectBlock
<1>5. /\ d.block = at /\ d.previous = P.tip /\ d.client_before = P.client
      /\ d.connection_before = P.connection /\ d.tree_before = P.tree
      /\ d.light_client_changed => d.connection_after = at
      /\ IsMap(d.anchors_added)
  <2>1. \A f, S : IsMap(Restrict(f, S))
    BY DEF IsMap, Restrict
  <2>2. /\ d.block = at /\ d.previous = P.tip /\ d.client_before = P.client
        /\ d.connection_before = P.connection /\ d.tree_before = P.tree
    BY DEF VerifyBlock, DeltaOf
  <2>3. d.light_client_changed => d.connection_after = at
    <3> HIDE DEF Q
    <3>1. LightStep(P, Q, d, at)
      BY LightFields DEF Q
    <3> QED BY <3>1 DEF LightStep
  <2> DEFINE A == Verified(Scratch(P), Last(at).records, at, Last(at).time).anchors
  <2>5. d.anchors_added = Restrict(A, DOMAIN A \ DOMAIN P.anchors)
    BY DEF VerifyBlock, DeltaOf
  <2> HIDE DEF A
  <2>4. \E f, S : d.anchors_added = Restrict(f, S)
    BY <2>5
  <2> QED BY <2>1, <2>2, <2>3, <2>4
<1>6. /\ IsMap(P.anchors) /\ IsMap(P.nullifiers) /\ IsMap(P.roots) /\ IsMap(P.minted)
      /\ \A e \in DOMAIN P.minted : P.minted[e] \in Nat \ {0}
  BY DEF IndexOK, LightOK, NullifiersOK, MintedOK, RootsOK
<1> HIDE DEF Q
<1>7. J.floor = P.floor
  <2>1. J.floor = {f \in Q.floor : ~(d.light_client_changed /\ f.at = d.connection_after)}
    BY <1>2, <1>3 DEF UndoneFloor
  <2>2. CASE d.light_client_changed /\ P.floor = {}
    <3>1. \A f \in Q.floor : f.at = at
      BY <1>4, <1>5, <2>2
    <3>2. \A f \in Q.floor : d.light_client_changed /\ f.at = d.connection_after
      BY <1>5, <2>2, <3>1
    <3> QED BY <2>1, <2>2, <3>2
  <2>3. CASE ~(d.light_client_changed /\ P.floor = {})
    <3>1. Q.floor = P.floor
      BY <1>4, <2>3
    <3>2. \A f \in Q.floor : ~(d.light_client_changed /\ f.at = d.connection_after)
      BY <1>5, <3>1
    <3> QED BY <2>1, <3>1, <3>2
  <2> QED BY <2>2, <2>3
<1>8. J.anchors = P.anchors
  <2>1. DOMAIN P.anchors \intersect DOMAIN d.anchors_added = {}
    BY <1>1 DEF DeltaExtends
  <2> QED BY <1>2, <1>3, <1>4, <1>5, <1>6, <2>1, WithWithout
<1>9. J.nullifiers = P.nullifiers
  <2> DEFINE new == [n \in d.nullifiers_added |-> d.block]
  <2>1. DOMAIN new = d.nullifiers_added /\ IsMap(new)
    BY DEF IsMap
  <2>2. DOMAIN P.nullifiers \intersect DOMAIN new = {}
    BY <1>1, <2>1 DEF DeltaExtends
  <2>3. J.nullifiers = Without(With(P.nullifiers, new), DOMAIN new)
    BY <1>2, <1>3, <1>4, <2>1
  <2> HIDE DEF new
  <2> QED BY <1>6, <2>1, <2>2, <2>3, WithWithout
<1>10. J.roots = P.roots
  <2> DEFINE new == [h \in {Len(d.block)} |-> d.tree_after]
  <2>1. DOMAIN new = {Len(at)} /\ IsMap(new)
    BY <1>5 DEF IsMap
  <2>2. DOMAIN P.roots \intersect DOMAIN new = {}
    BY <1>1, <1>5, <2>1 DEF DeltaExtends
  <2>3. J.roots = Without(With(P.roots, new), DOMAIN new)
    BY <1>2, <1>3, <1>4, <2>1
  <2> HIDE DEF new
  <2> QED BY <1>6, <2>1, <2>2, <2>3, WithWithout
<1>11. J.minted = P.minted
  <2> DEFINE ec == d.epoch_changes
  <2>1. \A e \in DOMAIN ec : ec[e].before = Lookup(P.minted, e)
    BY <1>1 DEF DeltaExtends
  <2>2. I.minted = With(P.minted, [e \in DOMAIN ec |-> ec[e].after])
    BY <1>3, <1>4
  <2>3. d.epoch_changes = ec
    OBVIOUS
  <2> DEFINE m == P.minted
  <2>4. /\ IsMap(m) /\ \A e \in DOMAIN m : m[e] \in Nat \ {0}
        /\ I.minted = With(m, [e \in DOMAIN ec |-> ec[e].after])
        /\ \A e \in DOMAIN ec : ec[e].before = Lookup(m, e)
    BY <1>6, <2>1, <2>2
  <2> HIDE DEF ec, m
  <2>5. UndoneMinted(I, d) = m
    BY <2>3, <2>4, MintedUndone
  <2> QED BY <1>2, <2>5 DEF m
<1>12. J.tree = P.tree
  BY <1>2, <1>5 DEF UndoneTree
<1> QED BY <1>2, <1>5, <1>7, <1>8, <1>9, <1>10, <1>11, <1>12 DEF SameState, IsUndone

-----------------------------------------------------------------------------
(* Below the activation height, shorter chains and replays.                *)

(* The empty index belongs to a chain without bridge records. *)
LEMMA EmptyFits ==
    ASSUME NEW c, Len(c) \in Nat, Len(c) < Activation, Burned(c) = << >>,
           \A e \in Nat : MintedInEpoch(c, e) = 0,
           \A g \in 1 .. Len(c) : \A i \in 1 .. Len(c[g].records) : c[g].records[i].kind # "MINT"
    PROVE  IndexOK(EmptyIndex, c)
<1> DEFINE E == EmptyIndex
<1>1. /\ IsIndex(E) /\ E.client = {} /\ E.anchors = NoEntries /\ E.nullifiers = NoEntries
      /\ E.minted = NoEntries /\ E.tree = << >> /\ E.roots = NoEntries /\ E.tip = NoBlock
  BY DEF EmptyIndex, IsIndex
<1>2. IsMap(NoEntries) /\ DOMAIN NoEntries = {}
  BY DEF IsMap, NoEntries
<1> HIDE DEF E
<1>3. LightOK(E.client, E.anchors, Len(c))
  BY <1>1, <1>2 DEF LightOK
<1>4. NullifiersOK(E.nullifiers, c)
  BY <1>1, <1>2 DEF NullifiersOK
<1>5. MintedOK(E.minted, c)
  BY <1>1, <1>2, BridgeAssumption DEF MintedOK, Lookup
<1>6. E.tree = Burned(c) /\ TreeOK(E.tree, Len(c))
  BY <1>1 DEF TreeOK
<1>7. RootsOK(E.roots, E.tree, c)
  <2>1. Activation .. Len(c) = {}
    BY BridgeAssumption
  <2> QED BY <1>1, <1>2, <2>1 DEF RootsOK
<1>8. E.tip = IF Len(c) >= Activation THEN c ELSE NoBlock
  BY <1>1, BridgeAssumption
<1>9. IndexOK(E, c)
  BY <1>1, <1>3, <1>4, <1>5, <1>6, <1>7, <1>8 DEF IndexOK
<1> QED BY <1>9 DEF E

(* A block without records below the activation height changes nothing. *)
LEMMA EmptyBelow ==
    ASSUME NEW c \in Seq(Blocks), NEW b \in Blocks, Len(c) + 1 < Activation,
           b.records = << >>, IndexOK(EmptyIndex, c)
    PROVE  IndexOK(EmptyIndex, Append(c, b))
<1> DEFINE a == Append(c, b)
<1>0. /\ Len(c) \in Nat /\ Len(a) = Len(c) + 1 /\ a[Len(c) + 1] = b
      /\ \A g \in 1 .. Len(c) : a[g] = c[g]
  OBVIOUS
<1>1. /\ NullifiersOK(NoEntries, c) /\ MintedOK(NoEntries, c) /\ Burned(c) = << >>
  BY DEF IndexOK, EmptyIndex
<1>2. DOMAIN NoEntries = {}
  BY DEF NoEntries
<1>3. ASSUME NEW e \in Nat PROVE MintedInEpoch(a, e) = 0
  <2>1. MintedInEpoch(c, e) = 0
    BY <1>1, <1>2 DEF MintedOK, Lookup
  <2>2. ~(Len(c) + 1 >= Activation)
    BY <1>0, BridgeAssumption
  <2> QED BY <2>1, <2>2, EpochMintedAppend
<1>4. Burned(a) = << >>
  BY <1>1, BurnedAppend, NothingYet
<1> HIDE DEF a
<1>5. ASSUME NEW g \in 1 .. Len(a)
      PROVE  \A i \in 1 .. Len(a[g].records) : a[g].records[i].kind # "MINT"
  <2>1. CASE g \in 1 .. Len(c)
    BY <1>0, <1>1, <1>2, <2>1 DEF NullifiersOK
  <2>2. CASE g = Len(c) + 1
    BY <1>0, <2>2
  <2> QED BY <1>0, <2>1, <2>2
<1>6. IndexOK(EmptyIndex, a)
  BY <1>0, <1>3, <1>4, <1>5, EmptyFits
<1> QED BY <1>6 DEF a

(* What holds at a height below the activation height. *)
LEMMA HeightBelow ==
    ASSUME NEW c, NEW h \in Nat, h < Activation, NEW r, \A g \in 0 .. h : r[g] = EmptyIndex,
           IndexOK(EmptyIndex, Hash(c, h))
    PROVE  HeightOK(r, c, h)
<1>0. h \in 0 .. h /\ ~(h >= Activation)
  BY BridgeAssumption
<1>1. /\ EmptyIndex.client = {} /\ EmptyIndex.connection = NoBlock
      /\ EmptyIndex.floor = {} /\ EmptyIndex.history = << >>
  BY DEF EmptyIndex
<1>2. ConnectionOK(r, c, h)
  BY <1>0, <1>1 DEF ConnectionOK
<1>3. IsSeq(<< >>)
  BY DEF IsSeq
<1>4. IsHistory(<< >>, r, c, h)
  BY <1>3, BridgeAssumption DEF IsHistory
<1> QED BY <1>0, <1>1, <1>2, <1>4 DEF HeightOK, IsFull

(* The chain at genesis. *)
LEMMA ReplaysAtGenesis ==
    Replays([g \in {0} |-> EmptyIndex], << >>)
<1> DEFINE r == [g \in {0} |-> EmptyIndex]
<1>1. Len(<< >>) = 0 /\ Hash(<< >>, 0) = << >> /\ 0 .. 0 = {0} /\ 0 < Activation
  BY BridgeAssumption DEF Hash
<1>2. IndexOK(EmptyIndex, << >>)
  BY <1>1, NothingYet, EmptyFits
<1>3. \A g \in 0 .. 0 : r[g] = EmptyIndex
  BY <1>1
<1> HIDE DEF r
<1>4. HeightOK(r, << >>, 0)
  BY <1>1, <1>2, <1>3, HeightBelow
<1>5. Replays(r, << >>)
  BY <1>1, <1>4 DEF Replays
<1> QED BY <1>5 DEF r

(* A block below the activation height. *)
LEMMA ReplaysBelow ==
    ASSUME NEW c \in Seq(Blocks), NEW b \in Blocks, NEW r, Replays(r, c),
           Len(c) + 1 < Activation, b.records = << >>,
           NEW r2, \A g \in 0 .. Len(c) : r2[g] = r[g], r2[Len(c) + 1] = EmptyIndex
    PROVE  Replays(r2, Append(c, b))
<1> DEFINE a == Append(c, b)
           N == Len(c)
<1>0. /\ N \in Nat /\ N \in 0 .. N /\ Len(a) = N + 1 /\ Activation \in Nat \ {0}
      /\ \A g \in 0 .. N : Hash(a, g) = Hash(c, g)
      /\ Hash(a, N + 1) = a /\ Hash(a, N) = c /\ Hash(c, N) = c
  BY HashFacts, HashOfAppend, BridgeAssumption
<1>1. ASSUME NEW h \in 0 .. N PROVE HeightOK(r2, a, h)
  <2>1. HeightOK(r, c, h) /\ h \in Nat
    BY <1>0, <1>1 DEF Replays
  <2>2. \A g \in 0 .. h : g \in 0 .. N
    BY <1>0
  <2>3. \A g \in 0 .. h : r2[g] = r[g] /\ Hash(a, g) = Hash(c, g)
    BY <1>0, <2>2
  <2> HIDE DEF a
  <2> QED BY <2>1, <2>3, HeightLocal
<1>2. \A g \in 0 .. N : r[g] = EmptyIndex
  <2> TAKE g \in 0 .. N
  <2>1. g < Activation /\ HeightOK(r, c, g)
    BY <1>0 DEF Replays
  <2> QED BY <2>1 DEF HeightOK
<1>3. IndexOK(EmptyIndex, c)
  <2>1. HeightOK(r, c, N)
    BY <1>0 DEF Replays
  <2> QED BY <1>0, <1>2, <2>1 DEF HeightOK
<1>4. IndexOK(EmptyIndex, a)
  BY <1>3, EmptyBelow
<1> HIDE DEF a
<1>5. HeightOK(r2, a, N + 1)
  <2>1. \A g \in 0 .. N + 1 : g = N + 1 \/ g \in 0 .. N
    BY <1>0
  <2>2. \A g \in 0 .. N + 1 : r2[g] = EmptyIndex
    BY <1>2, <2>1
  <2>3. N + 1 \in Nat /\ N + 1 < Activation
    BY <1>0
  <2> HIDE DEF N
  <2> QED BY <1>0, <1>4, <2>2, <2>3, HeightBelow
<1>6. \A h \in 0 .. N + 1 : h = N + 1 \/ h \in 0 .. N
  BY <1>0
<1>7. Replays(r2, a)
  BY <1>0, <1>1, <1>5, <1>6 DEF Replays
<1> QED BY <1>7 DEF a

(* The indexes of a chain are those of each of its prefixes. *)
LEMMA ReplaysPrefix ==
    ASSUME NEW c \in Seq(Blocks), NEW r, Replays(r, c), NEW h \in 0 .. Len(c)
    PROVE  Replays(r, Hash(c, h))
<1> DEFINE a == Hash(c, h)
<1>1. /\ Len(a) = h /\ \A g \in 0 .. h : Hash(a, g) = Hash(c, g)
      /\ Len(c) \in Nat /\ h \in Nat
  BY HashFacts
<1> HIDE DEF a
<1>2. ASSUME NEW k \in 0 .. h PROVE HeightOK(r, a, k)
  <2>1. HeightOK(r, c, k) /\ k \in Nat
    BY <1>1, <1>2 DEF Replays
  <2>2. \A g \in 0 .. k : g \in 0 .. h
    BY <1>1
  <2>3. \A g \in 0 .. k : r[g] = r[g] /\ Hash(a, g) = Hash(c, g)
    BY <1>1, <2>2
  <2> QED BY <2>1, <2>3, HeightLocal
<1>3. Replays(r, a)
  BY <1>1, <1>2 DEF Replays
<1> QED BY <1>3 DEF a

(* Replaying the chain from the activation height yields the index of its tip,
   unless the tip advances the light client too far: then it yields none. *)
LEMMA ReplayedIndex ==
    ASSUME NEW c \in Seq(Blocks), NEW r, Replays(r, c), Len(c) + 1 >= Activation,
           Fits(r, c, Len(c) - 1)
    PROVE  Replay(EmptyIndex, c, Activation - 1)
               = IF Fits(r, c, Len(c)) THEN {r[Len(c)]} ELSE {}
<1> DEFINE A == Activation - 1
           N == Len(c)
<1>0. A \in Nat /\ N \in Nat /\ A <= N /\ A \in 0 .. N /\ A < Activation
  BY BridgeAssumption
<1>1. PICK f : IsReplayed(f, N, EmptyIndex, c, A) /\ Replay(EmptyIndex, c, A) = f[N]
  BY <1>0, ReplayRuns
<1> DEFINE F(i) == IF i = A THEN {EmptyIndex}
                   ELSE UNION {ApplyBlock(j, Hash(c, i)) : j \in f[i - 1]}
           T == {h \in A .. N : Fits(r, c, h) => f[h] = {r[h]}}
<1>2. \A h \in A .. N : f[h] = F(h)
  <2>1. f = [i \in A .. N |-> F(i)]
    BY <1>1 DEF IsReplayed
  <2> HIDE DEF F
  <2> QED BY <2>1
<1>3. A \in T
  <2>1. HeightOK(r, c, A)
    BY <1>0 DEF Replays
  <2>2. r[A] = EmptyIndex
    BY <1>0, <2>1 DEF HeightOK
  <2>4. F(A) = {EmptyIndex} /\ A \in A .. N
    BY <1>0
  <2>3. f[A] = {EmptyIndex} /\ A \in A .. N
    <3> HIDE DEF F, A, N
    <3> QED BY <1>2, <2>4
  <2> QED BY <2>2, <2>3
<1>4. ASSUME NEW h \in A .. N, h # A, f[h - 1] = {r[h - 1]}
      PROVE  f[h] = IF AdvanceReachable(Delta(r, c, h)) THEN {r[h]} ELSE {}
  <2>0. h \in 0 .. N /\ h >= Activation
    BY <1>0, <1>4, BridgeAssumption
  <2>1. HeightOK(r, c, h)
    BY <2>0 DEF Replays
  <2> DEFINE P == r[h - 1]
             d == Delta(r, c, h)
  <2>2. d.ok /\ DeltaExtends(P, d) /\ r[h] = ConnectBlock(P, d)
    BY <2>0, <2>1 DEF HeightOK
  <2>3. ApplyBlock(P, Hash(c, h)) = IF AdvanceReachable(d) THEN {r[h]} ELSE {}
    <3>1. d = VerifyBlock(P, Hash(c, h))
      BY DEF Delta
    <3> HIDE DEF P, d
    <3> QED BY <2>2, <3>1 DEF ApplyBlock, DeltaFits
  <2>4. f[h] = UNION {ApplyBlock(j, Hash(c, h)) : j \in {P}}
    BY <1>2, <1>4
  <2> HIDE DEF P
  <2>5. UNION {ApplyBlock(j, Hash(c, h)) : j \in {P}} = ApplyBlock(P, Hash(c, h))
    OBVIOUS
  <2> QED BY <2>3, <2>4, <2>5
<1>5. ASSUME NEW h \in A .. N, h # A, h - 1 \in T PROVE h \in T
  <2> SUFFICES ASSUME Fits(r, c, h) PROVE f[h] = {r[h]}
    OBVIOUS
  <2>1. h \in Activation .. h /\ \A g \in Activation .. h - 1 : g \in Activation .. h
    BY <1>0, <1>5, BridgeAssumption
  <2>2. AdvanceReachable(Delta(r, c, h)) /\ Fits(r, c, h - 1)
    BY <2>1 DEF Fits
  <2>3. f[h - 1] = {r[h - 1]}
    BY <1>5, <2>2
  <2> HIDE DEF T, A, N
  <2> QED BY <1>4, <1>5, <2>2, <2>3
<1>6. \A h \in A .. N : h \in T
  <2> TAKE h \in A .. N
  <2>1. \A g \in A .. h : g # A /\ g - 1 \in T => g \in T
    <3> TAKE g \in A .. h
    <3>1. g \in A .. N
      BY <1>0
    <3> HIDE DEF T, A, N
    <3> QED BY <1>5, <3>1
  <2>2. A \in Int /\ h \in Int /\ h \in A .. h
    BY <1>0
  <2> HIDE DEF T, A, N
  <2> QED BY <1>3, <2>1, <2>2, InductionUpTo
<1>7. N \in A .. N
  BY <1>0
<1>8. CASE Fits(r, c, N)
  <2>1. f[N] = {r[N]}
    BY <1>6, <1>7, <1>8
  <2> QED BY <1>1, <1>8, <2>1
<1>9. CASE ~Fits(r, c, N)
  <2>1. PICK g \in Activation .. N : ~AdvanceReachable(Delta(r, c, g))
    BY <1>9 DEF Fits
  <2>2. g = N
    <3>1. g # N => g \in Activation .. N - 1
      BY <1>0, BridgeAssumption
    <3> QED BY <2>1, <3>1 DEF Fits
  <2>3. N # A /\ N - 1 \in A .. N
    BY <1>0, <2>2, BridgeAssumption
  <2>4. f[N - 1] = {r[N - 1]}
    BY <1>6, <2>3
  <2> HIDE DEF T, A, N
  <2>5. f[N] = {}
    BY <1>4, <1>7, <2>1, <2>2, <2>3, <2>4
  <2> QED BY <1>1, <1>9, <2>5 DEF A, N
<1> QED BY <1>8, <1>9

-----------------------------------------------------------------------------
(* The inductive invariant.                                                *)

\* A tracker of chain c, whose indexes are r: in step, or dirty and empty.
TrackerOK(t, r, c) ==
    /\ DOMAIN t = {"index", "synced", "dirty"} /\ t.dirty \in BOOLEAN
    /\ t.dirty => t.index = EmptyIndex
    /\ ~t.dirty => /\ t.synced = c /\ IsIndex(t.index) /\ Fits(r, c, Len(c))
                   /\ SameState(t.index, r[Len(c)])
                   /\ IsHistory(t.index.history, r, c, Len(c))

\* Two records that mint the same deposit.
SameMint(q, s) == q.kind = "MINT" /\ s.kind = "MINT" /\ q.deposit = s.deposit

\* The mints of a chain: every deposit once, every block within its cap.
MintsOK(c) ==
    /\ \A g, h \in 1 .. Len(c) :
           \A i \in 1 .. Len(c[g].records), j \in 1 .. Len(c[h].records) :
               SameMint(c[g].records[i], c[h].records[j]) => g = h /\ i = j
    /\ \A h \in Activation .. Len(c) : MintedIn(c[h].records) <= MaxPerBlock

BridgeInv ==
    /\ chain \in Seq(Blocks) /\ MintsOK(chain)
    /\ \E r : /\ Replays(r, chain) /\ Fits(r, chain, Len(chain) - 1)
              /\ TrackerOK(tracker, r, chain)

(* A tracker that could be brought to the tip is in step. *)
LEMMA SyncOK ==
    ASSUME NEW c \in Seq(Blocks), NEW r, Replays(r, c), Fits(r, c, Len(c) - 1),
           NEW t, TrackerOK(t, r, c)
    PROVE  \A u \in Sync(t, c) : TrackerOK(u, r, c) /\ ~u.dirty
<1> DEFINE N == Len(c)
           New(i) == [index |-> i, synced |-> c, dirty |-> FALSE]
<1>0. N \in Nat /\ N \in 0 .. N
  OBVIOUS
<1>1. HeightOK(r, c, N)
  BY <1>0 DEF Replays
<1>2. Fits(r, c, N) => TrackerOK(New(r[N]), r, c) /\ ~New(r[N]).dirty
  <2>1. /\ IsIndex(r[N]) /\ IsHistory(r[N].history, r, c, N) /\ SameState(r[N], r[N])
    BY <1>1 DEF HeightOK, IndexOK, SameState
  <2> DEFINE u == New(r[N])
  <2>2. /\ DOMAIN u = {"index", "synced", "dirty"} /\ u.dirty = FALSE
        /\ u.index = r[N] /\ u.synced = c
    OBVIOUS
  <2> HIDE DEF u, New
  <2>3. Fits(r, c, N) => TrackerOK(u, r, c) /\ ~u.dirty
    BY <2>1, <2>2 DEF TrackerOK
  <2> QED BY <2>3 DEF u
<1>3. CASE SyncedTo(t, c)
  <2>1. Sync(t, c) = {t}
    BY <1>3 DEF Sync
  <2>2. ~t.dirty
    BY <1>3 DEF SyncedTo
  <2> QED BY <2>1, <2>2
<1>4. CASE ~SyncedTo(t, c) /\ N < Activation
  <2>1. r[N] = EmptyIndex
    BY <1>1, <1>4 DEF HeightOK
  <2>2. Sync(t, c) = {New(r[N])}
    BY <1>4, <2>1 DEF Sync
  <2>3. Fits(r, c, N)
    BY <1>0, <1>4, BridgeAssumption DEF Fits
  <2> HIDE DEF New
  <2> QED BY <1>2, <2>2, <2>3
<1>5. CASE ~SyncedTo(t, c) /\ ~(N < Activation)
  <2>1. t.dirty
    BY <1>5 DEF SyncedTo, TrackerOK
  <2>2. SyncStart(t, c) = [index |-> EmptyIndex, from |-> Activation - 1]
    BY <2>1 DEF SyncStart
  <2>3. Sync(t, c) = {New(i) : i \in Replay(EmptyIndex, c, Activation - 1)}
    BY <1>5, <2>2 DEF Sync
  <2>4. Replay(EmptyIndex, c, Activation - 1) = IF Fits(r, c, N) THEN {r[N]} ELSE {}
    <3>1. Len(c) + 1 >= Activation
      BY <1>0, <1>5, BridgeAssumption
    <3> QED BY <3>1, ReplayedIndex
  <2> HIDE DEF New
  <2>5. \A u \in Sync(t, c) : u = New(r[N]) /\ Fits(r, c, N)
    BY <2>3, <2>4
  <2> QED BY <1>2, <2>5
<1> QED BY <1>3, <1>4, <1>5

(* The hook of a new tip below the activation height. *)
LEMMA ConnectedBelow ==
    ASSUME NEW c \in Seq(Blocks), NEW b \in Blocks, NEW r, Replays(r, c), NEW t,
           TrackerOK(t, r, c), Len(c) + 1 < Activation, b.records = << >>
    PROVE  \E r2 : /\ Replays(r2, Append(c, b)) /\ Fits(r2, Append(c, b), Len(c))
                   /\ TrackerOK(BlockConnected(t, Append(c, b)), r2, Append(c, b))
<1> DEFINE a == Append(c, b)
           N == Len(c)
           r2 == [g \in 0 .. N + 1 |-> IF g <= N THEN r[g] ELSE EmptyIndex]
           u == BlockConnected(t, a)
<1>0. /\ N \in Nat /\ N \in 0 .. N /\ Len(a) = N + 1 /\ Front(a) = c /\ Len(a) < Activation
      /\ Activation \in Nat \ {0}
  BY HashOfAppend, BridgeAssumption
<1>1. (\A g \in 0 .. N : r2[g] = r[g]) /\ r2[N + 1] = EmptyIndex
  BY <1>0
<1> HIDE DEF r2
<1>2. Replays(r2, a)
  BY <1>1, ReplaysBelow
<1>3. r[N] = EmptyIndex
  <2>1. HeightOK(r, c, N) /\ N < Activation
    BY <1>0 DEF Replays
  <2> QED BY <2>1 DEF HeightOK
<1>6. Fits(r2, a, N) /\ Fits(r2, a, N + 1)
  <2>1. Activation .. N = {} /\ Activation .. N + 1 = {}
    BY <1>0
  <2> QED BY <2>1 DEF Fits
<1> HIDE DEF a
<1>4. CASE t.dirty
  <2>1. u = [t EXCEPT !.dirty = TRUE]
    BY <1>4 DEF BlockConnected
  <2>2. DOMAIN u = DOMAIN t /\ u.dirty = TRUE /\ u.index = t.index
    BY <2>1 DEF TrackerOK
  <2> HIDE DEF u
  <2>3. TrackerOK(u, r2, a)
    BY <1>4, <2>2 DEF TrackerOK
  <2> QED BY <1>2, <1>6, <2>3 DEF u, a
<1>5. CASE ~t.dirty
  <2>1. t.synced = c /\ IsIndex(t.index) /\ SameState(t.index, EmptyIndex) /\ IsHistory(t.index.history, r, c, N)
    BY <1>3, <1>5 DEF TrackerOK
  <2>2. u = [t EXCEPT !.synced = a]
    BY <1>0, <1>5, <2>1 DEF BlockConnected
  <2>3. DOMAIN u = DOMAIN t /\ u.dirty = t.dirty /\ u.index = t.index /\ u.synced = a
    BY <2>2 DEF TrackerOK
  <2> HIDE DEF u
  <2>4. IsHistory(t.index.history, r2, a, N + 1)
    <3> DEFINE H == t.index.history
    <3>1. PICK S : H \in Seq(S)
      BY <2>1 DEF IsHistory, IsSeq
    <3>2. Len(H) = 0
      <4>1. Len(H) \in Nat /\ (Len(H) = 0 \/ Activation + Len(H) <= N + 1)
        BY <2>1, <3>1 DEF IsHistory
      <4> HIDE DEF H
      <4> QED BY <1>0, <4>1
    <3>3. IsSeq(H)
      BY <2>1 DEF IsHistory
    <3> HIDE DEF H
    <3>4. IsHistory(H, r2, a, N + 1)
      BY <3>2, <3>3, BridgeAssumption DEF IsHistory
    <3> QED BY <3>4 DEF H
  <2>5. TrackerOK(u, r2, a)
    <3>1. Len(a) = N + 1 /\ r2[Len(a)] = EmptyIndex
      BY <1>0, <1>1
    <3> QED BY <1>5, <1>6, <2>1, <2>3, <2>4, <3>1 DEF TrackerOK
  <2> QED BY <1>2, <1>6, <2>5 DEF u, a
<1> QED BY <1>4, <1>5 DEF TrackerOK

(* The hook of a new tip with bridge rules, which validation accepted. *)
LEMMA ConnectedAbove ==
    ASSUME NEW c \in Seq(Blocks), NEW b \in Blocks, NEW r, Replays(r, c), NEW t,
           TrackerOK(t, r, c), Fits(r, c, Len(c)), Len(c) + 1 >= Activation,
           VerifyBlock(r[Len(c)], Append(c, b)).ok
    PROVE  \E r2 : /\ Replays(r2, Append(c, b)) /\ Fits(r2, Append(c, b), Len(c))
                   /\ TrackerOK(BlockConnected(t, Append(c, b)), r2, Append(c, b))
<1> DEFINE a == Append(c, b)
           N == Len(c)
           P == r[N]
           d == VerifyBlock(P, a)
           Q == ConnectBlock(P, d)
           r2 == [g \in 0 .. N + 1 |-> IF g <= N THEN r[g] ELSE Q]
           u == BlockConnected(t, a)
<1>0. /\ N \in Nat /\ N \in 0 .. N /\ Len(a) = N + 1 /\ Front(a) = c /\ ~(Len(a) < Activation)
      /\ Activation \in Nat \ {0} /\ \A g \in 0 .. N : Hash(a, g) = Hash(c, g)
      /\ Hash(a, N + 1) = a /\ Hash(c, N) = c
  BY HashFacts, HashOfAppend, BridgeAssumption
<1> HIDE DEF Q
<1>1. (\A g \in 0 .. N : r2[g] = r[g]) /\ r2[N + 1] = Q
  BY <1>0
<1> HIDE DEF r2
<1>2. Replays(r2, a)
  BY <1>1, ReplaysGrow DEF Q
<1>3. HeightOK(r, c, N)
  BY <1>0 DEF Replays
<1>4. d.ok /\ DeltaExtends(P, d)
  <2>1. IndexOK(P, c)
    BY <1>0, <1>3 DEF HeightOK
  <2> HIDE DEF P
  <2>2. VerifyBlock(P, Append(c, b)).ok
    BY DEF P
  <2> QED BY <2>1, <2>2, IndexConnect
<1>5. Delta(r2, a, N + 1) = d
  <2>1. (N + 1) - 1 = N /\ r2[N] = P
    BY <1>0, <1>1
  <2> QED BY <1>0, <2>1 DEF Delta
<1>8. Fits(r2, a, N)
  <2>1. \A g \in 0 .. N : r2[g] = r[g] /\ Hash(a, g) = Hash(c, g)
    BY <1>0, <1>1
  <2> HIDE DEF a, N
  <2> QED BY <1>0, <2>1, FitsLocal DEF N
<1> HIDE DEF a, d, P, N
<1>6. CASE t.dirty
  <2>1. u = [t EXCEPT !.dirty = TRUE]
    BY <1>6 DEF BlockConnected
  <2>2. DOMAIN u = DOMAIN t /\ u.dirty = TRUE /\ u.index = t.index
    BY <2>1 DEF TrackerOK
  <2> HIDE DEF u
  <2>3. TrackerOK(u, r2, a)
    BY <1>6, <2>2 DEF TrackerOK
  <2> QED BY <1>2, <1>8, <2>3 DEF u, a, N
<1>9. CASE ~t.dirty /\ ~AdvanceReachable(d)
  <2> DEFINE I == t.index
  <2>1. t.synced = c /\ SameState(I, P)
    BY <1>9 DEF TrackerOK, P, N
  <2> HIDE DEF I
  <2>2. VerifyBlock(I, a) = d
    BY <2>1, SameVerifies DEF d
  <2>3. ApplyBlock(I, a) = {}
    BY <1>9, <2>2 DEF ApplyBlock, DeltaFits
  <2>4. u = Unavailable(t)
    <3>1. ApplyBlock(t.index, a) = {}
      BY <2>3 DEF I
    <3> QED BY <1>0, <1>9, <2>1, <3>1 DEF BlockConnected
  <2>5. DOMAIN u = DOMAIN t /\ u.dirty = TRUE /\ u.index = EmptyIndex
    BY <2>4 DEF TrackerOK, Unavailable
  <2> HIDE DEF u
  <2>6. TrackerOK(u, r2, a)
    BY <2>5 DEF TrackerOK
  <2> QED BY <1>2, <1>8, <2>6 DEF u, a, N
<1>7. CASE ~t.dirty /\ AdvanceReachable(d)
  <2> DEFINE I == t.index
             X == ConnectBlock(I, d)
             G == Retained(Append(I.history, d))
  <2>1. t.synced = c /\ IsIndex(I) /\ SameState(I, P) /\ IsHistory(I.history, r, c, N)
    BY <1>7 DEF TrackerOK, P, N
  <2> HIDE DEF I
  <2>2. /\ VerifyBlock(I, a) = d /\ DeltaExtends(I, d) /\ SameState(X, Q) /\ IsIndex(X)
        /\ X.history = G
    BY <1>4, <2>1, SameVerifies DEF d, Q
  <2> HIDE DEF X
  <2>3. ApplyBlock(I, a) = {X}
    BY <1>4, <1>7, <2>2 DEF ApplyBlock, DeltaFits, X
  <2>4. u = [t EXCEPT !.index = X, !.synced = a]
    <3>1. (CHOOSE i \in {X} : TRUE) = X
      OBVIOUS
    <3>2. ApplyBlock(t.index, a) = {X}
      BY <2>3 DEF I
    <3> QED BY <1>0, <1>7, <2>1, <3>1, <3>2 DEF BlockConnected
  <2>5. DOMAIN u = DOMAIN t /\ u.dirty = t.dirty /\ u.index = X /\ u.synced = a
    BY <2>4 DEF TrackerOK
  <2> HIDE DEF u
  <2>6. IsHistory(G, r2, a, N + 1)
    <3>1. IsHistory(I.history, r2, a, N)
      BY <1>0, <1>1, <2>1, HistoryLocal
    <3>2. N >= Activation \/ Len(I.history) = 0
      <4>1. PICK S : I.history \in Seq(S)
        BY <2>1 DEF IsHistory, IsSeq
      <4>2. Len(I.history) \in Nat /\ (Len(I.history) = 0 \/ Activation + Len(I.history) <= N + 1)
        BY <2>1, <4>1 DEF IsHistory
      <4> QED BY <1>0, <4>2
    <3>3. N + 1 >= Activation
      BY DEF N
    <3> DEFINE H == I.history
    <3>4. IsHistory(H, r2, a, N) /\ (N >= Activation \/ Len(H) = 0)
      BY <3>1, <3>2
    <3> HIDE DEF H
    <3>5. IsHistory(Retained(Append(H, Delta(r2, a, N + 1))), r2, a, N + 1)
      BY <1>0, <3>3, <3>4, HistoryGrows
    <3> QED BY <1>5, <3>5 DEF H
  <2> HIDE DEF G
  <2>7. TrackerOK(u, r2, a)
    <3>1. Len(a) = N + 1 /\ r2[Len(a)] = Q
      BY <1>0, <1>1
    <3>2. Fits(r2, a, N + 1)
      <4>1. \A g \in Activation .. N + 1 : g \in Activation .. N \/ g = N + 1
        BY <1>0
      <4> QED BY <1>5, <1>7, <1>8, <4>1 DEF Fits
    <3> QED BY <1>7, <2>2, <2>5, <2>6, <3>1, <3>2 DEF TrackerOK
  <2> QED BY <1>2, <1>8, <2>7 DEF u, a, N
<1> QED BY <1>6, <1>7, <1>9 DEF TrackerOK

(* The hook of a tip that is disconnected. *)
LEMMA DisconnectedOK ==
    ASSUME NEW c \in Seq(Blocks), c # << >>, NEW r, Replays(r, c), NEW t, TrackerOK(t, r, c),
           Fits(r, c, Len(c) - 1)
    PROVE  /\ TrackerOK(BlockDisconnected(t, c), r, Front(c))
           /\ Fits(r, Front(c), Len(c) - 1)
<1> DEFINE a == Front(c)
           N == Len(c)
           u == BlockDisconnected(t, c)
           I == t.index
           H == I.history
<1>0. /\ N \in Nat \ {0} /\ a \in Seq(Blocks) /\ Len(a) = N - 1 /\ a = Hash(c, N - 1)
      /\ \A h \in 0 .. N - 1 : Hash(a, h) = Hash(c, h)
      /\ N \in 0 .. N /\ N - 1 \in 0 .. N /\ N - 1 \in Nat /\ N - 1 \in 0 .. N - 1
      /\ Activation \in Nat \ {0}
  <2>1. /\ N \in Nat \ {0} /\ a \in Seq(Blocks) /\ Len(a) = N - 1 /\ a = Hash(c, N - 1)
        /\ \A h \in 0 .. N - 1 : Hash(a, h) = Hash(c, h)
    BY HashOfFront
  <2> HIDE DEF a, N
  <2> QED BY <2>1, BridgeAssumption
<1>1. HeightOK(r, c, N) /\ HeightOK(r, c, N - 1)
  BY <1>0 DEF Replays
<1>2. Hash(c, N) = c
  BY <1>0, HashFacts
<1>3. \A g \in 0 .. N - 1 : r[g] = r[g] /\ Hash(a, g) = Hash(c, g)
  BY <1>0
<1>6. Fits(r, a, N - 1)
  <2> HIDE DEF a, N
  <2> QED BY <1>0, <1>3, FitsLocal DEF N
<1> HIDE DEF a, N
<1>4. CASE t.dirty
  <2>1. u = [t EXCEPT !.dirty = TRUE]
    BY <1>4 DEF BlockDisconnected
  <2>2. DOMAIN u = DOMAIN t /\ u.dirty = TRUE /\ u.index = t.index
    BY <2>1 DEF TrackerOK
  <2> HIDE DEF u
  <2>3. TrackerOK(u, r, a)
    BY <1>4, <2>2 DEF TrackerOK
  <2> QED BY <1>6, <2>3 DEF u, a, N
<1>5. CASE ~t.dirty
  <2>1. t.synced = c /\ IsIndex(I) /\ SameState(I, r[N]) /\ IsHistory(H, r, c, N)
    BY <1>5 DEF TrackerOK, N
  <2> HIDE DEF H
  <2>2. PICK S : H \in Seq(S)
    BY <2>1 DEF IsHistory, IsSeq
  <2>3. CASE N < Activation
    <3>1. r[N] = EmptyIndex /\ r[N - 1] = EmptyIndex
      <4>1. N - 1 < Activation
        BY <1>0, <2>3
      <4> QED BY <1>1, <2>3, <4>1 DEF HeightOK
    <3>2. u = [t EXCEPT !.synced = a]
      BY <1>5, <2>1, <2>3 DEF BlockDisconnected, N, a
    <3>3. DOMAIN u = DOMAIN t /\ u.dirty = t.dirty /\ u.index = I /\ u.synced = a
      BY <3>2 DEF TrackerOK
    <3> HIDE DEF u
    <3>4. Len(H) = 0
      <4>1. Len(H) \in Nat /\ (Len(H) = 0 \/ Activation + Len(H) <= N + 1)
        BY <2>1, <2>2 DEF IsHistory
      <4> QED BY <1>0, <2>3, <4>1
    <3>5. IsHistory(H, r, a, N - 1)
      BY <2>1, <3>4, BridgeAssumption DEF IsHistory
    <3> HIDE DEF I
    <3>6. TrackerOK(u, r, a)
      BY <1>0, <1>5, <1>6, <2>1, <3>1, <3>3, <3>5 DEF TrackerOK, H
    <3> QED BY <1>6, <3>6 DEF u, a, N
  <2>4. CASE ~(N < Activation) /\ DisconnectBlock(I, c) = {}
    <3>1. u = Unavailable(t)
      BY <1>5, <2>1, <2>4 DEF BlockDisconnected, N
    <3>2. DOMAIN u = DOMAIN t /\ u.dirty = TRUE /\ u.index = EmptyIndex
      BY <3>1 DEF TrackerOK, Unavailable
    <3> HIDE DEF u
    <3>3. TrackerOK(u, r, a)
      BY <3>2 DEF TrackerOK
    <3> QED BY <1>6, <3>3 DEF u, a, N
  <2>5. CASE ~(N < Activation) /\ DisconnectBlock(I, c) # {}
    <3> DEFINE J == CHOOSE i \in DisconnectBlock(I, c) : TRUE
               P == r[N - 1]
               b == c[N]
               d == Delta(r, c, N)
    <3>1. J \in DisconnectBlock(I, c)
      BY <2>5
    <3>2. u = [t EXCEPT !.index = J, !.synced = a]
      BY <1>5, <2>1, <2>5 DEF BlockDisconnected, N, a
    <3>3. DOMAIN u = DOMAIN t /\ u.dirty = t.dirty /\ u.index = J /\ u.synced = a
      BY <3>2 DEF TrackerOK
    <3> HIDE DEF u, J
    <3>4. H # << >>
      BY <2>5 DEF DisconnectBlock, H
    <3>5. Last(H) = d /\ IsHistory(Front(H), r, c, N - 1)
      BY <1>0, <2>1, <3>4, HistoryShrinks
    <3>6. IsHistory(Front(H), r, a, N - 1)
      BY <1>0, <1>3, <3>5, HistoryLocal
    <3>7. b \in Blocks /\ c = Append(a, b)
      <4>1. b \in Blocks
        BY <1>0 DEF N
      <4>2. Append(a, b) \in Seq(Blocks) /\ Len(Append(a, b)) = N
        BY <1>0, <4>1
      <4>3. \A i \in 1 .. N : Append(a, b)[i] = c[i]
        <5> TAKE i \in 1 .. N
        <5>1. CASE i = N
          BY <1>0, <5>1
        <5>2. CASE i # N
          <6>1. i \in 1 .. N - 1 /\ i \in 1 .. Len(a)
            BY <1>0, <5>2
          <6>2. a[i] = c[i]
            BY <6>1, HashOfFront DEF a, N
          <6> QED BY <1>0, <6>1, <6>2
        <5> QED BY <5>1, <5>2
      <4>4. c \in Seq(Blocks) /\ Len(c) = N
        BY DEF N
      <4> DEFINE e == Append(a, b)
      <4> HIDE DEF e
      <4>5. e \in Seq(Blocks) /\ Len(e) = N /\ \A i \in 1 .. N : e[i] = c[i]
        BY <4>2, <4>3 DEF e
      <4>6. c = e
        BY <4>4, <4>5
      <4> QED BY <4>1, <4>6 DEF e
    <3>8. IndexOK(P, a) /\ Len(a) + 1 >= Activation
      BY <1>0, <1>1, <2>5 DEF HeightOK
    <3>9. d = VerifyBlock(P, c) /\ d.ok /\ SameState(I, ConnectBlock(P, d))
      <4>1. d = VerifyBlock(P, c)
        BY <1>2 DEF Delta
      <4>2. N >= Activation
        BY <1>0, <2>5
      <4>3. d.ok /\ r[N] = ConnectBlock(P, d)
        BY <1>1, <4>2 DEF HeightOK
      <4> HIDE DEF d, P
      <4> QED BY <2>1, <4>1, <4>3
    <3>10. \A fl \in P.floor : fl.at # c
      <4>1. CASE P.client = {}
        BY <1>1, <4>1 DEF HeightOK, ConnectionOK
      <4>2. CASE P.client # {}
        <5>1. PICK fl : P.floor = {fl} /\ FloorOK(fl, r, c, N - 1)
          BY <1>1, <4>2 DEF HeightOK, ConnectionOK
        <5>2. Len(fl.at) # N
          BY <1>0, <5>1 DEF FloorOK
        <5> QED BY <5>1, <5>2 DEF N
      <4> QED BY <4>1, <4>2
    <3> HIDE DEF d, P, b, I
    <3>11. Last(I.history) = d
      BY <3>5 DEF H
    <3>12. SameState(J, P) /\ IsIndex(J) /\ J.history = Front(I.history)
      <4>1. a \in Seq(Blocks)
        BY <1>0
      <4>2. IsUndone(J, I, P)
        BY <3>1, <3>7, <3>8, <3>9, <3>10, <3>11, <4>1, Undone
      <4> QED BY <4>2 DEF IsUndone
    <3>13. TrackerOK(u, r, a)
      <4>1. J.history = Front(H) /\ Len(a) = N - 1 /\ r[Len(a)] = P
        BY <1>0, <3>12 DEF H, P
      <4> QED BY <1>0, <1>5, <1>6, <3>3, <3>6, <3>12, <4>1 DEF TrackerOK
    <3> QED BY <1>6, <3>13 DEF u, a, N
  <2> QED BY <2>3, <2>4, <2>5
<1> QED BY <1>4, <1>5 DEF TrackerOK

(* An accepted block mints each deposit at most once, and none that the chain
   has minted. *)
LEMMA MintsGrow ==
    ASSUME NEW c \in Seq(Blocks), NEW b \in Blocks, MintsOK(c), NEW P, IndexOK(P, c),
           \/ Len(c) + 1 < Activation /\ b.records = << >>
           \/ Len(c) + 1 >= Activation /\ VerifyBlock(P, Append(c, b)).ok
    PROVE  MintsOK(Append(c, b))
<1> DEFINE a == Append(c, b)
           N == Len(c)
           s == Verified(Scratch(P), b.records, a, b.time)
           n == Len(b.records)
<1>0. /\ N \in Nat /\ Len(a) = N + 1 /\ a[N + 1] = b /\ \A g \in 1 .. N : a[g] = c[g]
      /\ Activation \in Nat \ {0} /\ n \in Nat
  BY BlockRecords, BridgeAssumption
<1>1. \A g \in 1 .. N + 1 : g = N + 1 \/ g \in 1 .. N
  BY <1>0
<1>2. N + 1 >= Activation => BlockDone(s, P, c, b)
  <2> SUFFICES ASSUME N + 1 >= Activation PROVE BlockDone(s, P, c, b)
    OBVIOUS
  <2>1. VerifyBlock(P, Append(c, b)).ok
    BY <1>0
  <2> QED BY <2>1, BlockVerified
<1>3. NullifiersOK(P.nullifiers, c)
  BY DEF IndexOK
<1> HIDE DEF a, s
<1>4. \A i, j \in 1 .. n : SameMint(b.records[i], b.records[j]) => i = j
  <2>1. CASE N + 1 >= Activation
    BY <1>2, <2>1 DEF BlockDone, MintsDone, SameMint
  <2>2. CASE ~(N + 1 >= Activation)
    <3>1. n = 0
      BY <2>2
    <3> QED BY <3>1
  <2> QED BY <2>1, <2>2
<1>5. \A g \in 1 .. N : \A i \in 1 .. Len(c[g].records), j \in 1 .. n :
          ~SameMint(c[g].records[i], b.records[j]) /\ ~SameMint(b.records[j], c[g].records[i])
  <2>1. CASE N + 1 >= Activation
    BY <1>2, <1>3, <2>1 DEF BlockDone, MintsDone, NullifiersOK, SameMint
  <2>2. CASE ~(N + 1 >= Activation)
    <3>1. n = 0
      BY <2>2
    <3> QED BY <3>1
  <2> QED BY <2>1, <2>2
<1>6. ASSUME NEW g \in 1 .. Len(a), NEW h \in 1 .. Len(a),
             NEW i \in 1 .. Len(a[g].records), NEW j \in 1 .. Len(a[h].records),
             SameMint(a[g].records[i], a[h].records[j])
      PROVE  g = h /\ i = j
  <2>1. CASE g \in 1 .. N /\ h \in 1 .. N
    <3>1. a[g] = c[g] /\ a[h] = c[h]
      BY <1>0, <2>1
    <3>2. /\ i \in 1 .. Len(c[g].records) /\ j \in 1 .. Len(c[h].records)
          /\ SameMint(c[g].records[i], c[h].records[j])
      BY <1>6, <3>1
    <3> QED BY <2>1, <3>2 DEF MintsOK
  <2>2. CASE g \in 1 .. N /\ h = N + 1
    BY <1>0, <1>5, <1>6, <2>2
  <2>3. CASE g = N + 1 /\ h \in 1 .. N
    BY <1>0, <1>5, <1>6, <2>3
  <2>4. CASE g = N + 1 /\ h = N + 1
    BY <1>0, <1>4, <1>6, <2>4
  <2> QED BY <1>0, <1>1, <2>1, <2>2, <2>3, <2>4
<1>7. ASSUME NEW h \in Activation .. Len(a) PROVE MintedIn(a[h].records) <= MaxPerBlock
  <2>1. CASE h = N + 1
    <3>1. BlockDone(s, P, c, b)
      BY <1>0, <1>2, <2>1
    <3> QED BY <1>0, <2>1, <3>1 DEF BlockDone, MintsDone
  <2>2. CASE h # N + 1
    <3>1. h \in 1 .. N /\ h \in Activation .. N
      BY <1>0, <2>2
    <3> QED BY <1>0, <3>1 DEF MintsOK
  <2> QED BY <2>1, <2>2
<1>8. MintsOK(a)
  BY <1>6, <1>7 DEF MintsOK
<1> QED BY <1>8 DEF a

(* A shorter chain mints no more. *)
LEMMA MintsShrink ==
    ASSUME NEW c \in Seq(Blocks), c # << >>, MintsOK(c)
    PROVE  MintsOK(Front(c))
<1> DEFINE a == Front(c)
           N == Len(c)
<1>0. /\ N \in Nat \ {0} /\ Len(a) = N - 1 /\ Activation \in Nat \ {0}
      /\ \A g \in 1 .. N - 1 : a[g] = c[g]
  BY HashOfFront, BridgeAssumption
<1>1. \A g \in 1 .. N - 1 : g \in 1 .. N
  BY <1>0
<1>2. \A g \in Activation .. N - 1 : g \in Activation .. N /\ g \in 1 .. N - 1
  BY <1>0
<1> HIDE DEF a
<1>3. ASSUME NEW g \in 1 .. Len(a), NEW h \in 1 .. Len(a),
             NEW i \in 1 .. Len(a[g].records), NEW j \in 1 .. Len(a[h].records),
             SameMint(a[g].records[i], a[h].records[j])
      PROVE  g = h /\ i = j
  <2>1. a[g] = c[g] /\ a[h] = c[h] /\ g \in 1 .. N /\ h \in 1 .. N
    BY <1>0, <1>1, <1>3
  <2>2. /\ i \in 1 .. Len(c[g].records) /\ j \in 1 .. Len(c[h].records)
        /\ SameMint(c[g].records[i], c[h].records[j])
    BY <1>3, <2>1
  <2> QED BY <2>1, <2>2 DEF MintsOK
<1>4. ASSUME NEW h \in Activation .. Len(a) PROVE MintedIn(a[h].records) <= MaxPerBlock
  BY <1>0, <1>2, <1>4 DEF MintsOK
<1>5. MintsOK(a)
  BY <1>3, <1>4 DEF MintsOK
<1> QED BY <1>5 DEF a

-----------------------------------------------------------------------------
(* The actions of a node.                                                  *)

(* A node starts with an empty chain and a new tracker. *)
LEMMA InitInv ==
    Init => BridgeInv
<1> SUFFICES ASSUME Init PROVE BridgeInv
  OBVIOUS
<1>1. chain = << >> /\ tracker = NewTracker
  BY DEF Init
<1>2. MintsOK(<< >>)
  BY BridgeAssumption DEF MintsOK
<1> DEFINE r == [g \in {0} |-> EmptyIndex]
<1>3. Replays(r, << >>)
  BY ReplaysAtGenesis
<1>4. TrackerOK(NewTracker, r, << >>)
  BY DEF TrackerOK, NewTracker
<1> HIDE DEF r
<1>5. << >> \in Seq(Blocks)
  OBVIOUS
<1>6. Fits(r, << >>, Len(<< >>) - 1)
  BY BridgeAssumption DEF Fits
<1> QED BY <1>1, <1>2, <1>3, <1>4, <1>5, <1>6 DEF BridgeInv

(* A block below the activation height. *)
LEMMA ConnectTipBeforeInv ==
    ASSUME BridgeInv, NEW b \in Blocks, ConnectTipBefore(b)
    PROVE  BridgeInv'
<1>1. /\ chain \in Seq(Blocks) /\ MintsOK(chain) /\ Len(chain) + 1 < Activation
      /\ b.records = << >> /\ chain' = Append(chain, b)
      /\ tracker' = BlockConnected(tracker, Append(chain, b))
  BY DEF BridgeInv, ConnectTipBefore
<1>2. PICK r : Replays(r, chain) /\ Fits(r, chain, Len(chain) - 1) /\ TrackerOK(tracker, r, chain)
  BY DEF BridgeInv
<1>3. PICK r2 : /\ Replays(r2, Append(chain, b)) /\ Fits(r2, Append(chain, b), Len(chain))
                /\ TrackerOK(BlockConnected(tracker, Append(chain, b)), r2, Append(chain, b))
  BY <1>1, <1>2, ConnectedBelow
<1>4. MintsOK(Append(chain, b))
  <2>1. Len(chain) \in 0 .. Len(chain) /\ Hash(chain, Len(chain)) = chain
    BY <1>1, HashFacts
  <2>2. IndexOK(r[Len(chain)], chain)
    BY <1>2, <2>1 DEF Replays, HeightOK
  <2> QED BY <1>1, <2>2, MintsGrow
<1>5. Append(chain, b) \in Seq(Blocks) /\ Len(Append(chain, b)) - 1 = Len(chain)
  BY <1>1
<1>6. /\ MintsOK(chain') /\ Replays(r2, chain') /\ Fits(r2, chain', Len(chain') - 1)
      /\ TrackerOK(tracker', r2, chain') /\ chain' \in Seq(Blocks)
  BY <1>1, <1>3, <1>4, <1>5
<1> QED BY <1>6 DEF BridgeInv

(* A block with bridge rules: validation brings the tracker to the parent first. *)
LEMMA ConnectTipInv ==
    ASSUME BridgeInv, NEW b \in Blocks, ConnectTip(b)
    PROVE  BridgeInv'
<1>1. /\ chain \in Seq(Blocks) /\ MintsOK(chain) /\ Len(chain) + 1 >= Activation
      /\ chain' = Append(chain, b)
  BY DEF BridgeInv, ConnectTip
<1>2. PICK r : Replays(r, chain) /\ Fits(r, chain, Len(chain) - 1) /\ TrackerOK(tracker, r, chain)
  BY DEF BridgeInv
<1>3. PICK t \in Sync(tracker, chain) :
          /\ VerifyBlock(t.index, Append(chain, b)).ok
          /\ tracker' = BlockConnected(t, Append(chain, b))
  BY <1>1 DEF ConnectTip
<1>4. TrackerOK(t, r, chain) /\ ~t.dirty /\ Fits(r, chain, Len(chain))
  <2>1. TrackerOK(t, r, chain) /\ ~t.dirty
    BY <1>1, <1>2, <1>3, SyncOK
  <2> QED BY <2>1 DEF TrackerOK
<1>5. VerifyBlock(r[Len(chain)], Append(chain, b)).ok
  <2>1. SameState(t.index, r[Len(chain)])
    BY <1>4 DEF TrackerOK
  <2>2. VerifyBlock(t.index, Append(chain, b)) = VerifyBlock(r[Len(chain)], Append(chain, b))
    BY <2>1, SameVerifies
  <2> QED BY <1>3, <2>2
<1>6. PICK r2 : /\ Replays(r2, Append(chain, b)) /\ Fits(r2, Append(chain, b), Len(chain))
                /\ TrackerOK(BlockConnected(t, Append(chain, b)), r2, Append(chain, b))
  BY <1>1, <1>2, <1>4, <1>5, ConnectedAbove
<1>7. MintsOK(Append(chain, b))
  <2>1. Len(chain) \in 0 .. Len(chain) /\ Hash(chain, Len(chain)) = chain
    BY <1>1, HashFacts
  <2>2. IndexOK(r[Len(chain)], chain)
    BY <1>2, <2>1 DEF Replays, HeightOK
  <2> QED BY <1>1, <1>5, <2>2, MintsGrow
<1>8. Append(chain, b) \in Seq(Blocks) /\ Len(Append(chain, b)) - 1 = Len(chain)
  BY <1>1
<1>9. /\ MintsOK(chain') /\ Replays(r2, chain') /\ Fits(r2, chain', Len(chain') - 1)
      /\ TrackerOK(tracker', r2, chain') /\ chain' \in Seq(Blocks)
  BY <1>1, <1>3, <1>6, <1>7, <1>8
<1> QED BY <1>9 DEF BridgeInv

(* A reorganisation takes blocks off the chain one by one. *)
LEMMA DisconnectTipInv ==
    ASSUME BridgeInv, DisconnectTip
    PROVE  BridgeInv'
<1>1. /\ chain \in Seq(Blocks) /\ MintsOK(chain) /\ chain # << >> /\ chain' = Front(chain)
      /\ tracker' = BlockDisconnected(tracker, chain)
  BY DEF BridgeInv, DisconnectTip
<1>2. PICK r : Replays(r, chain) /\ Fits(r, chain, Len(chain) - 1) /\ TrackerOK(tracker, r, chain)
  BY DEF BridgeInv
<1>3. /\ TrackerOK(BlockDisconnected(tracker, chain), r, Front(chain))
      /\ Fits(r, Front(chain), Len(chain) - 1)
  BY <1>1, <1>2, DisconnectedOK
<1>4. Replays(r, Front(chain)) /\ Front(chain) \in Seq(Blocks)
  <2>1. /\ Front(chain) \in Seq(Blocks) /\ Front(chain) = Hash(chain, Len(chain) - 1)
        /\ Len(chain) \in Nat \ {0}
    BY <1>1, HashOfFront
  <2>2. Len(chain) - 1 \in 0 .. Len(chain)
    BY <2>1
  <2>3. Replays(r, Hash(chain, Len(chain) - 1))
    BY <1>1, <1>2, <2>2, ReplaysPrefix
  <2> QED BY <2>1, <2>3
<1>5. MintsOK(Front(chain))
  BY <1>1, MintsShrink
<1>6. Fits(r, Front(chain), Len(Front(chain)) - 1)
  <2>1. Len(Front(chain)) = Len(chain) - 1 /\ Len(chain) \in Nat \ {0}
    BY <1>1, HashOfFront
  <2>2. \A g \in Activation .. (Len(chain) - 1) - 1 : g \in Activation .. Len(chain) - 1
    BY <2>1, BridgeAssumption
  <2> QED BY <1>3, <2>1, <2>2 DEF Fits
<1>7. /\ MintsOK(chain') /\ Replays(r, chain') /\ Fits(r, chain', Len(chain') - 1)
      /\ TrackerOK(tracker', r, chain') /\ chain' \in Seq(Blocks)
  BY <1>1, <1>3, <1>4, <1>5, <1>6
<1> QED BY <1>7 DEF BridgeInv

(* What only touches the tracker. *)
LEMMA TrackerInv ==
    ASSUME BridgeInv, SyncTip \/ SyncUnreadable \/ Restart
    PROVE  BridgeInv'
<1>1. chain \in Seq(Blocks) /\ MintsOK(chain) /\ chain' = chain
  BY DEF BridgeInv, SyncTip, SyncUnreadable, Restart
<1>2. PICK r : Replays(r, chain) /\ Fits(r, chain, Len(chain) - 1) /\ TrackerOK(tracker, r, chain)
  BY DEF BridgeInv
<1>3. TrackerOK(Unavailable(tracker), r, chain)
  <2> DEFINE u == Unavailable(tracker)
  <2>1. DOMAIN u = DOMAIN tracker /\ u.dirty = TRUE /\ u.index = EmptyIndex
    BY <1>2 DEF Unavailable, TrackerOK
  <2> HIDE DEF u
  <2>2. TrackerOK(u, r, chain)
    BY <1>2, <2>1 DEF TrackerOK
  <2> QED BY <2>2 DEF u
<1>4. TrackerOK(NewTracker, r, chain)
  BY DEF TrackerOK, NewTracker
<1>5. SyncTip => TrackerOK(tracker', r, chain)
  <2> SUFFICES ASSUME SyncTip PROVE TrackerOK(tracker', r, chain)
    OBVIOUS
  <2>1. \A u \in Sync(tracker, chain) : TrackerOK(u, r, chain)
    BY <1>1, <1>2, SyncOK
  <2>2. tracker' = Unavailable(tracker) \/ tracker' \in Sync(tracker, chain)
    BY DEF SyncTip
  <2> QED BY <1>3, <2>1, <2>2
<1>6. TrackerOK(tracker', r, chain)
  BY <1>3, <1>4, <1>5 DEF SyncUnreadable, Restart
<1>7. /\ MintsOK(chain') /\ Replays(r, chain') /\ Fits(r, chain', Len(chain') - 1)
      /\ TrackerOK(tracker', r, chain') /\ chain' \in Seq(Blocks)
  BY <1>1, <1>2, <1>6
<1> QED BY <1>7 DEF BridgeInv

(* Every height of the active chain has the index its blocks make, no block below
   the tip advances the light client past the backfill window, and the tracker
   holds the index of the tip or calls itself dirty; it is dirty whenever the tip
   itself advances too far.  ConnectBlock, DisconnectBlock and Sync. *)
THEOREM BridgeInvariant == Spec => []BridgeInv
<1>1. BridgeInv /\ [Next]_vars => BridgeInv'
  <2> SUFFICES ASSUME BridgeInv, [Next]_vars PROVE BridgeInv'
    OBVIOUS
  <2>1. CASE Next
    <3>1. ASSUME NEW b \in Blocks, ConnectTipBefore(b) \/ ConnectTip(b) PROVE BridgeInv'
      BY <3>1, ConnectTipBeforeInv, ConnectTipInv
    <3>2. CASE DisconnectTip
      BY <3>2, DisconnectTipInv
    <3>3. CASE SyncTip \/ SyncUnreadable \/ Restart
      BY <3>3, TrackerInv
    <3> QED BY <2>1, <3>1, <3>2, <3>3 DEF Next
  <2>2. CASE UNCHANGED vars
    BY <2>2 DEF BridgeInv, vars
  <2> QED BY <2>1, <2>2
<1> QED BY InitInv, <1>1, PTL DEF Spec

-----------------------------------------------------------------------------
(* What the invariant says of the node.                                    *)

(* The tip of the chain and its index. *)
LEMMA TipOK ==
    ASSUME BridgeInv
    PROVE  \E r : /\ Replays(r, chain) /\ Fits(r, chain, Len(chain) - 1)
                  /\ TrackerOK(tracker, r, chain)
                  /\ HeightOK(r, chain, Len(chain)) /\ IndexOK(r[Len(chain)], chain)
<1>1. chain \in Seq(Blocks)
  BY DEF BridgeInv
<1>2. PICK r : Replays(r, chain) /\ Fits(r, chain, Len(chain) - 1) /\ TrackerOK(tracker, r, chain)
  BY DEF BridgeInv
<1>3. Len(chain) \in 0 .. Len(chain) /\ Hash(chain, Len(chain)) = chain
  BY <1>1, HashFacts
<1>4. HeightOK(r, chain, Len(chain))
  BY <1>2, <1>3 DEF Replays
<1>5. IndexOK(r[Len(chain)], chain)
  BY <1>3, <1>4 DEF HeightOK
<1> QED BY <1>2, <1>4, <1>5

(* No deposit is minted twice on an active chain: VerifyMint's nullifiers. *)
THEOREM MintedOnce == Spec => []DepositsMintedOnce
<1>1. BridgeInv => DepositsMintedOnce
  <2> SUFFICES ASSUME BridgeInv,
                      NEW g \in DOMAIN chain, NEW h \in DOMAIN chain,
                      NEW i \in DOMAIN chain[g].records, NEW j \in DOMAIN chain[h].records,
                      chain[g].records[i].kind = "MINT", chain[h].records[j].kind = "MINT",
                      chain[g].records[i].deposit = chain[h].records[j].deposit
               PROVE  g = h /\ i = j
    BY DEF DepositsMintedOnce
  <2>1. chain \in Seq(Blocks) /\ MintsOK(chain)
    BY DEF BridgeInv
  <2>2. g \in 1 .. Len(chain) /\ h \in 1 .. Len(chain) /\ chain[g] \in Blocks /\ chain[h] \in Blocks
    BY <2>1
  <2>3. i \in 1 .. Len(chain[g].records) /\ j \in 1 .. Len(chain[h].records)
    BY <2>2, BlockRecords
  <2>4. SameMint(chain[g].records[i], chain[h].records[j])
    BY DEF SameMint
  <2> QED BY <2>1, <2>2, <2>3, <2>4 DEF MintsOK
<1> QED BY <1>1, BridgeInvariant, PTL

(* The caps of a block and of a mint epoch hold on every active chain, counted
   from its records: AdmitConfiguredDeposit. *)
THEOREM CapsHold == Spec => []MintCapsHold
<1>1. BridgeInv => MintCapsHold
  <2> SUFFICES ASSUME BridgeInv, NEW h \in Activation .. Len(chain)
               PROVE  /\ MintedIn(chain[h].records) <= MaxPerBlock
                      /\ MintedInEpoch(chain, BridgeEpoch(h)) <= MaxPerEpoch
    BY DEF MintCapsHold
  <2>1. MintedIn(chain[h].records) <= MaxPerBlock
    BY DEF BridgeInv, MintsOK
  <2>2. PICK r : IndexOK(r[Len(chain)], chain)
    BY TipOK
  <2>3. BridgeEpoch(h) \in Nat
    BY EpochType, BridgeAssumption
  <2>4. MintedOK(r[Len(chain)].minted, chain)
    BY <2>2 DEF IndexOK
  <2> HIDE DEF BridgeInv
  <2>5. MintedInEpoch(chain, BridgeEpoch(h)) <= MaxPerEpoch
    BY <2>3, <2>4 DEF MintedOK
  <2> QED BY <2>1, <2>5
<1> QED BY <1>1, BridgeInvariant, PTL

(* The store and the anchors the node answers from. *)
LEMMA LightNow ==
    ASSUME BridgeInv
    PROVE  LightOK(tracker.index.client, tracker.index.anchors, Len(chain))
<1>1. PICK r : TrackerOK(tracker, r, chain) /\ IndexOK(r[Len(chain)], chain)
  BY TipOK
<1>2. CASE tracker.dirty
  <2>1. tracker.index.client = {} /\ tracker.index.anchors = NoEntries
    BY <1>1, <1>2 DEF TrackerOK, EmptyIndex
  <2>2. IsMap(NoEntries) /\ DOMAIN NoEntries = {}
    BY DEF IsMap, NoEntries
  <2> QED BY <2>1, <2>2 DEF LightOK
<1>3. CASE ~tracker.dirty
  <2>1. SameState(tracker.index, r[Len(chain)])
    BY <1>1, <1>3 DEF TrackerOK
  <2> QED BY <1>1, <2>1 DEF SameState, IndexOK
<1> QED BY <1>2, <1>3

(* The light client holds the committees of its period and the next: VerifyUpdate
   and ProcessUpdate. *)
THEOREM Committees == Spec => []CommitteesOfTheirPeriods
<1>1. BridgeInv => CommitteesOfTheirPeriods
  <2> SUFFICES ASSUME BridgeInv, NEW store \in tracker.index.client
               PROVE  /\ store.current = store.period /\ Period(store.block) = store.period
                      /\ store.next \subseteq {store.period + 1}
    BY DEF CommitteesOfTheirPeriods
  <2>1. StoreOK(store)
    BY LightNow DEF LightOK
  <2> QED BY <2>1 DEF StoreOK
<1> QED BY <1>1, BridgeInvariant, PTL

(* Every Ethereum block up to the accepted head stays provable, and the anchor
   offered for it is one the chain holds: VerifyUpdate's range check and
   AnchorForTarget. *)
THEOREM NothingStranded == Spec => []NoDepositStranded
<1>1. BridgeInv => NoDepositStranded
  <2> DEFINE idx == tracker.index
             A == idx.anchors
             N == Len(chain)
  <2> SUFFICES ASSUME BridgeInv, NEW store \in idx.client, NEW b \in Deployment .. store.block
               PROVE  \E a \in AnchorForTarget(idx, b, N) :
                          a >= b /\ A[a].source - b <= MaxBackfill
    BY DEF NoDepositStranded
  <2>1. LightOK(idx.client, A, N)
    BY LightNow
  <2>2. chain \in Seq(Blocks) /\ N \in Nat
    BY DEF BridgeInv
  <2>3. /\ DOMAIN A \subseteq Nat
        /\ \A a \in DOMAIN A : A[a].source \in Nat /\ Len(A[a].at) \in 0 .. N
        /\ \E a \in DOMAIN A : Reaches(A, a, b)
    BY <2>1 DEF LightOK
  <2> DEFINE usable == {a \in DOMAIN A : /\ a >= b /\ Len(A[a].at) <= N
                                         /\ CumulativeTargetAllowed(A[a], b)}
  <2>4. usable # {}
    <3>1. PICK a \in DOMAIN A : Reaches(A, a, b)
      BY <2>3
    <3>2. Len(A[a].at) <= N
      BY <2>2, <2>3
    <3>3. a >= b /\ CumulativeTargetAllowed(A[a], b)
      BY <3>1 DEF Reaches, CumulativeTargetAllowed
    <3> QED BY <3>1, <3>2, <3>3
  <2>5. usable \subseteq Nat
    BY <2>3
  <2>6. AnchorForTarget(idx, b, N) = {a \in usable : \A other \in usable : a <= other}
    BY DEF AnchorForTarget
  <2>7. \A a \in usable : a >= b /\ A[a].source - b <= MaxBackfill
    BY DEF CumulativeTargetAllowed
  <2> HIDE DEF usable, idx, N
  <2>8. PICK a \in usable : \A other \in usable : a <= other
    BY <2>4, <2>5, LeastExists
  <2> QED BY <2>6, <2>7, <2>8
<1> QED BY <1>1, BridgeInvariant, PTL

SourcesOnce(leaves) == \A i, j \in DOMAIN leaves : leaves[i].source = leaves[j].source => i = j

(* The leaves a proof is built from are those the root of the height commits. *)
LEMMA CutThrough ==
    ASSUME NEW idx, NEW n \in Nat, idx.tree \in Seq(Leaf), NEW g \in Nat, NEW root, Cut(idx.tree, root, g),
           TreeOK(idx.tree, n)
    PROVE  DecentralizedWithdrawalsThrough(idx, g) = root /\ SourcesOnce(root)
<1> DEFINE tree == idx.tree
           later == {i \in DOMAIN tree : tree[i].height > g}
           m == Len(root)
           M == Len(tree)
<1>0. /\ tree \in Seq(Leaf) /\ M \in Nat /\ DOMAIN tree = 1 .. M
      /\ root \in Seq(Leaf) /\ m \in Nat /\ m <= M /\ DOMAIN root = 1 .. m
      /\ \A i \in 1 .. m : root[i] = tree[i] /\ tree[i].height <= g
      /\ \A i \in 1 .. M : i > m => tree[i].height > g
      /\ \A i \in 1 .. M : tree[i].height \in Nat
  <2>1. tree \in Seq(Leaf) /\ root \in Seq(Leaf)
    BY DEF Cut
  <2>2. \A i \in 1 .. M : tree[i].height \in Nat
    BY DEF TreeOK
  <2>3. /\ m <= M /\ \A i \in 1 .. m : root[i] = tree[i] /\ tree[i].height <= g
        /\ \A i \in 1 .. M : i > m => tree[i].height > g
    BY DEF Cut
  <2> HIDE DEF tree
  <2> QED BY <2>1, <2>2, <2>3
<1>1. SourcesOnce(root)
  <2>1. \A i \in 1 .. m : i \in 1 .. M
    BY <1>0
  <2>2. \A i, j \in 1 .. M : tree[i].source = tree[j].source => i = j
    BY DEF TreeOK
  <2> HIDE DEF tree, m, M
  <2> QED BY <1>0, <2>1, <2>2 DEF SourcesOnce
<1>2. DecentralizedWithdrawalsThrough(idx, g)
          = IF later = {} THEN tree
            ELSE SubSeq(tree, 1, (CHOOSE i \in later : \A j \in later : i <= j) - 1)
  BY DEF DecentralizedWithdrawalsThrough
<1>3. later = {i \in 1 .. M : i > m}
  <2>1. \A i \in 1 .. M : i <= m \/ i > m
    BY <1>0
  <2>2. \A i \in 1 .. M : i <= m => i \in 1 .. m
    BY <1>0
  <2>3. ASSUME NEW i \in 1 .. M PROVE tree[i].height > g <=> i > m
    <3>1. CASE i > m
      BY <1>0, <3>1
    <3>2. CASE i <= m
      BY <1>0, <2>2, <3>2
    <3> QED BY <2>1, <3>1, <3>2
  <2> HIDE DEF tree, m, M
  <2> QED BY <1>0, <2>3
<1> HIDE DEF tree, later, m, M
<1>4. CASE m = M
  <2>1. later = {}
    BY <1>0, <1>3, <1>4
  <2>2. tree = root
    BY <1>0, <1>4 DEF m, M
  <2> QED BY <1>1, <1>2, <2>1, <2>2
<1>5. CASE m # M
  <2>1. m + 1 \in later /\ \A j \in later : m + 1 <= j /\ j \in Nat
    <3>0. m \in Nat /\ M \in Nat /\ m <= M
      BY <1>0
    <3>1. m + 1 \in 1 .. M /\ m + 1 > m
      BY <1>5, <3>0
    <3>2. \A j \in 1 .. M : j > m => m + 1 <= j /\ j \in Nat
      BY <3>0
    <3> QED BY <1>3, <3>1, <3>2
  <2>2. (CHOOSE i \in later : \A j \in later : i <= j) = m + 1
    <3> DEFINE k == CHOOSE i \in later : \A j \in later : i <= j
    <3>1. k \in later /\ \A j \in later : k <= j
      BY <2>1
    <3> HIDE DEF k
    <3>2. k = m + 1
      BY <1>0, <2>1, <3>1
    <3> QED BY <3>2 DEF k
  <2>3. DecentralizedWithdrawalsThrough(idx, g) = SubSeq(tree, 1, m)
    <3>1. (m + 1) - 1 = m /\ later # {}
      BY <1>0, <2>1
    <3> QED BY <1>2, <2>2, <3>1
  <2>4. SubSeq(tree, 1, m) = root
    <3> DEFINE q == SubSeq(tree, 1, m)
    <3>1. q \in Seq(Leaf) /\ Len(q) = m /\ \A i \in 1 .. m : q[i] = tree[i]
      BY <1>0
    <3> HIDE DEF q
    <3>2. q = root
      BY <1>0, <3>1 DEF m
    <3> QED BY <3>2 DEF q
  <2> QED BY <1>1, <2>3, <2>4
<1> QED BY <1>4, <1>5

(* The root of a height commits exactly the burns of the active chain up to it,
   and the proofs are built from the same leaves: VerifyBridgeBurn, ConnectBlock,
   DisconnectBlock and DecentralizedWithdrawalsThrough. *)
THEOREM RootsCommit == Spec => []RootsCommitBurns
<1>1. BridgeInv => RootsCommitBurns
  <2> SUFFICES ASSUME BridgeInv, ~tracker.dirty, NEW h \in Activation .. Len(chain)
               PROVE  LET leaves == Burned(Hash(chain, h))
                      IN  /\ tracker.index.roots[h] = leaves
                          /\ DecentralizedWithdrawalsThrough(tracker.index, h) = leaves
                          /\ \A i, j \in DOMAIN leaves :
                                 leaves[i].source = leaves[j].source => i = j
    BY DEF RootsCommitBurns
  <2> DEFINE idx == tracker.index
             leaves == Burned(Hash(chain, h))
  <2>1. PICK r : TrackerOK(tracker, r, chain) /\ IndexOK(r[Len(chain)], chain)
    BY TipOK
  <2>2. SameState(idx, r[Len(chain)])
    BY <2>1 DEF TrackerOK
  <2>3. RootsOK(idx.roots, idx.tree, chain) /\ TreeOK(idx.tree, Len(chain))
    BY <2>1, <2>2 DEF SameState, IndexOK
  <2>4. idx.roots[h] = leaves /\ Cut(idx.tree, leaves, h)
    BY <2>3 DEF RootsOK
  <2>5. idx.tree \in Seq(Leaf) /\ h \in Nat
    BY <2>3, BridgeAssumption DEF TreeOK
  <2> HIDE DEF idx, leaves
  <2>6. Len(chain) \in Nat
    BY DEF BridgeInv
  <2>7. DecentralizedWithdrawalsThrough(idx, h) = leaves /\ SourcesOnce(leaves)
    BY <2>3, <2>4, <2>5, <2>6, CutThrough
  <2> QED BY <2>4, <2>7 DEF idx, leaves, SourcesOnce
<1> QED BY <1>1, BridgeInvariant, PTL

(* Reversing a sequence. *)
LEMMA ReverseFacts ==
    ASSUME NEW S, NEW H \in Seq(S)
    PROVE  /\ Reverse(H) \in Seq(S) /\ Len(Reverse(H)) = Len(H)
           /\ \A i \in 1 .. Len(H) : Reverse(H)[i] = H[(Len(H) - i) + 1]
<1> DEFINE n == Len(H)
<1>1. n \in Nat /\ \A i \in 1 .. n : (n - i) + 1 \in 1 .. n /\ H[(n - i) + 1] \in S
  OBVIOUS
<1>2. Reverse(H) = [i \in 1 .. n |-> H[(n - i) + 1]]
  BY DEF Reverse
<1> HIDE DEF n
<1>3. [i \in 1 .. n |-> H[(n - i) + 1]] \in [1 .. n -> S]
  BY <1>1
<1>4. Reverse(H) \in [1 .. n -> S]
  BY <1>2, <1>3
<1>5. Reverse(H) \in Seq(S) /\ Len(Reverse(H)) = n
  <2> DEFINE R == Reverse(H)
  <2> HIDE DEF R
  <2>1. R \in [1 .. n -> S]
    BY <1>4 DEF R
  <2>2. R \in Seq(S) /\ Len(R) = n
    BY <1>1, <2>1
  <2> QED BY <2>2 DEF R
<1> QED BY <1>2, <1>5 DEF n

(* The deltas a tracker retains are the last ones of a full history. *)
LEMMA HistorySuffix ==
    ASSUME NEW h \in Nat, NEW r, NEW c, NEW H, IsHistory(H, r, c, h),
           NEW G, IsHistory(G, r, c, h), IsFull(G, h)
    PROVE  IsSuffix(H, G)
<1> DEFINE n == Len(H)
           m == Len(G)
           A == Reverse(H)
           B == Reverse(G)
           D(i) == Delta(r, c, (h - i) + 1)
<1>0. PICK S, T : H \in Seq(S) /\ G \in Seq(T)
  BY DEF IsHistory, IsSeq
<1>1. /\ n \in Nat /\ n <= UndoBlocks /\ (n = 0 \/ Activation + n <= h + 1)
      /\ \A i \in 1 .. n : H[i] = Delta(r, c, (h - n) + i)
      /\ m \in Nat /\ m <= UndoBlocks
      /\ \A i \in 1 .. m : G[i] = Delta(r, c, (h - m) + i)
      /\ h >= Activation => m = UndoBlocks \/ Activation + m = h + 1
      /\ Activation \in Nat \ {0} /\ UndoBlocks \in Nat \ {0}
  BY <1>0, BridgeAssumption DEF IsHistory, IsFull
<1>2. /\ A \in Seq(S) /\ Len(A) = n /\ \A i \in 1 .. n : A[i] = H[(n - i) + 1]
      /\ B \in Seq(T) /\ Len(B) = m /\ \A i \in 1 .. m : B[i] = G[(m - i) + 1]
  BY <1>0, ReverseFacts
<1> HIDE DEF n, m, A, B
<1>3. n <= m
  BY <1>1
<1>4. \A i \in 1 .. n : A[i] = D(i) /\ B[i] = D(i)
  <2> TAKE i \in 1 .. n
  <2>1. /\ (n - i) + 1 \in 1 .. n /\ (h - n) + ((n - i) + 1) = (h - i) + 1
        /\ (m - i) + 1 \in 1 .. m /\ (h - m) + ((m - i) + 1) = (h - i) + 1
        /\ i \in 1 .. m
    BY <1>1, <1>3
  <2>2. A[i] = H[(n - i) + 1] /\ B[i] = G[(m - i) + 1]
    BY <1>2, <2>1
  <2> DEFINE p == (n - i) + 1
             q == (m - i) + 1
  <2>3. p \in 1 .. n /\ q \in 1 .. m
    BY <2>1
  <2> HIDE DEF p, q
  <2>4. H[p] = Delta(r, c, (h - n) + p) /\ G[q] = Delta(r, c, (h - m) + q)
    BY <1>1, <2>3
  <2> QED BY <2>1, <2>2, <2>4 DEF p, q
<1> HIDE DEF D
<1> DEFINE X == SubSeq(A, 1, n)
           Y == SubSeq(B, 1, n)
<1>5. /\ X \in Seq(S) /\ Len(X) = n /\ \A i \in 1 .. n : X[i] = A[i]
      /\ Y \in Seq(T) /\ Len(Y) = n /\ \A i \in 1 .. n : Y[i] = B[i]
  BY <1>1, <1>2, <1>3
<1> HIDE DEF X, Y
<1>6. X = Y
  <2>1. X \in Seq(S \union T) /\ Y \in Seq(S \union T)
    BY <1>5
  <2>2. \A i \in 1 .. n : X[i] = Y[i]
    BY <1>4, <1>5
  <2> QED BY <1>5, <2>1, <2>2
<1> QED BY <1>2, <1>3, <1>6 DEF IsSuffix, IsPrefix, A, B, X, Y

(* What a node rebuilds from the chain alone. *)
LEMMA RebuiltIndex ==
    ASSUME NEW c \in Seq(Blocks), NEW r, Replays(r, c), Fits(r, c, Len(c) - 1)
    PROVE  Rebuilt(c) = IF Fits(r, c, Len(c)) THEN {r[Len(c)]} ELSE {}
<1>0. Len(c) \in Nat /\ Len(c) \in 0 .. Len(c) /\ Activation \in Nat \ {0}
  BY BridgeAssumption
<1>1. CASE Len(c) < Activation
  <2>1. HeightOK(r, c, Len(c)) /\ Activation .. Len(c) = {}
    BY <1>0, <1>1 DEF Replays
  <2>2. r[Len(c)] = EmptyIndex /\ Fits(r, c, Len(c))
    BY <1>1, <2>1 DEF HeightOK, Fits
  <2> QED BY <1>1, <2>2 DEF Rebuilt
<1>2. CASE ~(Len(c) < Activation)
  <2>1. Len(c) + 1 >= Activation
    BY <1>0, <1>2
  <2> QED BY <1>2, <2>1, ReplayedIndex DEF Rebuilt
<1> QED BY <1>1, <1>2

(* A tracker in step holds exactly what replaying the active chain yields, with
   the last deltas of the replay; and the replay refuses at most the tip, for its
   light-client advance: BlockConnected, BlockDisconnected and Sync. *)
THEOREM MatchesReplay == Spec => []IncrementalMatchesReplay
<1>1. BridgeInv => IncrementalMatchesReplay
  <2> SUFFICES ASSUME BridgeInv PROVE IncrementalMatchesReplay
    OBVIOUS
  <2> DEFINE N == Len(chain)
             idx == tracker.index
  <2>1. chain \in Seq(Blocks) /\ N \in Nat /\ Activation \in Nat \ {0}
    BY BridgeAssumption DEF BridgeInv
  <2>2. PICK r : /\ Replays(r, chain) /\ Fits(r, chain, N - 1) /\ TrackerOK(tracker, r, chain)
                 /\ HeightOK(r, chain, N) /\ IndexOK(r[N], chain)
    BY TipOK
  <2>3. Rebuilt(chain) = IF Fits(r, chain, N) THEN {r[N]} ELSE {}
    BY <2>1, <2>2, RebuiltIndex
  <2>4. ~tracker.dirty =>
            /\ tracker.synced = chain
            /\ [idx EXCEPT !.history = << >>] = [r[N] EXCEPT !.history = << >>]
            /\ IsSuffix(idx.history, r[N].history)
    <3> SUFFICES ASSUME ~tracker.dirty
                 PROVE  /\ tracker.synced = chain
                        /\ [idx EXCEPT !.history = << >>] = [r[N] EXCEPT !.history = << >>]
                        /\ IsSuffix(idx.history, r[N].history)
      OBVIOUS
    <3> DEFINE P == r[N]
    <3>1. /\ tracker.synced = chain /\ IsIndex(idx) /\ SameState(idx, P)
          /\ IsHistory(idx.history, r, chain, N)
      BY <2>2 DEF TrackerOK
    <3>2. IsIndex(P) /\ IsHistory(P.history, r, chain, N) /\ IsFull(P.history, N)
      BY <2>2 DEF HeightOK, IndexOK
    <3> HIDE DEF P, idx, N
    <3>3. IsSuffix(idx.history, P.history)
      BY <2>1, <3>1, <3>2, HistorySuffix
    <3>4. [idx EXCEPT !.history = << >>] = [P EXCEPT !.history = << >>]
      <4> DEFINE X == [idx EXCEPT !.history = << >>]
                 Y == [P EXCEPT !.history = << >>]
      <4>1. /\ X = [k \in DOMAIN idx |-> IF k = "history" THEN << >> ELSE idx[k]]
            /\ Y = [k \in DOMAIN P |-> IF k = "history" THEN << >> ELSE P[k]]
        OBVIOUS
      <4>2. DOMAIN idx = DOMAIN P
        BY <3>1, <3>2 DEF IsIndex
      <4>3. \A k \in DOMAIN P : k # "history" => idx[k] = P[k]
        BY <3>1, <3>2 DEF IsIndex, SameState
      <4> HIDE DEF X, Y
      <4>4. X = Y
        BY <4>1, <4>2, <4>3
      <4> QED BY <4>4 DEF X, Y
    <3> QED BY <3>1, <3>3, <3>4 DEF P
  <2>5. ~tracker.dirty => Fits(r, chain, N)
    BY <2>2 DEF TrackerOK
  <2>6. ~Fits(r, chain, N) => \E parent \in Rebuilt(Front(chain)) :
                                  ~AdvanceReachable(VerifyBlock(parent, chain))
    <3> SUFFICES ASSUME ~Fits(r, chain, N)
                 PROVE  \E parent \in Rebuilt(Front(chain)) :
                            ~AdvanceReachable(VerifyBlock(parent, chain))
      OBVIOUS
    <3> DEFINE a == Front(chain)
    <3>1. PICK g \in Activation .. N : ~AdvanceReachable(Delta(r, chain, g))
      BY DEF Fits
    <3>2. g = N /\ N \in Nat \ {0}
      <4>1. g # N => g \in Activation .. N - 1
        BY <2>1
      <4> QED BY <2>1, <2>2, <3>1, <4>1 DEF Fits
    <3>3. /\ a \in Seq(Blocks) /\ Len(a) = N - 1 /\ a = Hash(chain, N - 1)
          /\ \A h \in 0 .. N - 1 : Hash(a, h) = Hash(chain, h)
          /\ N - 1 \in 0 .. N /\ N \in 0 .. N /\ N - 1 \in Int
      <4>1. chain # << >> /\ chain \in Seq(Blocks)
        BY <2>1, <3>2
      <4>2. /\ a \in Seq(Blocks) /\ Len(a) = N - 1 /\ a = Hash(chain, N - 1)
            /\ \A h \in 0 .. N - 1 : Hash(a, h) = Hash(chain, h)
        BY <4>1, HashOfFront
      <4>3. N - 1 \in 0 .. N /\ N \in 0 .. N /\ N - 1 \in Int
        BY <3>2
      <4> QED BY <4>2, <4>3
    <3>4. Replays(r, a)
      BY <2>1, <2>2, <3>3, ReplaysPrefix
    <3>5. Fits(r, a, N - 1)
      <4>1. \A h \in 0 .. N - 1 : r[h] = r[h] /\ Hash(a, h) = Hash(chain, h)
        BY <3>3
      <4> HIDE DEF a, N
      <4> QED BY <2>2, <3>3, <4>1, FitsLocal
    <3>6. Fits(r, a, Len(a)) /\ Fits(r, a, Len(a) - 1)
      <4>1. \A h \in Activation .. (N - 1) - 1 : h \in Activation .. N - 1
        BY <2>1
      <4> HIDE DEF a, N
      <4> QED BY <3>3, <3>5, <4>1 DEF Fits
    <3> HIDE DEF a
    <3>7. Rebuilt(a) = {r[N - 1]}
      BY <3>3, <3>4, <3>6, RebuiltIndex
    <3>8. Delta(r, chain, N) = VerifyBlock(r[N - 1], chain)
      <4>1. Hash(chain, N) = chain
        BY <2>1, <3>3, HashFacts
      <4> QED BY <4>1 DEF Delta
    <3> QED BY <3>1, <3>2, <3>7, <3>8 DEF a
  <2>7. IncrementalMatchesReplay <=>
            /\ ~tracker.dirty =>
                   /\ tracker.synced = chain /\ Rebuilt(chain) # {}
                   /\ \A i \in Rebuilt(chain) :
                          /\ [idx EXCEPT !.history = << >>] = [i EXCEPT !.history = << >>]
                          /\ IsSuffix(idx.history, i.history)
            /\ Rebuilt(chain) = {} =>
                   \E parent \in Rebuilt(Front(chain)) :
                       ~AdvanceReachable(VerifyBlock(parent, chain))
    BY DEF IncrementalMatchesReplay
  <2> HIDE DEF idx, N
  <2> QED BY <2>3, <2>4, <2>5, <2>6, <2>7
<1> QED BY <1>1, BridgeInvariant, PTL

-----------------------------------------------------------------------------
(* The light-client snapshot of a finalized height.                        *)

Eligible(client, at, f) == {[store |-> s, at |-> at] : s \in {s \in client : Len(at) <= f}}

Side(d, f) ==
    IF Eligible(d.client_after, d.connection_after, f) # {}
    THEN Eligible(d.client_after, d.connection_after, f)
    ELSE Eligible(d.client_before, d.connection_before, f)

Usable(H, f) == {i \in DOMAIN H : H[i].light_client_changed /\ Side(H[i], f) # {}}

\* A store the chain had at a height up to f.
IsSnapshot(s, r, c, f) ==
    /\ Len(s.at) \in Activation .. f /\ s.at = Hash(c, Len(s.at))
    /\ r[Len(s.at)].client = {s.store}

(* The order in which the code looks for a snapshot. *)
LEMMA SnapshotOrder ==
    ASSUME NEW idx, NEW f
    PROVE  LET current == Eligible(idx.client, idx.connection, f)
               usable == Usable(idx.history, f)
           IN  FinalizedLightClientSnapshot(idx, f) =
                   IF current # {} THEN current
                   ELSE IF usable # {}
                        THEN Side(idx.history[CHOOSE i \in usable : \A j \in usable : j <= i], f)
                        ELSE {s \in idx.floor : Len(s.at) <= f}
BY DEF FinalizedLightClientSnapshot, Eligible, Side, Usable

(* A block's hash is its parent's with the block at the end. *)
LEMMA HashStep ==
    ASSUME NEW X, NEW c \in Seq(X), NEW h \in 1 .. Len(c)
    PROVE  /\ Hash(c, h) = Append(Hash(c, h - 1), c[h]) /\ c[h] \in X
           /\ Hash(c, h - 1) \in Seq(X) /\ Len(Hash(c, h - 1)) = h - 1
<1> DEFINE p == Hash(c, h - 1)
           q == Hash(c, h)
           e == Append(p, c[h])
<1>0. h - 1 \in 0 .. Len(c) /\ h \in 0 .. Len(c) /\ c[h] \in X /\ h \in Nat
  OBVIOUS
<1>1. /\ p \in Seq(X) /\ Len(p) = h - 1 /\ \A g \in 1 .. h - 1 : p[g] = c[g]
      /\ q \in Seq(X) /\ Len(q) = h /\ \A g \in 1 .. h : q[g] = c[g]
  BY <1>0, HashFacts
<1> HIDE DEF p, q
<1>2. /\ e \in Seq(X) /\ Len(e) = h /\ e[h] = c[h] /\ \A g \in 1 .. h - 1 : e[g] = p[g]
  BY <1>0, <1>1
<1> HIDE DEF e
<1>3. \A g \in 1 .. h : e[g] = q[g]
  <2> TAKE g \in 1 .. h
  <2>1. g = h \/ g \in 1 .. h - 1
    BY <1>0
  <2> QED BY <1>1, <1>2, <2>1
<1>4. q = e
  BY <1>1, <1>2, <1>3
<1> QED BY <1>0, <1>1, <1>4 DEF p, q, e

(* What the block at a height did to the store. *)
LEMMA DeltaLight ==
    ASSUME NEW c \in Seq(Blocks), NEW r, Replays(r, c), NEW h \in Activation .. Len(c)
    PROVE  LightStep(r[h - 1], r[h], Delta(r, c, h), Hash(c, h))
<1> DEFINE p == Hash(c, h - 1)
           q == Hash(c, h)
           P == r[h - 1]
           d == Delta(r, c, h)
           Q == r[h]
<1>0. h \in 1 .. Len(c) /\ h \in 0 .. Len(c) /\ h - 1 \in 0 .. Len(c) /\ h \in Nat /\ h >= Activation
  BY BridgeAssumption
<1>1. q = Append(p, c[h]) /\ c[h] \in Blocks /\ p \in Seq(Blocks) /\ Len(p) = h - 1
  BY <1>0, HashStep
<1>2. HeightOK(r, c, h) /\ HeightOK(r, c, h - 1)
  BY <1>0 DEF Replays
<1>3. IndexOK(P, p) /\ d.ok /\ Q = ConnectBlock(P, d) /\ d = VerifyBlock(P, q)
  BY <1>0, <1>2 DEF HeightOK, Delta
<1>4. Len(p) + 1 >= Activation
  BY <1>0, <1>1
<1> HIDE DEF p, q, P, d, Q
<1>5. LightStep(P, Q, d, q)
  BY <1>1, <1>3, <1>4, LightFields
<1> QED BY <1>5 DEF P, Q, d, q

(* The store of a height, offered for height f. *)
LEMMA EligibleFacts ==
    ASSUME NEW c \in Seq(Blocks), NEW r, Replays(r, c), NEW h \in 0 .. Len(c), NEW f \in Nat
    PROVE  LET E == Eligible(r[h].client, r[h].connection, f)
           IN  /\ E # {} <=> r[h].client # {} /\ Len(r[h].connection) <= f
               /\ \A s \in E : s.at = r[h].connection /\ IsSnapshot(s, r, c, f)
<1> DEFINE C == r[h].client
           k == r[h].connection
           E == Eligible(C, k, f)
<1>1. HeightOK(r, c, h)
  BY DEF Replays
<1>2. C # {} => Len(k) \in Activation .. h /\ k = Hash(c, Len(k)) /\ r[Len(k)].client = C
  BY <1>1 DEF HeightOK, ConnectionOK
<1>3. C = {} \/ \E store : C = {store}
  BY <1>1 DEF HeightOK, IndexOK, LightOK
<1>4. h \in Nat /\ Activation \in Nat
  BY BridgeAssumption
<1> HIDE DEF C, k
<1>5. E # {} <=> C # {} /\ Len(k) <= f
  BY DEF Eligible
<1>6. ASSUME NEW s \in E PROVE s.at = k /\ IsSnapshot(s, r, c, f)
  <2>1. PICK x \in C : s = [store |-> x, at |-> k] /\ Len(k) <= f
    BY <1>6 DEF Eligible
  <2>2. s.at = k /\ s.store = x
    BY <2>1
  <2>3. C = {x}
    BY <1>3, <2>1
  <2>4. Len(k) \in Activation .. f
    BY <1>2, <1>4, <2>1, <2>3
  <2> QED BY <1>2, <2>2, <2>3, <2>4 DEF IsSnapshot
<1> HIDE DEF E
<1>7. E # {} <=> C # {} /\ Len(k) <= f
  BY <1>5
<1>8. \A s \in E : s.at = k /\ IsSnapshot(s, r, c, f)
  BY <1>6
<1> QED BY <1>7, <1>8 DEF E, C, k

(* A chain that has bootstrapped stays so, and a store reaches back to the block
   that set it. *)
LEMMA StoresStay ==
    ASSUME NEW c, NEW r, Replays(r, c), NEW h \in 0 .. Len(c), Len(c) \in Nat, NEW g \in 0 .. h
    PROVE  /\ r[g].client # {} => r[h].client # {}
           /\ r[h].client # {} /\ Len(r[h].connection) <= g => r[g].connection = r[h].connection
<1>1. HeightOK(r, c, h)
  BY DEF Replays
<1>2. r[g].client # {} => r[h].client # {}
  BY <1>1 DEF HeightOK, ConnectionOK
<1>3. ASSUME r[h].client # {}, Len(r[h].connection) <= g
      PROVE  r[g].connection = r[h].connection
  <2> DEFINE k == Len(r[h].connection)
  <2>1. k \in Activation .. h /\ \A e \in k .. h : r[e].connection = r[h].connection
    BY <1>1, <1>3 DEF HeightOK, ConnectionOK
  <2>2. k <= g
    BY <1>3
  <2> HIDE DEF k
  <2>3. g \in k .. h
    BY <2>1, <2>2, BridgeAssumption
  <2> QED BY <2>1, <2>3
<1> QED BY <1>2, <1>3

\* A snapshot offered for f is the store of height g.
OfHeight(s, r, c, f, g) ==
    IsSnapshot(s, r, c, f) /\ s.at = r[g].connection /\ r[g].client # {} /\ Len(r[g].connection) <= f

(* Either side of the delta of a height. *)
LEMMA SideFacts ==
    ASSUME NEW c \in Seq(Blocks), NEW r, Replays(r, c), NEW h \in Activation .. Len(c), NEW f \in Nat
    PROVE  LET S == Side(Delta(r, c, h), f)
           IN  /\ \A s \in S : OfHeight(s, r, c, f, h) \/ OfHeight(s, r, c, f, h - 1)
               /\ r[h - 1].client # {} /\ Len(r[h - 1].connection) <= f => S # {}
<1> DEFINE d == Delta(r, c, h)
           A == Eligible(r[h].client, r[h].connection, f)
           B == Eligible(r[h - 1].client, r[h - 1].connection, f)
           S == Side(d, f)
<1>0. h \in 0 .. Len(c) /\ h - 1 \in 0 .. Len(c)
  BY BridgeAssumption
<1>1. LightStep(r[h - 1], r[h], d, Hash(c, h))
  BY DeltaLight
<1> HIDE DEF d
<1>2. S = IF A # {} THEN A ELSE B
  BY <1>1 DEF LightStep, Side
<1>3. /\ A # {} <=> r[h].client # {} /\ Len(r[h].connection) <= f
      /\ \A s \in A : s.at = r[h].connection /\ IsSnapshot(s, r, c, f)
  BY <1>0, EligibleFacts
<1>4. /\ B # {} <=> r[h - 1].client # {} /\ Len(r[h - 1].connection) <= f
      /\ \A s \in B : s.at = r[h - 1].connection /\ IsSnapshot(s, r, c, f)
  BY <1>0, EligibleFacts
<1> HIDE DEF A, B, S
<1>5. \A s \in S : OfHeight(s, r, c, f, h) \/ OfHeight(s, r, c, f, h - 1)
  BY <1>2, <1>3, <1>4 DEF OfHeight
<1>6. r[h - 1].client # {} /\ Len(r[h - 1].connection) <= f => S # {}
  BY <1>2, <1>4
<1> QED BY <1>5, <1>6 DEF S, d

\* The height of the i-th of the deltas H retained at height h.
HeightOf(H, h, i) == (h - Len(H)) + i

(* Where the retained deltas lie. *)
LEMMA RetainedHeights ==
    ASSUME NEW N \in Nat, NEW r, NEW c, NEW H, IsHistory(H, r, c, N)
    PROVE  /\ DOMAIN H = 1 .. Len(H) /\ Len(H) \in Nat
           /\ \A i \in DOMAIN H : /\ HeightOf(H, N, i) \in Activation .. N
                                  /\ H[i] = Delta(r, c, HeightOf(H, N, i))
<1>1. PICK S : H \in Seq(S)
  BY DEF IsHistory, IsSeq
<1>2. DOMAIN H = 1 .. Len(H) /\ Len(H) \in Nat
  BY <1>1
<1>3. ASSUME NEW i \in 1 .. Len(H) PROVE HeightOf(H, N, i) \in Activation .. N
  <2>1. Activation + Len(H) <= N + 1
    BY <1>2, <1>3 DEF IsHistory
  <2> QED BY <1>2, <2>1, BridgeAssumption DEF HeightOf
<1>4. \A i \in 1 .. Len(H) : H[i] = Delta(r, c, HeightOf(H, N, i))
  BY DEF IsHistory, HeightOf
<1> QED BY <1>2, <1>3, <1>4

\* An index of the active chain with the deltas it retains.
InStep(I, r, c) == SameState(I, r[Len(c)]) /\ IsHistory(I.history, r, c, Len(c))

(* The newest usable delta. *)
LEMMA NewestUsable ==
    ASSUME NEW H, NEW n \in Nat, DOMAIN H = 1 .. n, NEW f, Usable(H, f) # {}
    PROVE  LET u == Usable(H, f)
               i == CHOOSE i \in u : \A j \in u : j <= i
           IN  i \in u /\ \A j \in u : j <= i
<1> DEFINE u == Usable(H, f)
<1>1. u \subseteq 0 .. n /\ u # {}
  <2>1. u # {}
    OBVIOUS
  <2>2. u \subseteq DOMAIN H
    BY DEF Usable
  <2> HIDE DEF u
  <2> QED BY <2>1, <2>2
<1> HIDE DEF u
<1>2. \E i \in u : \A j \in u : j <= i
  BY <1>1, GreatestExists
<1> DEFINE i == CHOOSE i \in u : \A j \in u : j <= i
<1>3. i \in u /\ \A j \in u : j <= i
  BY <1>2
<1> QED BY <1>3 DEF u

(* What is offered for a height is a store the chain had by then, and there is
   one as soon as the chain had bootstrapped. *)
LEMMA SnapshotValid ==
    ASSUME NEW c \in Seq(Blocks), NEW r, Replays(r, c), NEW I, InStep(I, r, c),
           NEW f \in Activation .. Len(c)
    PROVE  LET offered == FinalizedLightClientSnapshot(I, f)
           IN  /\ \A s \in offered : IsSnapshot(s, r, c, f)
               /\ r[f].client # {} => offered # {}
<1> DEFINE N == Len(c)
           H == I.history
           cur == Eligible(I.client, I.connection, f)
           u == Usable(H, f)
           i == CHOOSE i \in u : \A j \in u : j <= i
           side == Side(H[i], f)
           fls == {s \in I.floor : Len(s.at) <= f}
           offered == FinalizedLightClientSnapshot(I, f)
<1>0. N \in Nat /\ N \in 0 .. N /\ f \in Nat /\ f \in 0 .. N /\ Activation \in Nat \ {0}
  BY BridgeAssumption
<1>1. offered = IF cur # {} THEN cur ELSE IF u # {} THEN side ELSE fls
  BY SnapshotOrder
<1>2. SameState(I, r[N]) /\ IsHistory(H, r, c, N)
  BY DEF InStep
<1>3. \A s \in cur : IsSnapshot(s, r, c, f)
  <2>1. cur = Eligible(r[N].client, r[N].connection, f)
    BY <1>2 DEF SameState
  <2> HIDE DEF cur
  <2>2. LET E == Eligible(r[N].client, r[N].connection, f)
        IN  \A s \in E : s.at = r[N].connection /\ IsSnapshot(s, r, c, f)
    BY <1>0, EligibleFacts
  <2> QED BY <2>1, <2>2
<1>4. /\ DOMAIN H = 1 .. Len(H) /\ Len(H) \in Nat
      /\ \A j \in DOMAIN H : /\ HeightOf(H, N, j) \in Activation .. N
                             /\ H[j] = Delta(r, c, HeightOf(H, N, j))
  BY <1>0, <1>2, RetainedHeights
<1>5. u # {} => i \in u
  <2> HIDE DEF H
  <2> QED BY <1>4, NewestUsable
<1>6. u # {} => side # {} /\ \A s \in side : IsSnapshot(s, r, c, f)
  <2> SUFFICES ASSUME u # {} PROVE side # {} /\ \A s \in side : IsSnapshot(s, r, c, f)
    OBVIOUS
  <2> HIDE DEF i
  <2>1. i \in DOMAIN H /\ side # {}
    BY <1>5 DEF Usable
  <2> DEFINE g == HeightOf(H, N, i)
  <2>2. g \in Activation .. N /\ H[i] = Delta(r, c, g)
    BY <1>4, <2>1
  <2> HIDE DEF g, H
  <2>3. \A s \in Side(Delta(r, c, g), f) : OfHeight(s, r, c, f, g) \/ OfHeight(s, r, c, f, g - 1)
    BY <1>0, <2>2, SideFacts
  <2>4. \A s \in side : OfHeight(s, r, c, f, g) \/ OfHeight(s, r, c, f, g - 1)
    BY <2>2, <2>3
  <2> QED BY <2>1, <2>4 DEF OfHeight
<1>7. /\ \A s \in fls : IsSnapshot(s, r, c, f)
      /\ r[f].client # {} => fls # {}
  <2>1. I.floor = r[N].floor /\ HeightOK(r, c, N)
    BY <1>0, <1>2 DEF SameState, Replays
  <2>2. CASE r[N].client = {}
    <3>1. I.floor = {} /\ r[f].client = {}
      BY <1>0, <2>1, <2>2 DEF HeightOK, ConnectionOK
    <3> QED BY <3>1
  <2>3. CASE r[N].client # {}
    <3>1. PICK fl : I.floor = {fl} /\ FloorOK(fl, r, c, N)
      BY <2>1, <2>3 DEF HeightOK, ConnectionOK
    <3>2. /\ Len(fl.at) \in Activation .. N /\ fl.at = Hash(c, Len(fl.at))
          /\ r[Len(fl.at)].client = {fl.store}
          /\ \A g \in 0 .. N : g < Len(fl.at) => r[g].client = {}
      BY <3>1 DEF FloorOK
    <3>3. Len(fl.at) <= f => IsSnapshot(fl, r, c, f)
      BY <1>0, <3>2 DEF IsSnapshot
    <3>4. r[f].client # {} => Len(fl.at) <= f
      BY <1>0, <3>2
    <3> QED BY <3>1, <3>3, <3>4
  <2> QED BY <2>2, <2>3
<1> HIDE DEF cur, u, side, fls, offered
<1>8. \A s \in offered : IsSnapshot(s, r, c, f)
  BY <1>1, <1>3, <1>6, <1>7
<1>9. r[f].client # {} => offered # {}
  BY <1>1, <1>6, <1>7
<1> QED BY <1>8, <1>9 DEF offered

(* While the height is within the retained deltas, what is offered for it is the
   newest store the chain had by then. *)
LEMMA SnapshotExact ==
    ASSUME NEW c \in Seq(Blocks), NEW r, Replays(r, c), NEW I, InStep(I, r, c),
           NEW f \in Activation .. Len(c), f + Len(I.history) >= Len(c),
           NEW s \in FinalizedLightClientSnapshot(I, f)
    PROVE  s.at = r[f].connection
<1> DEFINE N == Len(c)
           H == I.history
           n == Len(H)
           cur == Eligible(I.client, I.connection, f)
           u == Usable(H, f)
           i == CHOOSE i \in u : \A j \in u : j <= i
           k == Len(r[N].connection)
<1>0. N \in Nat /\ N \in 0 .. N /\ f \in Nat /\ f \in 0 .. N /\ Activation \in Nat \ {0}
  BY BridgeAssumption
<1>1. FinalizedLightClientSnapshot(I, f)
          = IF cur # {} THEN cur ELSE IF u # {} THEN Side(H[i], f)
            ELSE {x \in I.floor : Len(x.at) <= f}
  BY SnapshotOrder
<1>2. SameState(I, r[N]) /\ IsHistory(H, r, c, N)
  BY DEF InStep
<1>3. IsSnapshot(s, r, c, f)
  BY SnapshotValid
<1>4. r[f].client # {} /\ r[N].client # {}
  <2>1. Len(s.at) \in 0 .. f /\ r[Len(s.at)].client # {}
    BY <1>0, <1>3 DEF IsSnapshot
  <2>2. r[f].client # {}
    BY <1>0, <2>1, StoresStay, SMTT(30)
  <2> QED BY <1>0, <2>2, StoresStay, SMTT(30)
<1>5. /\ cur # {} <=> r[N].client # {} /\ k <= f
      /\ \A x \in cur : x.at = r[N].connection
  <2>1. cur = Eligible(r[N].client, r[N].connection, f)
    BY <1>2 DEF SameState
  <2> HIDE DEF cur
  <2>2. LET E == Eligible(r[N].client, r[N].connection, f)
        IN  /\ E # {} <=> r[N].client # {} /\ k <= f
            /\ \A x \in E : x.at = r[N].connection
    <3> HIDE DEF N
    <3> QED BY <1>0, EligibleFacts, SMTT(30) DEF N
  <2> QED BY <2>1, <2>2
<1>6. /\ DOMAIN H = 1 .. n /\ n \in Nat
      /\ \A j \in DOMAIN H : /\ HeightOf(H, N, j) \in Activation .. N
                             /\ H[j] = Delta(r, c, HeightOf(H, N, j))
  BY <1>0, <1>2, RetainedHeights
<1>7. CASE cur # {}
  <2>1. s.at = r[N].connection /\ k <= f
    BY <1>1, <1>5, <1>7
  <2> HIDE DEF cur
  <2>2. r[f].connection = r[N].connection
    BY <1>0, <1>4, <2>1, StoresStay
  <2> QED BY <2>1, <2>2
<1>8. CASE cur = {}
  <2> DEFINE Later == {g \in 0 .. N : g >= f /\ Len(r[g].connection) > f}
  <2>0. \A g \in 0 .. N : g >= f => /\ r[g].client # {}
                                    /\ Len(r[g].connection) \in Activation .. g
    <3> TAKE g \in 0 .. N
    <3> SUFFICES ASSUME g >= f
                 PROVE  r[g].client # {} /\ Len(r[g].connection) \in Activation .. g
      OBVIOUS
    <3>1. f \in 0 .. g
      BY <1>0
    <3>2. r[g].client # {}
      BY <1>0, <1>4, <3>1, StoresStay
    <3>3. HeightOK(r, c, g)
      BY DEF Replays
    <3> QED BY <3>2, <3>3 DEF HeightOK, ConnectionOK
  <2>1. N \in Later
    <3>1. k \in Activation .. N /\ ~(k <= f)
      BY <1>0, <1>4, <1>5, <1>8, <2>0
    <3> QED BY <1>0, <3>1
  <2>2. PICK j \in Later : \A g \in Later : j <= g
    <3>1. Later \subseteq Nat /\ Later # {}
      BY <2>1
    <3> HIDE DEF Later
    <3> QED BY <3>1, LeastExists
  <2>3. /\ j \in 0 .. N /\ j > f /\ j - 1 \in 0 .. N /\ j - 1 >= f /\ j \in Activation .. N
        /\ Len(r[j].connection) > f
    <3>1. j \in 0 .. N /\ j >= f /\ Len(r[j].connection) > f
      OBVIOUS
    <3>2. Len(r[f].connection) \in Activation .. f
      BY <1>0, <2>0
    <3>3. j # f
      BY <1>0, <3>1, <3>2
    <3> QED BY <1>0, <3>1, <3>3
  <2>4. Len(r[j - 1].connection) <= f /\ r[j - 1].client # {}
    <3>1. j - 1 \notin Later
      BY <1>0, <2>2, <2>3
    <3>2. Len(r[j - 1].connection) \in Activation .. j - 1 /\ r[j - 1].client # {}
      BY <2>0, <2>3
    <3> QED BY <1>0, <2>3, <3>1, <3>2
  <2> HIDE DEF Later
  <2> DEFINE m == j - (N - n)
  <2>5. m \in DOMAIN H /\ HeightOf(H, N, m) = j
    <3>1. f + n >= N
      OBVIOUS
    <3> HIDE DEF n
    <3>2. m \in 1 .. n /\ (N - n) + m = j
      BY <1>0, <1>6, <2>3, <3>1
    <3> QED BY <1>6, <3>2 DEF HeightOf, n
  <2>6. m \in u
    <3>1. LightStep(r[j - 1], r[j], Delta(r, c, j), Hash(c, j))
      BY <2>3, DeltaLight
    <3>2. r[j].client # r[j - 1].client
      <4>1. r[j].connection # r[j - 1].connection
        <5>1. Len(r[j].connection) \in Activation .. j /\ Len(r[j - 1].connection) \in Activation .. j - 1
          BY <2>0, <2>3
        <5> QED BY <1>0, <2>3, <2>4, <5>1
      <4> QED BY <3>1, <4>1 DEF LightStep
    <3>3. H[m] = Delta(r, c, j)
      BY <1>6, <2>5
    <3>4. Side(Delta(r, c, j), f) # {}
      BY <1>0, <2>3, <2>4, SideFacts
    <3>5. H[m].light_client_changed
      BY <3>1, <3>2, <3>3 DEF LightStep
    <3> QED BY <2>5, <3>3, <3>4, <3>5 DEF Usable
  <2>7. i \in u /\ \A x \in u : x <= i
    <3> HIDE DEF H, n
    <3>1. u # {}
      BY <2>6
    <3> QED BY <1>6, <3>1, NewestUsable
  <2> HIDE DEF i
  <2>8. m <= i /\ i \in DOMAIN H
    BY <2>6, <2>7 DEF Usable
  <2> DEFINE g == HeightOf(H, N, i)
  <2>9. g \in Activation .. N /\ g >= j /\ H[i] = Delta(r, c, g)
    <3>1. g \in Activation .. N /\ H[i] = Delta(r, c, g)
      BY <1>6, <2>8
    <3>2. i \in 1 .. n
      BY <1>6, <2>8
    <3> HIDE DEF n
    <3>3. (N - n) + i >= j
      BY <1>0, <1>6, <2>3, <2>8, <3>2
    <3> QED BY <3>1, <3>3 DEF HeightOf, n
  <2>10. s \in Side(H[i], f)
    BY <1>1, <1>8, <2>7
  <2> HIDE DEF g, H, u, cur
  <2>11. s \in Side(Delta(r, c, g), f)
    BY <2>9, <2>10
  <2>12. OfHeight(s, r, c, f, g) \/ OfHeight(s, r, c, f, g - 1)
    BY <1>0, <2>9, <2>11, SideFacts
  <2>13. g \in 0 .. N /\ g - 1 \in 0 .. N /\ f \in 0 .. g /\ f \in 0 .. g - 1
    BY <1>0, <2>3, <2>9
  <2>14. CASE OfHeight(s, r, c, f, g)
    <3>1. r[f].connection = r[g].connection
      BY <1>0, <2>13, <2>14, StoresStay DEF OfHeight
    <3> QED BY <2>14, <3>1 DEF OfHeight
  <2>15. CASE OfHeight(s, r, c, f, g - 1)
    <3> DEFINE e == g - 1
    <3>1. e \in 0 .. N /\ f \in 0 .. e /\ OfHeight(s, r, c, f, e)
      BY <2>13, <2>15
    <3> HIDE DEF e
    <3>2. r[f].connection = r[e].connection
      BY <1>0, <3>1, StoresStay DEF OfHeight
    <3> QED BY <3>1, <3>2 DEF OfHeight
  <2> QED BY <2>12, <2>14, <2>15
<1> QED BY <1>7, <1>8

(* The snapshot offered for a finalized height is one the active chain had by
   then: FinalizedLightClientSnapshot over the retained deltas and the floor. *)
THEOREM SnapshotsFinalized == Spec => []SnapshotOfFinalizedChain
<1>1. BridgeInv => SnapshotOfFinalizedChain
  <2> SUFFICES ASSUME BridgeInv PROVE SnapshotOfFinalizedChain
    OBVIOUS
  <2> DEFINE N == Len(chain)
             I == tracker.index
             At(h) == CHOOSE i \in Replay(EmptyIndex, Hash(chain, h), Activation - 1) : TRUE
             offered(f) == FinalizedLightClientSnapshot(I, f)
  <2>0. chain \in Seq(Blocks) /\ N \in Nat /\ Activation \in Nat \ {0}
    BY BridgeAssumption DEF BridgeInv
  <2>1. PICK r : Replays(r, chain) /\ TrackerOK(tracker, r, chain)
    BY DEF BridgeInv
  <2>2. ASSUME NEW h \in Activation .. N, ~tracker.dirty PROVE At(h) = r[h]
    <3> DEFINE c == Hash(chain, h)
    <3>0. h \in 0 .. N
      BY <2>0
    <3>1. c \in Seq(Blocks) /\ Len(c) = h /\ h + 1 >= Activation
      BY <2>0, <3>0, HashFacts
    <3>2. Replays(r, c)
      BY <2>0, <2>1, <3>0, ReplaysPrefix
    <3>5. \A g \in 0 .. h : r[g] = r[g] /\ Hash(c, g) = Hash(chain, g)
      BY <2>0, <3>0, HashFacts
    <3> HIDE DEF c
    <3>6. Fits(r, c, h) /\ Fits(r, c, h - 1)
      <4>1. Fits(r, chain, N)
        BY <2>1, <2>2 DEF TrackerOK
      <4>2. /\ \A g \in Activation .. h : g \in Activation .. N
            /\ \A g \in Activation .. h - 1 : g \in Activation .. h
        BY <2>0
      <4>3. Fits(r, chain, h)
        BY <4>1, <4>2 DEF Fits
      <4>4. Fits(r, c, h)
        BY <2>0, <3>5, <4>3, FitsLocal
      <4> QED BY <4>2, <4>4 DEF Fits
    <3>3. Replay(EmptyIndex, c, Activation - 1) = {r[h]}
      BY <3>1, <3>2, <3>6, ReplayedIndex
    <3>4. (CHOOSE i \in {r[h]} : TRUE) = r[h]
      OBVIOUS
    <3> QED BY <3>3, <3>4 DEF c
  <2>3. ASSUME NEW f \in Activation .. N, ~tracker.dirty
        PROVE  /\ offered(f) = {} <=> At(f).client = {}
               /\ \A s \in offered(f) :
                      /\ IsPrefix(s.at, chain) /\ Len(s.at) <= f
                      /\ {s.store} = At(Len(s.at)).client
                      /\ f + Len(I.history) >= N => s.at = At(f).connection
    <3> HIDE DEF At
    <3>1. InStep(I, r, chain)
      BY <2>1, <2>3 DEF TrackerOK, InStep
    <3>0. f \in Nat /\ f \in 0 .. N
      BY <2>0
    <3> HIDE DEF I
    <3>2. /\ \A s \in offered(f) : IsSnapshot(s, r, chain, f)
          /\ r[f].client # {} => offered(f) # {}
      BY <2>0, <2>1, <3>1, SnapshotValid
    <3> HIDE DEF offered
    <3>3. ASSUME NEW s \in offered(f)
          PROVE  /\ IsPrefix(s.at, chain) /\ Len(s.at) <= f /\ r[f].client # {}
                 /\ {s.store} = At(Len(s.at)).client
      <4>1. /\ Len(s.at) \in Activation .. f /\ s.at = Hash(chain, Len(s.at))
            /\ r[Len(s.at)].client = {s.store}
        BY <3>2 DEF IsSnapshot
      <4> DEFINE k == Len(s.at)
      <4>2. k \in Activation .. N /\ k \in 0 .. f /\ k <= f /\ k \in 0 .. N /\ k \in Nat
        BY <2>0, <3>0, <4>1
      <4>3. At(k) = r[k]
        BY <2>2, <2>3, <4>2
      <4>4. r[f].client # {}
        <5>1. r[k].client # {}
          BY <4>1
        <5> HIDE DEF k
        <5> QED BY <2>0, <2>1, <3>0, <4>2, <5>1, StoresStay
      <4>5. IsPrefix(s.at, chain)
        <5>1. s.at = SubSeq(chain, 1, k)
          BY <4>1 DEF Hash
        <5>2. SubSeq(s.at, 1, k) = s.at
          <6>1. Hash(s.at, k) = s.at
            <7>1. s.at \in Seq(Blocks)
              BY <2>0, <4>1, <4>2, HashFacts
            <7>2. k \in 0 .. Len(s.at)
              BY <4>2
            <7> QED BY <7>1, <7>2, HashFacts
          <6> QED BY <6>1 DEF Hash
        <5> QED BY <2>0, <4>2, <5>1, <5>2 DEF IsPrefix
      <4> QED BY <4>1, <4>2, <4>3, <4>4, <4>5
    <3>4. ASSUME NEW s \in offered(f), f + Len(I.history) >= N PROVE s.at = At(f).connection
      <4>1. s \in FinalizedLightClientSnapshot(I, f)
        BY DEF offered
      <4>2. s.at = r[f].connection
        BY <2>0, <2>1, <3>1, <3>4, <4>1, SnapshotExact
      <4> QED BY <2>2, <2>3, <4>2
    <3>5. offered(f) = {} <=> At(f).client = {}
      <4>1. At(f) = r[f]
        BY <2>2, <2>3
      <4> QED BY <3>2, <3>3, <4>1
    <3> QED BY <3>3, <3>4, <3>5
  <2> QED BY <2>3 DEF SnapshotOfFinalizedChain
<1> QED BY <1>1, BridgeInvariant, PTL

-----------------------------------------------------------------------------
(* Assembled blocks.                                                       *)

\* Anchors that differ at most in the B3 block they came with.
SameSources(f, g) == DOMAIN f = DOMAIN g /\ \A a \in DOMAIN f : f[a].source = g[a].source

\* Scratch states that verify the same records.
Alike(s, t) ==
    /\ IsScratch(s) /\ IsScratch(t)
    /\ s.client = t.client /\ SameSources(s.anchors, t.anchors)
    /\ s.nullifiers_base = t.nullifiers_base /\ s.nullifiers_overlay = t.nullifiers_overlay
    /\ s.minted = t.minted /\ s.minted_this_block = t.minted_this_block
    /\ s.tree = t.tree /\ s.ok = t.ok

(* A failed record, a new store and a new anchor keep two states alike. *)
LEMMA AlikeChanged ==
    ASSUME NEW s, NEW t, Alike(s, t)
    PROVE  /\ Alike([s EXCEPT !.ok = FALSE], [t EXCEPT !.ok = FALSE])
           /\ \A C : Alike([s EXCEPT !.client = C], [t EXCEPT !.client = C])
BY DEF Alike, IsScratch

LEMMA AlikeAnchored ==
    ASSUME NEW s, NEW t, Alike(s, t), NEW block, NEW source, NEW at, NEW at2
    PROVE  Alike(AddAnchor(s, block, source, at), AddAnchor(t, block, source, at2))
<1>1. CASE block \in DOMAIN s.anchors
  <2>1. block \in DOMAIN t.anchors
    BY <1>1 DEF Alike, SameSources
  <2> QED BY <1>1, <2>1 DEF AddAnchor
<1>2. CASE block \notin DOMAIN s.anchors
  <2> DEFINE p == With(s.anchors, One(block, source, at))
             q == With(t.anchors, One(block, source, at2))
             u == [s EXCEPT !.anchors = p]
             v == [t EXCEPT !.anchors = q]
  <2>1. block \notin DOMAIN t.anchors
    BY <1>2 DEF Alike, SameSources
  <2>2. AddAnchor(s, block, source, at) = u /\ AddAnchor(t, block, source, at2) = v
    BY <1>2, <2>1 DEF AddAnchor, One
  <2>3. SameSources(p, q)
    <3> DEFINE x == One(block, source, at)
               y == One(block, source, at2)
    <3>1. /\ DOMAIN x = {block} /\ x[block].source = source
          /\ DOMAIN y = {block} /\ y[block].source = source
      BY DEF One
    <3> HIDE DEF x, y
    <3>2. /\ DOMAIN p = DOMAIN s.anchors \union {block} /\ p[block] = x[block]
          /\ \A a \in DOMAIN s.anchors : p[a] = s.anchors[a]
      <4>1. p = With(s.anchors, x)
        BY DEF x
      <4> DEFINE A == s.anchors
      <4>2. /\ DOMAIN With(A, x) = DOMAIN A \union DOMAIN x
            /\ \A k \in DOMAIN x : With(A, x)[k] = x[k]
            /\ \A k \in DOMAIN A : k \notin DOMAIN x => With(A, x)[k] = A[k]
        <5> HIDE DEF A
        <5>1. IsWith(With(A, x), A, x)
          BY WithIs
        <5> QED BY <5>1 DEF IsWith
      <4> HIDE DEF p
      <4> QED BY <1>2, <3>1, <4>1, <4>2
    <3>4. /\ DOMAIN q = DOMAIN t.anchors \union {block} /\ q[block] = y[block]
          /\ \A a \in DOMAIN t.anchors : q[a] = t.anchors[a]
      <4>1. q = With(t.anchors, y)
        BY DEF y
      <4> DEFINE A == t.anchors
      <4>2. /\ DOMAIN With(A, y) = DOMAIN A \union DOMAIN y
            /\ \A k \in DOMAIN y : With(A, y)[k] = y[k]
            /\ \A k \in DOMAIN A : k \notin DOMAIN y => With(A, y)[k] = A[k]
        <5> HIDE DEF A
        <5>1. IsWith(With(A, y), A, y)
          BY WithIs
        <5> QED BY <5>1 DEF IsWith
      <4> HIDE DEF q
      <4> QED BY <2>1, <3>1, <4>1, <4>2
    <3>3. SameSources(s.anchors, t.anchors)
      BY DEF Alike
    <3> HIDE DEF p, q
    <3> QED BY <3>1, <3>2, <3>3, <3>4 DEF SameSources
  <2> HIDE DEF p, q
  <2>4. Alike(u, v)
    BY <2>3 DEF Alike, IsScratch
  <2> QED BY <2>2, <2>4
<1> QED BY <1>1, <1>2

(* A record does the same to two states alike, at blocks of the same height. *)
LEMMA AlikeStep ==
    ASSUME NEW s, NEW t, Alike(s, t), NEW at, NEW at2, Len(at) = Len(at2),
           NEW r, WellFormed(r), NEW time
    PROVE  Alike(VerifyBridgeTransaction(s, r, at, time), VerifyBridgeTransaction(t, r, at2, time))
<1> DEFINE u == VerifyBridgeTransaction(s, r, at, time)
           v == VerifyBridgeTransaction(t, r, at2, time)
           sf == [s EXCEPT !.ok = FALSE]
           tf == [t EXCEPT !.ok = FALSE]
<1> SUFFICES Alike(u, v)
  OBVIOUS
<1>0. /\ s.client = t.client /\ s.ok = t.ok /\ s.ok \in BOOLEAN /\ SameSources(s.anchors, t.anchors)
      /\ s.minted = t.minted /\ s.minted_this_block = t.minted_this_block /\ s.tree = t.tree
      /\ s.nullifiers_base = t.nullifiers_base /\ s.nullifiers_overlay = t.nullifiers_overlay
  BY DEF Alike, IsScratch
<1>1. Alike(sf, tf)
  BY AlikeChanged
<1>2. CASE ~s.ok
  <2>1. u = s /\ v = t
    BY <1>0, <1>2 DEF VerifyBridgeTransaction
  <2> HIDE DEF u, v
  <2> QED BY <2>1
<1>3. CASE s.ok /\ r.kind = "BOOTSTRAP"
  <2> DEFINE sc == [s EXCEPT !.client = {InitStore}]
             tc == [t EXCEPT !.client = {InitStore}]
  <2>1. u = VerifyBootstrap(s, at) /\ v = VerifyBootstrap(t, at2)
    BY <1>0, <1>3 DEF VerifyBridgeTransaction
  <2>2. Alike(sc, tc)
    BY AlikeChanged
  <2> HIDE DEF u, v, sf, tf, sc, tc
  <2>3. \/ u = sf /\ v = tf
        \/ /\ u = AddAnchor(sc, Checkpoint, Checkpoint, at)
           /\ v = AddAnchor(tc, Checkpoint, Checkpoint, at2)
    BY <1>0, <2>1 DEF VerifyBootstrap, sf, tf, sc, tc
  <2> QED BY <1>1, <2>2, <2>3, AlikeAnchored
<1>4. CASE s.ok /\ r.kind = "UPDATE"
  <2> DEFINE old == CHOOSE store \in s.client : TRUE
             new == ProcessUpdate(old, r)
             sc == [s EXCEPT !.client = {new}]
             tc == [t EXCEPT !.client = {new}]
             fits == /\ s.client # {} /\ UpdateUsesKnownFork(r) /\ UpdateVerifies(old, r) /\ new # old
                     /\ new.block # old.block => ExecutionRangeReachable(new.block, old.block)
  <2>1. u = VerifyUpdate(s, r, at) /\ v = VerifyUpdate(t, r, at2)
    BY <1>0, <1>4 DEF VerifyBridgeTransaction
  <2>2. Alike(sc, tc)
    <3> HIDE DEF new
    <3> QED BY AlikeChanged
  <2>3. u = IF fits THEN (IF new.block # old.block THEN AddAnchor(sc, new.block, new.block, at)
                          ELSE sc) ELSE sf
    BY <2>1 DEF VerifyUpdate
  <2>4. v = IF fits THEN (IF new.block # old.block THEN AddAnchor(tc, new.block, new.block, at2)
                          ELSE tc) ELSE tf
    <3>1. (CHOOSE store \in t.client : TRUE) = old
      BY <1>0
    <3>2. t.client # {} <=> s.client # {}
      BY <1>0
    <3> HIDE DEF old
    <3> QED BY <2>1, <3>1, <3>2 DEF VerifyUpdate
  <2> HIDE DEF u, v, sf, tf, sc, tc, new, old, fits
  <2> QED BY <1>1, <2>2, <2>3, <2>4, AlikeAnchored
<1>5. CASE s.ok /\ r.kind = "BACKFILL"
  <2> DEFINE src == s.anchors[r.from].source
  <2>1. u = VerifyBackfill(s, r, at) /\ v = VerifyBackfill(t, r, at2)
    BY <1>0, <1>5 DEF VerifyBridgeTransaction
  <2>2. /\ DOMAIN s.anchors = DOMAIN t.anchors
        /\ r.from \in DOMAIN s.anchors => t.anchors[r.from].source = src
    BY <1>0 DEF SameSources
  <2>3. r.from \in DOMAIN s.anchors =>
            (CumulativeTargetAllowed(s.anchors[r.from], r.to)
                <=> CumulativeTargetAllowed(t.anchors[r.from], r.to))
    BY <2>2 DEF CumulativeTargetAllowed
  <2> HIDE DEF u, v, sf, tf
  <2>4. \/ u = sf /\ v = tf
        \/ /\ u = AddAnchor(s, r.to, src, at)
           /\ v = AddAnchor(t, r.to, src, at2)
    BY <2>1, <2>2, <2>3 DEF VerifyBackfill, sf, tf
  <2> QED BY <1>1, <2>4, AlikeAnchored
<1>6. CASE s.ok /\ r.kind = "MINT"
  <2> DEFINE amount == Deposits[r.deposit].amount
             epoch == BridgeEpoch(Len(at))
             more == With(s.minted, [e \in {epoch} |-> Lookup(s.minted, e) + amount])
             sm == [s EXCEPT !.nullifiers_overlay = @ \union {r.deposit},
                             !.minted_this_block = @ + amount, !.minted = more]
             tm == [t EXCEPT !.nullifiers_overlay = @ \union {r.deposit},
                             !.minted_this_block = @ + amount, !.minted = more]
  <2>1. u = VerifyMint(s, r, at, time) /\ v = VerifyMint(t, r, at2, time)
    BY <1>0, <1>6 DEF VerifyBridgeTransaction
  <2>2. DOMAIN s.anchors = DOMAIN t.anchors
    BY <1>0 DEF SameSources
  <2>3. r.from \in DOMAIN s.anchors =>
            (CumulativeTargetAllowed(s.anchors[r.from], Deposits[r.deposit].block)
                <=> CumulativeTargetAllowed(t.anchors[r.from], Deposits[r.deposit].block))
    BY <1>0 DEF SameSources, CumulativeTargetAllowed
  <2>4. /\ AdmitConfiguredDeposit(s, amount, epoch) <=> AdmitConfiguredDeposit(t, amount, epoch)
        /\ IsNullified(s, r.deposit) <=> IsNullified(t, r.deposit)
    BY <1>0 DEF AdmitConfiguredDeposit, IsNullified
  <2>5. Alike(sm, tm)
    <3> HIDE DEF more, amount
    <3> QED BY DEF Alike, IsScratch
  <2>6. u = sm \/ u = sf
    BY <2>1 DEF VerifyMint
  <2>7. \/ u = sf /\ v = tf
        \/ u = sm /\ v = tm
    BY <1>0, <2>1, <2>2, <2>3, <2>4 DEF VerifyMint
  <2> HIDE DEF u, v, sf, tf, sm, tm
  <2> QED BY <1>1, <2>5, <2>7
<1>7. CASE s.ok /\ r.kind = "BURN"
  <2> DEFINE more == Append(s.tree, [source |-> r.source, height |-> Len(at)])
             sb == [s EXCEPT !.tree = more]
             tb == [t EXCEPT !.tree = more]
  <2>1. u = VerifyBridgeBurn(s, r, at) /\ v = VerifyBridgeBurn(t, r, at2)
    BY <1>0, <1>7 DEF VerifyBridgeTransaction
  <2>2. Alike(sb, tb)
    <3> HIDE DEF more
    <3> QED BY DEF Alike, IsScratch
  <2>3. \/ u = sf /\ v = tf
        \/ u = sb /\ v = tb
    BY <1>0, <2>1 DEF VerifyBridgeBurn
  <2> HIDE DEF u, v, sf, tf, sb, tb
  <2> QED BY <1>1, <2>2, <2>3
<1> HIDE DEF u, v
<1> QED BY <1>0, <1>2, <1>3, <1>4, <1>5, <1>6, <1>7 DEF WellFormed

(* The records of a package do the same to two states alike. *)
LEMMA AlikeVerified ==
    ASSUME NEW s, NEW t, Alike(s, t), NEW at, NEW at2, Len(at) = Len(at2), NEW time,
           NEW records, Len(records) \in Nat, \A i \in 1 .. Len(records) : WellFormed(records[i])
    PROVE  Alike(Verified(s, records, at, time), Verified(t, records, at2, time))
<1> DEFINE N == Len(records)
<1>1. PICK f : IsVerified(f, N, s, records, at, time) /\ Verified(s, records, at, time) = f[N]
  BY VerifiedRuns
<1>2. PICK g : IsVerified(g, N, t, records, at2, time) /\ Verified(t, records, at2, time) = g[N]
  BY VerifiedRuns
<1>3. /\ f[0] = s
      /\ \A n \in 0 .. N : n # 0 =>
             /\ n \in 1 .. N /\ n - 1 \in 0 .. N
             /\ f[n] = VerifyBridgeTransaction(f[n - 1], records[n], at, time)
  BY <1>1, VerifiedRounds
<1>4. /\ g[0] = t
      /\ \A n \in 0 .. N : n # 0 =>
             g[n] = VerifyBridgeTransaction(g[n - 1], records[n], at2, time)
  BY <1>2, VerifiedRounds
<1> DEFINE T == {n \in 0 .. N : Alike(f[n], g[n])}
<1>5. 0 \in T
  BY <1>3, <1>4
<1>6. ASSUME NEW n \in 0 .. N, n # 0, n - 1 \in T PROVE n \in T
  <2>1. Alike(f[n - 1], g[n - 1]) /\ WellFormed(records[n])
    BY <1>3, <1>6
  <2>2. Alike(VerifyBridgeTransaction(f[n - 1], records[n], at, time),
              VerifyBridgeTransaction(g[n - 1], records[n], at2, time))
    BY <2>1, AlikeStep
  <2> QED BY <1>3, <1>4, <1>6, <2>2
<1>7. N \in T
  <2>1. \A n \in 0 .. N : n # 0 /\ n - 1 \in T => n \in T
    BY <1>6
  <2>2. 0 \in Int /\ N \in Int /\ N \in 0 .. N
    OBVIOUS
  <2> HIDE DEF T, N
  <2> QED BY <1>5, <2>1, <2>2, InductionUpTo
<1> QED BY <1>1, <1>2, <1>7

(* Verifying one sequence of records after another. *)
LEMMA VerifiedConcat ==
    ASSUME NEW U, NEW p \in Seq(U), NEW q \in Seq(U), NEW s, NEW at, NEW time
    PROVE  Verified(s, p \o q, at, time) = Verified(Verified(s, p, at, time), q, at, time)
<1> DEFINE a == Len(p)
           b == Len(q)
           w == p \o q
           V(x, e) == VerifyBridgeTransaction(x, e, at, time)
           v == Verified(s, p, at, time)
<1>0. /\ a \in Nat /\ b \in Nat /\ w \in Seq(U) /\ Len(w) = a + b
      /\ \A n \in 1 .. a : w[n] = p[n]
      /\ \A n \in 1 .. b : w[a + n] = q[n]
  OBVIOUS
<1> HIDE DEF w
<1>1. PICK f : IsVerified(f, Len(p), s, p, at, time) /\ Verified(s, p, at, time) = f[Len(p)]
  <2>1. Len(p) \in Nat
    OBVIOUS
  <2> QED BY <2>1, VerifiedRuns
<1> HIDE DEF v
<1>2. PICK g : IsVerified(g, Len(q), v, q, at, time) /\ Verified(v, q, at, time) = g[Len(q)]
  <2>1. Len(q) \in Nat
    OBVIOUS
  <2> QED BY <2>1, VerifiedRuns
<1>3. PICK h : IsVerified(h, Len(w), s, w, at, time) /\ Verified(s, w, at, time) = h[Len(w)]
  <2>1. Len(w) \in Nat
    BY <1>0
  <2> QED BY <2>1, VerifiedRuns
<1> HIDE DEF a, b
<1>4. f[0] = s /\ \A n \in 0 .. a : n # 0 => n \in 1 .. a /\ n - 1 \in 0 .. a /\ f[n] = V(f[n - 1], p[n])
  <2>1. IsVerified(f, a, s, p, at, time)
    BY <1>1 DEF a
  <2> QED BY <1>0, <2>1, VerifiedRounds
<1>5. g[0] = v /\ \A n \in 0 .. b : n # 0 => n \in 1 .. b /\ n - 1 \in 0 .. b /\ g[n] = V(g[n - 1], q[n])
  <2>1. IsVerified(g, b, v, q, at, time)
    BY <1>2 DEF b
  <2> QED BY <1>0, <2>1, VerifiedRounds
<1>6. h[0] = s /\ \A n \in 0 .. a + b : n # 0 => h[n] = V(h[n - 1], w[n])
  <2> DEFINE c == a + b
  <2>1. IsVerified(h, c, s, w, at, time) /\ c \in Nat
    BY <1>0, <1>3
  <2> HIDE DEF c
  <2>2. h[0] = s /\ \A n \in 0 .. c : n # 0 => h[n] = V(h[n - 1], w[n])
    BY <2>1, VerifiedRounds
  <2> QED BY <2>2 DEF c
<1> HIDE DEF V
<1>7. h[a] = f[a]
  <2> DEFINE T == {n \in 0 .. a : h[n] = f[n]}
  <2>1. 0 \in T
    BY <1>0, <1>4, <1>6
  <2>2. ASSUME NEW n \in 0 .. a, n # 0, n - 1 \in T PROVE n \in T
    <3>1. n \in 1 .. a /\ n \in 0 .. a + b /\ h[n - 1] = f[n - 1]
      BY <1>0, <1>4, <2>2
    <3> QED BY <1>0, <1>4, <1>6, <2>2, <3>1
  <2>3. \A n \in 0 .. a : n # 0 /\ n - 1 \in T => n \in T
    BY <2>2
  <2>4. 0 \in Int /\ a \in Int /\ a \in 0 .. a
    BY <1>0
  <2> HIDE DEF T
  <2>5. a \in T
    BY <2>1, <2>3, <2>4, InductionUpTo
  <2> QED BY <2>5 DEF T
<1>8. h[a + b] = g[b]
  <2> DEFINE T == {n \in 0 .. b : h[a + n] = g[n]}
  <2>1. 0 \in T
    BY <1>0, <1>1, <1>5, <1>7 DEF a, v
  <2>2. ASSUME NEW n \in 0 .. b, n # 0, n - 1 \in T PROVE n \in T
    <3>1. /\ n \in 1 .. b /\ a + n \in 0 .. a + b /\ a + n # 0 /\ (a + n) - 1 = a + (n - 1)
      BY <1>0, <2>2
    <3>2. h[a + (n - 1)] = g[n - 1]
      BY <2>2
    <3>3. h[a + n] = V(h[(a + n) - 1], w[a + n])
      BY <1>6, <3>1
    <3>4. g[n] = V(g[n - 1], q[n]) /\ w[a + n] = q[n]
      BY <1>0, <1>5, <2>2, <3>1
    <3> QED BY <2>2, <3>1, <3>2, <3>3, <3>4
  <2>3. \A n \in 0 .. b : n # 0 /\ n - 1 \in T => n \in T
    BY <2>2
  <2>4. 0 \in Int /\ b \in Int /\ b \in 0 .. b
    BY <1>0
  <2> HIDE DEF T
  <2>5. b \in T
    BY <2>1, <2>3, <2>4, InductionUpTo
  <2> QED BY <2>5 DEF T
<1> QED BY <1>0, <1>2, <1>3, <1>8 DEF w, v, b

(* The preview after each package: what it holds verifies as a block. *)
LEMMA AssembledVerifies ==
    ASSUME NEW U, NEW packages, Len(packages) \in Nat,
           \A i \in 1 .. Len(packages) :
               /\ packages[i] \in Seq(U)
               /\ \A j \in 1 .. Len(packages[i]) : WellFormed(packages[i][j]),
           NEW idx, NEW at, NEW at2, Len(at) = Len(at2), NEW time
    PROVE  Verified(Scratch(idx), Assembled(idx, packages, at, time), at2, time).ok
<1> DEFINE N == Len(packages)
           Whole(x) == Verified(Scratch(idx), x.records, at2, time)
           Good(x) == x.records \in Seq(U) /\ Alike(x.state, Whole(x)) /\ x.state.ok
<1>1. PICK f : /\ IsAssembled(f, N, idx, packages, at, time)
               /\ Assembled(idx, packages, at, time) = f[N].records
  BY AssembledRuns
<1> DEFINE Start == [state |-> Scratch(idx), records |-> << >>]
           F(i) == IF i = 0 THEN Start ELSE TryAppend(f[i - 1], packages[i], at, time)
           T == {n \in 0 .. N : Good(f[n])}
<1>2. \A n \in 0 .. N : f[n] = F(n)
  <2>1. f = [n \in 0 .. N |-> F(n)]
    BY <1>1 DEF IsAssembled
  <2> HIDE DEF F
  <2> QED BY <2>1
<1>3. 0 \in T
  <2>1. f[0] = Start /\ 0 \in 0 .. N
    BY <1>2
  <2>2. Verified(Scratch(idx), << >>, at2, time) = Scratch(idx)
    <3> DEFINE e == << >>
    <3>1. Len(e) = 0 /\ 0 \in 0 .. 0
      OBVIOUS
    <3> HIDE DEF e
    <3> DEFINE s == Scratch(idx)
    <3> HIDE DEF s
    <3>2. PICK g : IsVerified(g, Len(e), s, e, at2, time) /\ Verified(s, e, at2, time) = g[Len(e)]
      <4>1. Len(e) \in Nat
        BY <3>1
      <4> QED BY <4>1, VerifiedRuns
    <3>3. g[0] = s
      BY <3>1, <3>2, VerifiedRounds
    <3> QED BY <3>1, <3>2, <3>3 DEF e, s
  <2>3. Alike(Scratch(idx), Scratch(idx)) /\ Scratch(idx).ok
    BY DEF Alike, SameSources, Scratch, IsScratch
  <2>4. Start.state = Scratch(idx) /\ Start.records = << >> /\ << >> \in Seq(U)
    OBVIOUS
  <2> HIDE DEF Start
  <2>5. Good(Start)
    BY <2>2, <2>3, <2>4
  <2> QED BY <2>1, <2>5
<1>4. ASSUME NEW n \in 0 .. N, n # 0, n - 1 \in T PROVE n \in T
  <2> DEFINE x == f[n - 1]
             k == packages[n]
             trial == Verified(x.state, k, at, time)
             y == [state |-> trial, records |-> x.records \o k]
  <2>1. Good(x)
    BY <1>4
  <2>2. n \in 1 .. N /\ k \in Seq(U) /\ Len(k) \in Nat /\ \A j \in 1 .. Len(k) : WellFormed(k[j])
    BY <1>4
  <2>3. f[n] = IF trial.ok THEN y ELSE x
    <3>1. f[n] = TryAppend(x, k, at, time)
      BY <1>2, <1>4
    <3> QED BY <3>1 DEF TryAppend
  <2>4. ASSUME trial.ok PROVE Good(y)
    <3>1. y.state = trial /\ y.records = x.records \o k
      OBVIOUS
    <3> HIDE DEF y, x, k
    <3>2. Alike(trial, Verified(Whole(x), k, at2, time))
      BY <2>1, <2>2, AlikeVerified
    <3>3. Whole(y) = Verified(Whole(x), k, at2, time)
      <4> DEFINE R == x.records
                 s == Scratch(idx)
      <4>1. R \in Seq(U)
        BY <2>1
      <4> HIDE DEF R, s
      <4>2. Verified(s, R \o k, at2, time) = Verified(Verified(s, R, at2, time), k, at2, time)
        BY <2>2, <4>1, VerifiedConcat
      <4> QED BY <3>1, <4>2 DEF R, s
    <3>4. y.records \in Seq(U)
      BY <2>1, <2>2, <3>1
    <3> HIDE DEF trial, Whole
    <3> QED BY <2>4, <3>1, <3>2, <3>3, <3>4
  <2> HIDE DEF Good, y, trial, x
  <2>5. Good(f[n])
    BY <2>1, <2>3, <2>4
  <2> QED BY <1>4, <2>5
<1>5. N \in T
  <2>1. \A n \in 0 .. N : n # 0 /\ n - 1 \in T => n \in T
    BY <1>4
  <2>2. 0 \in Int /\ N \in Int /\ N \in 0 .. N
    OBVIOUS
  <2> HIDE DEF T, N
  <2> QED BY <1>3, <2>1, <2>2, InductionUpTo
<1>6. Alike(f[N].state, Whole(f[N])) /\ f[N].state.ok
  BY <1>5
<1>7. Whole(f[N]).ok
  <2> HIDE DEF Whole, N
  <2> QED BY <1>6 DEF Alike, IsScratch
<1> QED BY <1>1, <1>7

(* A block assembled from packages verifies: BridgeBlockPreview::TryAppend
   against VerifyBlock. *)
THEOREM AssembledVerify == Spec => []AssembledBlockVerifies
<1>1. BridgeInv => AssembledBlockVerifies
  <2> SUFFICES ASSUME BridgeInv, SyncedTo(tracker, chain), Len(chain) + 1 >= Activation,
                      NEW m \in Mempool
               PROVE  LET preview == Append(chain, [time |-> m.time, records |-> << >>])
                          records == Assembled(tracker.index, m.packages, preview, m.time)
                      IN  VerifyBlock(tracker.index,
                                      Append(chain, [time |-> m.time, records |-> records])).ok
    BY DEF AssembledBlockVerifies
  <2> DEFINE idx == tracker.index
             packages == m.packages
             U == UNION {Range(packages[i]) : i \in DOMAIN packages}
             at == Append(chain, [time |-> m.time, records |-> << >>])
             R == Assembled(idx, packages, at, m.time)
             block == [time |-> m.time, records |-> R]
             at2 == Append(chain, block)
             s == Verified(Scratch(idx), R, at2, m.time)
  <2>0. chain \in Seq(Blocks) /\ Len(chain) \in Nat
    BY DEF BridgeInv
  <2>1. Len(at) = Len(chain) + 1
    <3> DEFINE e == [time |-> m.time, records |-> << >>]
               X == Blocks \union {e}
    <3> HIDE DEF e
    <3>1. chain \in Seq(X) /\ e \in X
      BY <2>0
    <3> HIDE DEF X
    <3> QED BY <3>1, HashOfAppend DEF e
  <2>2. Len(at2) = Len(chain) + 1 /\ Last(at2) = block
    <3> HIDE DEF block
    <3> DEFINE X == Blocks \union {block}
    <3>1. chain \in Seq(X) /\ block \in X
      BY <2>0
    <3> HIDE DEF X
    <3> QED BY <3>1, HashOfAppend
  <2>3. /\ Len(packages) \in Nat
        /\ \A i \in 1 .. Len(packages) :
               /\ packages[i] \in Seq(U)
               /\ \A j \in 1 .. Len(packages[i]) : WellFormed(packages[i][j])
    <3>1. /\ packages \in Seq(Range(packages))
          /\ \A i \in DOMAIN packages : /\ packages[i] \in Seq(Range(packages[i]))
                                        /\ \A j \in DOMAIN packages[i] : WellFormed(packages[i][j])
      BY BlocksAssumption
    <3>2. Len(packages) \in Nat /\ DOMAIN packages = 1 .. Len(packages)
      <4> DEFINE S == Range(packages)
      <4> HIDE DEF S
      <4>1. packages \in Seq(S)
        BY <3>1 DEF S
      <4> QED BY <4>1
    <3>3. ASSUME NEW i \in DOMAIN packages
          PROVE  packages[i] \in Seq(U) /\ DOMAIN packages[i] = 1 .. Len(packages[i])
      <4> DEFINE S == Range(packages[i])
      <4>1. S \subseteq U
        OBVIOUS
      <4>2. packages[i] \in Seq(S)
        BY <3>1
      <4> HIDE DEF S, U, packages
      <4> QED BY <4>1, <4>2
    <3> HIDE DEF packages, U
    <3> QED BY <3>1, <3>2, <3>3
  <2> HIDE DEF at2, at, U, packages, idx
  <2>4. s.ok
    BY <2>1, <2>2, <2>3, AssembledVerifies
  <2>5. VerifyBlock(idx, at2).ok
    <3>1. block.records = R /\ block.time = m.time
      OBVIOUS
    <3> HIDE DEF block, R
    <3>2. Len(at2) >= Activation
      BY <2>2
    <3>3. VerifyBlock(idx, at2).ok <=> Len(at2) >= Activation /\ s.ok
      BY <2>2, <3>1 DEF VerifyBlock, DeltaOf
    <3> QED BY <2>4, <3>2, <3>3
  <2> QED BY <2>5 DEF at2, at, packages, idx
<1> QED BY <1>1, BridgeInvariant, PTL
=============================================================================
