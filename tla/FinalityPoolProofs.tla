------------------------- MODULE FinalityPoolProofs -------------------------
(***************************************************************************)
(* What TLAPS proves of FinalityPool, for every set of views and votes,    *)
(* every pool size and unbounded runs, and of FinalityTransport, whose     *)
(* pool it is, for every set of peers and every limit: the accounting of   *)
(* the holding area, and what becomes of the pool and of a waiting vote;   *)
(* and of FinalityRelay, for every cursor and every batch size: what the   *)
(* export shared by all peers holds, and what a peer is sent of it.        *)
(***************************************************************************)
EXTENDS FinalityTransport, FinalityRelay, NaturalFacts, FiniteSetTheorems

-----------------------------------------------------------------------------
(* The elements of a list that belong to a set.                            *)

\* The loop of Select: what is kept of the first n elements.
IsSelection(f, list, set) ==
    f = [n \in 0..Len(list) |->
            IF n = 0 THEN <<>>
            ELSE IF list[n] \in set THEN Append(f[n - 1], list[n])
            ELSE f[n - 1]]

\* What is kept is what the list and the set share, each as often as listed.
Selects(part, list, n, set) ==
    /\ Len(part) <= n
    /\ \A j \in DOMAIN part : \E i \in 1..n : list[i] = part[j]
    /\ \A i \in 1..n : list[i] \in set => \E j \in DOMAIN part : part[j] = list[i]
    /\ IsInjective(list) => IsInjective(part)

(* One round of the loop. *)
LEMMA SelectRound ==
    ASSUME NEW X, NEW list \in Seq(X), NEW set, NEW n \in 1..Len(list),
           NEW part \in Seq(set), Selects(part, list, n - 1, set)
    PROVE  LET next == IF list[n] \in set THEN Append(part, list[n]) ELSE part
           IN  next \in Seq(set) /\ Selects(next, list, n, set)
<1>0. Len(list) \in Nat /\ n \in Nat /\ n - 1 \in Nat /\ Len(part) \in Nat
      /\ DOMAIN list = 1..Len(list) /\ DOMAIN part = 1..Len(part)
  OBVIOUS
<1>1. CASE list[n] \notin set
  <2>1. \A i \in 1..n : list[i] \in set => i \in 1..(n - 1)
    BY <1>0, <1>1
  <2>2. \A i \in 1..(n - 1) : i \in 1..n
    BY <1>0
  <2>3. Len(part) <= n
    BY <1>0 DEF Selects
  <2> QED BY <1>1, <2>1, <2>2, <2>3 DEF Selects
<1>2. CASE list[n] \in set
  <2> DEFINE next == Append(part, list[n])
             L == Len(part)
  <2>1. /\ next \in Seq(set) /\ Len(next) = L + 1
        /\ DOMAIN next = 1..(L + 1) /\ next[L + 1] = list[n]
        /\ \A j \in 1..L : next[j] = part[j]
    BY <1>2
  <2> HIDE DEF next
  <2>2. Len(next) <= n
    BY <1>0, <2>1 DEF Selects
  <2>3. ASSUME NEW j \in DOMAIN next PROVE \E i \in 1..n : list[i] = next[j]
    <3>1. CASE j = L + 1
      BY <1>0, <2>1, <3>1
    <3>2. CASE j \in 1..L
      <4>1. \E i \in 1..(n - 1) : list[i] = part[j]
        BY <1>0, <3>2 DEF Selects
      <4> QED BY <1>0, <2>1, <3>2, <4>1
    <3> QED BY <1>0, <2>1, <3>1, <3>2
  <2>4. ASSUME NEW i \in 1..n, list[i] \in set
        PROVE  \E j \in DOMAIN next : next[j] = list[i]
    <3>1. CASE i = n
      BY <1>0, <2>1, <3>1
    <3>2. CASE i # n
      <4>1. i \in 1..(n - 1)
        BY <1>0, <3>2
      <4>2. PICK j \in 1..L : part[j] = list[i]
        BY <1>0, <2>4, <4>1 DEF Selects
      <4>3. j \in DOMAIN next /\ next[j] = list[i]
        BY <1>0, <2>1, <4>2
      <4> QED BY <4>3
    <3> QED BY <3>1, <3>2
  <2>5. ASSUME IsInjective(list) PROVE IsInjective(next)
    <3>1. \A j \in 1..L : next[j] # list[n]
      <4> SUFFICES ASSUME NEW j \in 1..L, next[j] = list[n] PROVE FALSE
        OBVIOUS
      <4>1. PICK i \in 1..(n - 1) : list[i] = part[j]
        BY <1>0 DEF Selects
      <4>2. list[i] = list[n] /\ i # n /\ i \in DOMAIN list /\ n \in DOMAIN list
        BY <1>0, <2>1, <4>1
      <4> QED BY <2>5, <4>2 DEF IsInjective
    <3>2. \A a, b \in 1..L : part[a] = part[b] => a = b
      BY <1>0, <2>5 DEF Selects, IsInjective
    <3>3. \A a, b \in DOMAIN next : next[a] = next[b] => a = b
      <4> SUFFICES ASSUME NEW a \in DOMAIN next, NEW b \in DOMAIN next,
                          next[a] = next[b]
                   PROVE  a = b
        OBVIOUS
      <4>1. /\ a \in 1..L \/ a = L + 1
            /\ b \in 1..L \/ b = L + 1
        BY <1>0, <2>1
      <4> QED BY <2>1, <3>1, <3>2, <4>1
    <3> QED BY <3>3 DEF IsInjective
  <2>6. Selects(next, list, n, set)
    BY <2>2, <2>3, <2>4, <2>5 DEF Selects
  <2> QED BY <1>2, <2>1, <2>6 DEF next
<1> QED BY <1>1, <1>2

(* Select keeps the elements of the list that belong to the set, all of them,
   and none twice if the list has none twice. *)
LEMMA SelectLists ==
    ASSUME NEW X, NEW list \in Seq(X), NEW set
    PROVE  /\ Select(list, set) \in Seq(set)
           /\ Selects(Select(list, set), list, Len(list), set)
<1> DEFINE N == Len(list)
           V == Seq(set)
           after(s, n) == IF list[n] \in set THEN Append(s, list[n]) ELSE s
           body == [s \in V |-> [n \in 0..N |-> after(s, n)]]
<1>0. N \in Nat /\ N \in Int /\ 0 \in Int /\ 0 <= N
  OBVIOUS
<1>1. \A s \in V, n \in 0..N : after(s, n) \in V
  OBVIOUS
<1>11. IsBody(body, V, 0, N)
  BY <1>1 DEF IsBody
<1>2. <<>> \in V
  OBVIOUS
<1>3. \E g : IsRun(g, V, 0, N, <<>>, body)
  <2> HIDE DEF N, V, body
  <2> QED BY <1>0, <1>2, <1>11, IterationExists
<1>4. PICK g : IsRun(g, V, 0, N, <<>>, body)
  BY <1>3
<1>5. ASSUME NEW n \in 0..N, n # 0 PROVE g[n] = after(g[n - 1], n)
  <2>1. g \in [0..N -> V] /\ g[n] = body[g[n - 1]][n]
    BY <1>4, <1>5 DEF IsRun
  <2>2. n - 1 \in 0..N
    BY <1>0, <1>5
  <2>3. g[n - 1] \in V
    BY <2>1, <2>2
  <2> QED BY <2>1, <2>3
<1>6. IsSelection(g, list, set)
  <2>1. g = [n \in 0..N |-> IF n = 0 THEN <<>> ELSE after(g[n - 1], n)]
    BY <1>4, <1>5 DEF IsRun
  <2> QED BY <2>1 DEF IsSelection
<1> DEFINE f == CHOOSE h : IsSelection(h, list, set)
<1>7. IsSelection(f, list, set)
  BY <1>6
<1>8. Select(list, set) = f[N]
  BY DEF Select, IsSelection
<1> HIDE DEF f
<1>9. \A n \in 0..N : f[n] \in V /\ Selects(f[n], list, n, set)
  <2> DEFINE T == {n \in 0..N : f[n] \in V /\ Selects(f[n], list, n, set)}
  <2>1. 0 \in T
    <3>1. f[0] = <<>>
      BY <1>0, <1>7 DEF IsSelection
    <3>2. Selects(<<>>, list, 0, set)
      BY DEF Selects, IsInjective
    <3>3. 0 \in 0..N /\ f[0] \in V /\ Selects(f[0], list, 0, set)
      BY <1>0, <1>2, <3>1, <3>2
    <3> QED BY <3>3
  <2>2. ASSUME NEW n \in 0..N, n # 0, n - 1 \in T PROVE n \in T
    <3>1. f[n - 1] \in V /\ Selects(f[n - 1], list, n - 1, set)
      BY <2>2
    <3>2. f[n] = after(f[n - 1], n)
      BY <1>7, <2>2 DEF IsSelection
    <3>3. n \in 1..Len(list)
      BY <1>0, <2>2
    <3>4. f[n] \in V /\ Selects(f[n], list, n, set)
      BY <3>1, <3>2, <3>3, SelectRound
    <3> QED BY <3>4
  <2>3. \A n \in 0..N : n # 0 /\ n - 1 \in T => n \in T
    BY <2>2
  <2>4. \A n \in 0..N : n \in T
    <3> HIDE DEF T, N
    <3> QED BY <1>0, <2>1, <2>3, InductionUpTo
  <2> QED BY <2>4
<1>10. N \in 0..N
  BY <1>0
<1> QED BY <1>8, <1>9, <1>10

-----------------------------------------------------------------------------
(* The inductive invariant.                                                *)

\* Every vote in a slot was verified on some view, all of them over one
\* object and by the members of one set.
SlotOK(k, slot) ==
    \E w \in Views :
        /\ Signable(w, k) /\ Expectable(w, k[1], k[2])
        /\ slot.digest = Expected(w, k)
        /\ DOMAIN slot.sigs # {}
        /\ \A i \in DOMAIN slot.sigs :
              /\ i \in DOMAIN MemberOrder(SetOfKey(w, k))
              /\ slot.sigs[i] = [by |-> MemberOrder(SetOfKey(w, k))[i],
                                 over |-> slot.digest]

SlotsOK(s) ==
    /\ IsFiniteSet(DOMAIN s) /\ Cardinality(DOMAIN s) <= MaxTracked
    /\ DOMAIN s \subseteq Nat \X Nat
    /\ \A k \in DOMAIN s : SlotOK(k, s[k])

PoolInv == view \in Views /\ restarts \in 0..MaxRestarts /\ SlotsOK(slots)

(* A slot whose object the view derives was filled by the very set the view
   has in force, for an epoch the view gives to that height as well. *)
LEMMA SlotOfView ==
    ASSUME NEW v \in Views, NEW k, NEW slot, SlotOK(k, slot), Current(v, k, slot)
    PROVE  /\ EpochAt(v, k[2]) = k[1]
           /\ SetOfKey(v, k) # NoSet =>
                 \A i \in DOMAIN slot.sigs :
                    /\ i \in DOMAIN MemberOrder(SetOfKey(v, k))
                    /\ slot.sigs[i] = [by |-> MemberOrder(SetOfKey(v, k))[i],
                                       over |-> Expected(v, k)]
<1>1. PICK w \in Views :
         /\ Signable(w, k) /\ Expectable(w, k[1], k[2])
         /\ slot.digest = Expected(w, k)
         /\ DOMAIN slot.sigs # {}
         /\ \A i \in DOMAIN slot.sigs :
               /\ i \in DOMAIN MemberOrder(SetOfKey(w, k))
               /\ slot.sigs[i] = [by |-> MemberOrder(SetOfKey(w, k))[i],
                                  over |-> slot.digest]
  BY DEF SlotOK
<1>2. slot.digest = Expected(v, k) /\ k[2] \in DOMAIN v.block
  BY DEF Current, Expectable
<1>3. Expected(w, k).block = w.block[k[2]] /\ Expected(v, k).block = v.block[k[2]]
  BY DEF Expected, ExpectedFinalizedBlock
<1>4. k[2] \in DOMAIN w.block /\ w.block[k[2]] = v.block[k[2]]
  BY <1>1, <1>2, <1>3 DEF Expectable
<1>5. EpochAt(w, k[2]) = k[1] /\ SetOfKey(w, k) # NoSet
  BY <1>1 DEF Signable
<1>6. /\ EpochAt(w, k[2]) = EpochAt(v, k[2])
      /\ \/ SetForEpoch(w.state, EpochAt(w, k[2])) = NoSet
         \/ SetForEpoch(v.state, EpochAt(w, k[2])) = NoSet
         \/ SetForEpoch(w.state, EpochAt(w, k[2]))
               = SetForEpoch(v.state, EpochAt(w, k[2]))
  BY <1>2, <1>4, ViewsCommit
<1>7. SetOfKey(v, k) # NoSet => SetOfKey(v, k) = SetOfKey(w, k)
  BY <1>5, <1>6 DEF SetOfKey
<1> QED BY <1>1, <1>2, <1>5, <1>6, <1>7

(* The coordinates of an admissible vote are numbers. *)
LEMMA KeyType ==
    ASSUME NEW v \in Views, NEW m, Signable(v, Key(m))
    PROVE  Key(m) \in Nat \X Nat
<1>1. /\ m.height \in DOMAIN v.block
      /\ SetForEpoch(v.state, m.epoch) # NoSet
  BY DEF Signable, Key, SetOfKey
<1>2. v.block \in Seq(Range(v.block)) /\ v.state.epoch \in Nat
  BY ViewsCommit
<1>3. m.height \in Nat
  BY <1>1, <1>2
<1>4. m.epoch \in Nat
  BY <1>1, <1>2 DEF SetForEpoch
<1> QED BY <1>3, <1>4 DEF Key

(* A pool that holds anything has an oldest slot. *)
LEMMA OldestExists ==
    ASSUME NEW s, DOMAIN s \subseteq Nat \X Nat, DOMAIN s # {}
    PROVE  Oldest(s) \in DOMAIN s /\ \A l \in DOMAIN s : ~Newer(Oldest(s), l)
<1> DEFINE E == {k[1] : k \in DOMAIN s}
<1>1. E \subseteq Nat /\ E # {}
  OBVIOUS
<1>2. PICK e \in E : \A d \in E : e <= d
  <2> HIDE DEF E
  <2> QED BY <1>1, LeastExists
<1> DEFINE H == {k[2] : k \in {l \in DOMAIN s : l[1] = e}}
<1>3. H \subseteq Nat /\ H # {}
  BY <1>2
<1>4. PICK h \in H : \A g \in H : h <= g
  <2> HIDE DEF H
  <2> QED BY <1>3, LeastExists
<1>5. PICK k \in DOMAIN s : k[1] = e /\ k[2] = h
  BY <1>4
<1>6. ASSUME NEW l \in DOMAIN s PROVE ~Newer(k, l)
  <2>1. l[1] \in E /\ (l[1] = e => l[2] \in H)
    OBVIOUS
  <2>2. e <= l[1] /\ (l[1] = e => h <= l[2])
    BY <1>2, <1>4, <2>1
  <2>3. l[1] \in Nat /\ l[2] \in Nat /\ e \in Nat /\ h \in Nat
    BY <1>1, <1>3
  <2> QED BY <1>5, <2>2, <2>3 DEF Newer
<1> QED BY <1>5, <1>6 DEF Oldest

(* Prune and DropObsolete only take slots away. *)
LEMMA FewerSlots ==
    ASSUME NEW s, SlotsOK(s), NEW K, K \subseteq DOMAIN s
    PROVE  SlotsOK(Restrict(s, K))
<1>1. DOMAIN Restrict(s, K) = K /\ \A k \in K : Restrict(s, K)[k] = s[k]
  BY DEF Restrict
<1>2. IsFiniteSet(K) /\ Cardinality(K) <= Cardinality(DOMAIN s)
      /\ Cardinality(K) \in Nat /\ Cardinality(DOMAIN s) \in Nat
  BY FS_Subset, FS_CardinalityType DEF SlotsOK
<1>3. Cardinality(K) <= MaxTracked
  BY <1>2, PoolAssumption DEF SlotsOK
<1> QED BY <1>1, <1>2, <1>3 DEF SlotsOK

(* Room is made for a new slot, and only then. *)
LEMMA RoomMade ==
    ASSUME NEW s, SlotsOK(s), NEW m
    PROVE  LET r == MakeRoom(s, m)
           IN  /\ SlotsOK(r)
               /\ DOMAIN r \subseteq DOMAIN s
               /\ \A k \in DOMAIN r : r[k] = s[k]
               /\ Key(m) \in DOMAIN s => r = s
               /\ Key(m) \notin DOMAIN s => Cardinality(DOMAIN r) < MaxTracked
<1> DEFINE r == MakeRoom(s, m)
<1>1. CASE ~EvictOldest(s, m)
  <2>1. r = s
    BY <1>1 DEF MakeRoom
  <2>2. Cardinality(DOMAIN s) \in Nat /\ MaxTracked \in Nat
    BY FS_CardinalityType, PoolAssumption DEF SlotsOK
  <2>3. Key(m) \notin DOMAIN s => Cardinality(DOMAIN s) < MaxTracked
    BY <1>1, <2>2 DEF EvictOldest
  <2> QED BY <2>1, <2>3
<1>2. CASE EvictOldest(s, m)
  <2> DEFINE K == DOMAIN s \ {Oldest(s)}
  <2>1. r = Restrict(s, K)
    BY <1>2 DEF MakeRoom
  <2>2. DOMAIN r = K /\ \A k \in K : r[k] = s[k]
    BY <2>1 DEF Restrict
  <2>3. SlotsOK(r)
    BY <2>1, FewerSlots
  <2>4. /\ IsFiniteSet(DOMAIN s) /\ DOMAIN s \subseteq Nat \X Nat
        /\ Cardinality(DOMAIN s) <= MaxTracked
        /\ Cardinality(DOMAIN s) \in Nat /\ MaxTracked \in Nat \ {0}
        /\ Cardinality(DOMAIN s) >= MaxTracked /\ Key(m) \notin DOMAIN s
    BY <1>2, FS_CardinalityType, PoolAssumption DEF SlotsOK, EvictOldest
  <2>5. DOMAIN s # {}
    BY <2>4, FS_EmptySet
  <2>6. Oldest(s) \in DOMAIN s
    BY <2>4, <2>5, OldestExists
  <2>7. Cardinality(K) = Cardinality(DOMAIN s) - 1
    BY <2>4, <2>6, FS_RemoveElement
  <2> QED BY <2>2, <2>3, <2>4, <2>7
<1> QED BY <1>1, <1>2

(* Storing a vote that verifies, among slots the view derives. *)
LEMMA StoreKeeps ==
    ASSUME view \in Views, NEW s, SlotsOK(s),
           \A k \in DOMAIN s : Current(view, k, s[k]),
           NEW m, Admissible(view, m), Verifies(view, m)
    PROVE  SlotsOK(Store(MakeRoom(s, m), m))
<1> DEFINE r == MakeRoom(s, m)
           key == Key(m)
           old == IF key \in DOMAIN r THEN r[key].sigs ELSE <<>>
           slot == [digest |-> Expected(view, key),
                    sigs |-> Put(old, m.index, m.signature)]
           new == Put(r, key, slot)
<1>1. Store(r, m) = new
  BY DEF Store
<1>2. /\ SlotsOK(r) /\ DOMAIN r \subseteq DOMAIN s
      /\ \A k \in DOMAIN r : r[k] = s[k]
      /\ key \in DOMAIN s => r = s
      /\ key \notin DOMAIN s => Cardinality(DOMAIN r) < MaxTracked
  BY RoomMade
<1>3. /\ DOMAIN new = DOMAIN r \cup {key} /\ new[key] = slot
      /\ \A k \in DOMAIN r : k # key => new[k] = r[k]
  <2> HIDE DEF r, key, slot
  <2> QED BY DEF Put
<1>4. /\ Signable(view, key) /\ Expectable(view, key[1], key[2])
      /\ m.index \in DOMAIN MemberOrder(SetOfKey(view, key))
      /\ m.signature = [by |-> MemberOrder(SetOfKey(view, key))[m.index],
                        over |-> Expected(view, key)]
      /\ SetOfKey(view, key) # NoSet
  BY DEF Admissible, Verifies, Signable, Key
<1>5. key \in Nat \X Nat
  BY <1>4, KeyType
<1>6. /\ IsFiniteSet(DOMAIN new) /\ Cardinality(DOMAIN new) <= MaxTracked
  <2>1. IsFiniteSet(DOMAIN r) /\ Cardinality(DOMAIN r) <= MaxTracked
        /\ Cardinality(DOMAIN r) \in Nat /\ MaxTracked \in Nat
    BY <1>2, FS_CardinalityType, PoolAssumption DEF SlotsOK
  <2>2. /\ IsFiniteSet(DOMAIN r \cup {key})
        /\ \/ Cardinality(DOMAIN r \cup {key}) = Cardinality(DOMAIN r)
           \/ key \notin DOMAIN s /\ Cardinality(DOMAIN r \cup {key}) = Cardinality(DOMAIN r) + 1
    <3>1. CASE key \in DOMAIN r
      <4>1. DOMAIN r \cup {key} = DOMAIN r
        BY <3>1
      <4> QED BY <2>1, <4>1
    <3>2. CASE key \notin DOMAIN r
      <4>1. key \notin DOMAIN s
        BY <1>2, <3>2
      <4> QED BY <2>1, <3>2, <4>1, FS_AddElement
    <3> QED BY <3>1, <3>2
  <2> QED BY <1>2, <1>3, <2>1, <2>2
<1>7. DOMAIN new \subseteq Nat \X Nat
  BY <1>2, <1>3, <1>5 DEF SlotsOK
<1>8. SlotOK(key, slot)
  <2>1. \A i \in DOMAIN old :
           /\ i \in DOMAIN MemberOrder(SetOfKey(view, key))
           /\ old[i] = [by |-> MemberOrder(SetOfKey(view, key))[i],
                        over |-> Expected(view, key)]
    <3>1. CASE key \in DOMAIN r
      <4>1. key \in DOMAIN s /\ old = s[key].sigs
        BY <1>2, <3>1
      <4>2. SlotOK(key, s[key]) /\ Current(view, key, s[key])
        BY <4>1 DEF SlotsOK
      <4>3. SetOfKey(view, key) # NoSet =>
               \A i \in DOMAIN s[key].sigs :
                  /\ i \in DOMAIN MemberOrder(SetOfKey(view, key))
                  /\ s[key].sigs[i] = [by |-> MemberOrder(SetOfKey(view, key))[i],
                                       over |-> Expected(view, key)]
        <5> HIDE DEF key
        <5> QED BY <4>2, SlotOfView
      <4> QED BY <1>4, <4>1, <4>3
    <3>2. CASE key \notin DOMAIN r
      <4>1. old = <<>>
        BY <3>2
      <4> QED BY <4>1
    <3> QED BY <3>1, <3>2
  <2> DEFINE sigs == Put(old, m.index, m.signature)
  <2>2. /\ DOMAIN sigs = DOMAIN old \cup {m.index} /\ sigs[m.index] = m.signature
        /\ \A i \in DOMAIN old : i # m.index => sigs[i] = old[i]
    <3> HIDE DEF old
    <3> QED BY DEF Put
  <2>3. slot.digest = Expected(view, key) /\ slot.sigs = sigs
    OBVIOUS
  <2> HIDE DEF slot, sigs, old, key
  <2>4. \A i \in DOMAIN slot.sigs :
           /\ i \in DOMAIN MemberOrder(SetOfKey(view, key))
           /\ slot.sigs[i] = [by |-> MemberOrder(SetOfKey(view, key))[i],
                              over |-> slot.digest]
    BY <1>4, <2>1, <2>2, <2>3
  <2>5. DOMAIN slot.sigs # {}
    BY <2>2, <2>3
  <2> QED BY <1>4, <2>3, <2>4, <2>5 DEF SlotOK
<1>9. \A k \in DOMAIN new : SlotOK(k, new[k])
  <2> HIDE DEF new, slot, r, key
  <2> QED BY <1>2, <1>3, <1>8 DEF SlotsOK
<1> HIDE DEF new
<1>10. SlotsOK(new)
  BY <1>6, <1>7, <1>9 DEF SlotsOK
<1> QED BY <1>1, <1>10

(* The slots Submit works on, after its two clean-ups. *)
LEMMA OpenSlots ==
    ASSUME NEW s, SlotsOK(s)
    PROVE  LET open == DropObsolete(Prune(s))
           IN  /\ SlotsOK(Prune(s)) /\ SlotsOK(open)
               /\ \A k \in DOMAIN open : Current(view, k, open[k])
               /\ DOMAIN open \subseteq DOMAIN s
               /\ \A k \in DOMAIN open : open[k] = s[k]
               /\ \A k \in DOMAIN s :
                     /\ Current(view, k, s[k])
                     /\ k[2] > view.state.finalized.height
                     => k \in DOMAIN open /\ k \in DOMAIN Prune(s)
               /\ \A k \in DOMAIN Prune(s) : Prune(s)[k] = s[k]
<1> DEFINE K == {k \in DOMAIN s : k[2] > view.state.finalized.height}
           p == Prune(s)
           L == {k \in DOMAIN p : Current(view, k, p[k])}
           open == DropObsolete(p)
<1>1. p = Restrict(s, K) /\ DOMAIN p = K /\ \A k \in K : p[k] = s[k]
  BY DEF Prune, Restrict
<1>2. open = Restrict(p, L) /\ DOMAIN open = L /\ \A k \in L : open[k] = p[k]
  BY DEF DropObsolete, Restrict
<1>3. SlotsOK(p)
  BY <1>1, FewerSlots
<1>4. SlotsOK(open)
  <2> HIDE DEF p
  <2>1. L \subseteq DOMAIN p
    OBVIOUS
  <2> HIDE DEF L
  <2> QED BY <1>2, <1>3, <2>1, FewerSlots
<1> QED BY <1>1, <1>2, <1>3, <1>4

(* An empty pool satisfies it. *)
LEMMA NoSlots == SlotsOK(<<>>)
<1>1. DOMAIN <<>> = {}
  OBVIOUS
<1>2. IsFiniteSet({}) /\ Cardinality({}) = 0
  BY FS_EmptySet
<1> QED BY <1>1, <1>2, PoolAssumption DEF SlotsOK

(* Every step of the pool keeps the invariant. *)
LEMMA PoolStep ==
    ASSUME PoolInv, [Next]_vars
    PROVE  PoolInv'
<1> USE DEF PoolInv
<1>1. ASSUME NEW m \in Messages, SubmitInadmissible(m) PROVE PoolInv'
  <2>1. SlotsOK(Prune(slots))
    BY OpenSlots
  <2>2. SlotsOK(slots')
    BY <1>1, <2>1 DEF SubmitInadmissible
  <2> QED BY <1>1, <2>2 DEF SubmitInadmissible, SlotsOK
<1>2. ASSUME NEW m \in Messages, SubmitNotStored(m) PROVE PoolInv'
  <2>1. SlotsOK(DropObsolete(Prune(slots)))
    BY OpenSlots
  <2>2. SlotsOK(slots')
    BY <1>2, <2>1 DEF SubmitNotStored
  <2> QED BY <1>2, <2>2 DEF SubmitNotStored, SlotsOK
<1>3. ASSUME NEW m \in Messages, SubmitAccepted(m) PROVE PoolInv'
  <2> DEFINE s == DropObsolete(Prune(slots))
  <2>1. SlotsOK(s) /\ \A k \in DOMAIN s : Current(view, k, s[k])
    BY OpenSlots
  <2>2. /\ Admissible(view, m) /\ Verifies(view, m)
        /\ slots' = Store(MakeRoom(s, m), m)
        /\ view' = view /\ restarts' = restarts
    BY <1>3 DEF SubmitAccepted
  <2>3. SlotsOK(slots')
    <3> HIDE DEF s
    <3> QED BY <2>1, <2>2, StoreKeeps
  <2> QED BY <2>2, <2>3
<1>4. CASE ChangeView
  BY <1>4 DEF ChangeView
<1>5. CASE Restart
  BY <1>5, NoSlots, PoolAssumption DEF Restart
<1>6. CASE UNCHANGED vars
  BY <1>6 DEF vars
<1> QED BY <1>1, <1>2, <1>3, <1>4, <1>5, <1>6 DEF Next

(* The invariant holds of every run: each slot the pool ever holds was filled
   on a view that commits to its object, and the pool keeps its bound. *)
THEOREM PoolInvariant == Spec => []PoolInv
<1>1. Init => PoolInv
  BY NoSlots, PoolAssumption DEF Init, PoolInv
<1>2. PoolInv /\ [Next]_vars => PoolInv'
  BY PoolStep
<1> QED BY <1>1, <1>2, PTL DEF Spec

(* Spec => []TypeOK: in particular the pool never holds more than
   MAX_TRACKED_CHECKPOINTS slots, and each slot's digest names its key. *)
THEOREM TypeCorrect == Spec => []TypeOK
<1>1. PoolInv => TypeOK
  <2> SUFFICES ASSUME PoolInv PROVE TypeOK
    OBVIOUS
  <2>1. ASSUME NEW k \in DOMAIN slots
        PROVE  /\ DOMAIN slots[k].sigs # {}
               /\ slots[k].digest.epoch = k[1] /\ slots[k].digest.height = k[2]
    <3>1. PICK w \in Views : /\ slots[k].digest = Expected(w, k)
                             /\ DOMAIN slots[k].sigs # {}
      BY DEF PoolInv, SlotsOK, SlotOK
    <3> QED BY <3>1 DEF Expected, ExpectedFinalizedBlock
  <2> QED BY <2>1 DEF PoolInv, SlotsOK, TypeOK
<1> QED BY <1>1, PoolInvariant, PTL

(* The signatures of a slot the view derives verify there. *)
LEMMA SlotVerifies ==
    ASSUME PoolInv, NEW k \in DOMAIN slots, Current(view, k, slots[k]),
           SetOfKey(view, k) # NoSet, NEW i \in DOMAIN slots[k].sigs
    PROVE  /\ i \in DOMAIN MemberOrder(SetOfKey(view, k))
           /\ EpochAt(view, k[2]) = k[1]
           /\ slots[k].sigs[i] = [by |-> MemberOrder(SetOfKey(view, k))[i],
                                  over |-> Expected(view, k)]
           /\ k = <<k[1], k[2]>>
<1>1. SlotOK(k, slots[k]) /\ view \in Views /\ k \in Nat \X Nat
  BY DEF PoolInv, SlotsOK
<1>2. k = <<k[1], k[2]>>
  BY <1>1
<1> QED BY <1>1, <1>2, SlotOfView

(* What the pool lists for its peers verifies on the node's view. *)
LEMMA PoolReplaysAccepted ==
    ASSUME PoolInv
    PROVE  RelayAccepted
<1> SUFFICES ASSUME NEW m \in RelayableSignatures(view, slots)
             PROVE  Admissible(view, m) /\ Verifies(view, m)
  BY DEF RelayAccepted
<1>1. PICK k \in VerifiedCheckpoints(view, slots) :
        \E i \in DOMAIN slots[k].sigs \cap DOMAIN MemberOrder(SetOfKey(view, k)) :
           m = [epoch |-> k[1], height |-> k[2], index |-> i,
                signature |-> slots[k].sigs[i]]
  BY DEF RelayableSignatures
<1>2. PICK i \in DOMAIN slots[k].sigs \cap DOMAIN MemberOrder(SetOfKey(view, k)) :
           m = [epoch |-> k[1], height |-> k[2], index |-> i,
                signature |-> slots[k].sigs[i]]
  BY <1>1
<1>3. /\ k \in DOMAIN slots /\ Signable(view, k) /\ Current(view, k, slots[k])
      /\ SetOfKey(view, k) # NoSet
  BY <1>1 DEF VerifiedCheckpoints, Signable
<1>4. k = <<k[1], k[2]>> /\ slots[k].sigs[i]
         = [by |-> MemberOrder(SetOfKey(view, k))[i], over |-> Expected(view, k)]
  BY <1>2, <1>3, SlotVerifies
<1>5. Key(m) = k /\ m.index = i /\ m.signature = slots[k].sigs[i]
      /\ m.epoch = k[1] /\ m.height = k[2]
  BY <1>2, <1>4 DEF Key
<1>6. Admissible(view, m)
  BY <1>2, <1>3, <1>5 DEF Admissible, Current
<1>7. Verifies(view, m)
  BY <1>4, <1>5 DEF Verifies
<1> QED BY <1>6, <1>7

(* Replays are useful, on every run: whatever view the node has moved to,
   a peer on that view accepts every vote it replays. *)
THEOREM ReplaysAccepted == Spec => []RelayAccepted
<1>1. PoolInv => RelayAccepted
  BY PoolReplaysAccepted
<1> QED BY <1>1, PoolInvariant, PTL

(* "Verification-ready", on every run: a certificate the pool assembles has
   both quorums in the set in force on the node's present view, and each of
   its signatures is by the member at its index over the object it names. *)
THEOREM CertificatesVerify == Spec => []BestVerifies
<1>1. PoolInv => BestVerifies
  <2> SUFFICES ASSUME PoolInv, NEW k \in BestCertificate(view, slots)
               PROVE  LET set == SetOfKey(view, k)
                          successor == SuccessorHashForEpoch(view.state, k[1])
                      IN  /\ VerifyFinalityCertificate(
                                [signers |-> SlotSigners(view, k, slots[k]),
                                 successor |-> successor], set, successor)
                          /\ EpochAt(view, k[2]) = k[1]
                          /\ \A i \in DOMAIN slots[k].sigs :
                                Verifies(view, [epoch |-> k[1], height |-> k[2],
                                                index |-> i,
                                                signature |-> slots[k].sigs[i]])
    BY DEF BestVerifies
  <2> DEFINE set == SetOfKey(view, k)
             members == MemberOrder(set)
             signers == SlotSigners(view, k, slots[k])
  <2>1. /\ k \in DOMAIN slots /\ set # NoSet /\ Current(view, k, slots[k])
        /\ SignedWeight(set, signers) >= QuorumWeight(set)
        /\ Cardinality(signers) >= FinalityHeadcountQuorum(set)
    BY DEF BestCertificate, Certifiable
  <2>2. \A i \in DOMAIN slots[k].sigs :
           /\ i \in DOMAIN members /\ EpochAt(view, k[2]) = k[1]
           /\ slots[k].sigs[i] = [by |-> members[i], over |-> Expected(view, k)]
           /\ k = <<k[1], k[2]>>
    BY <2>1, SlotVerifies
  <2>3. PICK j : j \in DOMAIN slots[k].sigs
    BY <2>1 DEF PoolInv, SlotsOK, SlotOK
  <2>4. members \in Seq(Members(set))
    BY SelectLists, PoolAssumption DEF MemberOrder
  <2>5. signers = {members[i] : i \in DOMAIN slots[k].sigs \cap DOMAIN members}
    BY DEF SlotSigners
  <2>6. \A i \in DOMAIN members : members[i] \in Members(set)
    <3> HIDE DEF members
    <3> QED BY <2>4
  <2>7. signers \subseteq Members(set) /\ members[j] \in signers
    <3> HIDE DEF members, signers
    <3> QED BY <2>2, <2>3, <2>5, <2>6
  <2>8. VerifyFinalityCertificate([signers |-> signers,
                successor |-> SuccessorHashForEpoch(view.state, k[1])],
                set, SuccessorHashForEpoch(view.state, k[1]))
    <3> HIDE DEF members, signers, set
    <3> QED BY <2>1, <2>7 DEF VerifyFinalityCertificate
  <2>9. ASSUME NEW i \in DOMAIN slots[k].sigs
        PROVE  Verifies(view, [epoch |-> k[1], height |-> k[2], index |-> i,
                               signature |-> slots[k].sigs[i]])
    <3> DEFINE m == [epoch |-> k[1], height |-> k[2], index |-> i,
                     signature |-> slots[k].sigs[i]]
    <3>1. Key(m) = k /\ m.index = i /\ m.signature = slots[k].sigs[i]
      BY <2>2 DEF Key
    <3> HIDE DEF m
    <3>2. Verifies(view, m)
      BY <2>2, <3>1 DEF Verifies
    <3> QED BY <3>2 DEF m
  <2> QED BY <2>2, <2>3, <2>8, <2>9
<1> QED BY <1>1, PoolInvariant, PTL

\* The pool is full of checkpoints newer than this one.
Outrun(s, k) ==
    Cardinality(DOMAIN s) = MaxTracked /\ \A l \in DOMAIN s : Newer(l, k)

(* What storing a vote does: its slot holds it, every other slot stays as it
   was or gives way to newer ones, and what was outrun stays outrun. *)
LEMMA StoreEffect ==
    ASSUME NEW s, SlotsOK(s), NEW m, Key(m) \in Nat \X Nat, ~PoolFull(s, m)
    PROVE  LET new == Store(MakeRoom(s, m), m)
           IN  /\ Key(m) \in DOMAIN new
               /\ m.index \in DOMAIN new[Key(m)].sigs
               /\ new[Key(m)].digest = Expected(view, Key(m))
               /\ \A l \in DOMAIN new : l # Key(m) =>
                     l \in DOMAIN s /\ new[l] = s[l]
               /\ \A k \in DOMAIN s :
                     \/ /\ k \in DOMAIN new
                        /\ DOMAIN s[k].sigs \subseteq DOMAIN new[k].sigs
                     \/ Outrun(new, k)
               /\ \A k \in Nat \X Nat : Outrun(s, k) => Outrun(new, k)
<1> DEFINE r == MakeRoom(s, m)
           key == Key(m)
           sigs == IF key \in DOMAIN r THEN r[key].sigs ELSE <<>>
           slot == [digest |-> Expected(view, key),
                    sigs |-> Put(sigs, m.index, m.signature)]
           new == Store(r, m)
<1>1. /\ DOMAIN slot.sigs = DOMAIN sigs \cup {m.index}
      /\ slot.digest = Expected(view, key)
  BY DEF Put
<1>2. new = Put(r, key, slot)
  BY DEF Store
<1>3. /\ DOMAIN s \subseteq Nat \X Nat /\ IsFiniteSet(DOMAIN s)
      /\ Cardinality(DOMAIN s) \in Nat /\ MaxTracked \in Nat \ {0}
      /\ Cardinality(DOMAIN s) <= MaxTracked
  BY FS_CardinalityType, PoolAssumption DEF SlotsOK
<1> HIDE DEF slot, new
<1>4. /\ DOMAIN new = DOMAIN r \cup {key} /\ new[key] = slot
      /\ \A l \in DOMAIN r : l # key => new[l] = r[l]
  <2> HIDE DEF r, key
  <2> QED BY <1>2 DEF Put
<1>5. \A l \in DOMAIN r : DOMAIN r[l].sigs \subseteq DOMAIN new[l].sigs
  BY <1>1, <1>4
<1>6. CASE ~EvictOldest(s, m)
  <2>1. r = s
    BY <1>6 DEF MakeRoom
  <2>2. \A k : Outrun(s, k) => Outrun(new, k)
    <3> SUFFICES ASSUME NEW k, Outrun(s, k) PROVE Outrun(new, k)
      OBVIOUS
    <3>1. key \in DOMAIN s
      BY <1>3, <1>6 DEF Outrun, EvictOldest
    <3>2. DOMAIN new = DOMAIN s
      BY <1>4, <2>1, <3>1
    <3> QED BY <3>2 DEF Outrun
  <2> QED BY <1>1, <1>4, <1>5, <2>1, <2>2 DEF new
<1>7. CASE EvictOldest(s, m)
  <2> DEFINE old == Oldest(s)
  <2>1. DOMAIN r = DOMAIN s \ {old} /\ \A l \in DOMAIN r : r[l] = s[l]
    BY <1>7 DEF MakeRoom, Restrict
  <2>2. /\ Cardinality(DOMAIN s) = MaxTracked /\ key \notin DOMAIN s
        /\ Newer(key, old)
    BY <1>3, <1>7 DEF EvictOldest, PoolFull
  <2>3. DOMAIN s # {}
    BY <1>3, <2>2, FS_EmptySet
  <2>4. old \in DOMAIN s /\ \A l \in DOMAIN s : ~Newer(old, l)
    BY <1>3, <2>3, OldestExists
  <2> HIDE DEF old
  <2>5. \A l \in DOMAIN s : l # old => Newer(l, old)
    BY <1>3, <2>4 DEF Newer
  <2>6. \A l \in DOMAIN new : Newer(l, old)
    BY <1>4, <2>1, <2>2, <2>5
  <2>7. IsFiniteSet(DOMAIN r) /\ Cardinality(DOMAIN r) = MaxTracked - 1
        /\ key \notin DOMAIN r
    BY <1>3, <2>1, <2>2, <2>4, FS_RemoveElement
  <2>8. Cardinality(DOMAIN new) = MaxTracked
    <3>1. Cardinality(DOMAIN r \cup {key}) = Cardinality(DOMAIN r) + 1
      <4> HIDE DEF r, key
      <4> QED BY <2>7, FS_AddElement
    <3> QED BY <1>3, <1>4, <2>7, <3>1
  <2>9. Outrun(new, old)
    BY <2>6, <2>8 DEF Outrun
  <2>10. ASSUME NEW k \in DOMAIN s
         PROVE  \/ /\ k \in DOMAIN new
                   /\ DOMAIN s[k].sigs \subseteq DOMAIN new[k].sigs
                \/ Outrun(new, k)
    <3>1. CASE k = old
      BY <2>9, <3>1
    <3>2. CASE k # old
      <4>1. k \in DOMAIN r /\ r[k] = s[k]
        BY <2>1, <3>2
      <4> QED BY <1>4, <1>5, <4>1
    <3> QED BY <3>1, <3>2
  <2>11. ASSUME NEW k \in Nat \X Nat, Outrun(s, k) PROVE Outrun(new, k)
    <3>1. \A l \in DOMAIN s : Newer(l, k)
      BY <2>11 DEF Outrun
    <3>2. Newer(old, k) /\ Newer(key, old) /\ old \in Nat \X Nat
      BY <1>3, <2>2, <2>4, <3>1
    <3>3. Newer(key, k)
      <4> HIDE DEF key
      <4>1. key \in Nat \X Nat
        BY DEF key
      <4> QED BY <3>2, <4>1 DEF Newer
    <3> QED BY <1>4, <2>1, <2>8, <3>1, <3>3 DEF Outrun
  <2>12. \A l \in DOMAIN new : l # key => l \in DOMAIN s /\ new[l] = s[l]
    BY <1>4, <2>1
  <2> QED BY <1>1, <1>4, <2>10, <2>11, <2>12 DEF new
<1> QED BY <1>6, <1>7

(* "An old replay cannot evict newer work", on every run: verified votes for
   an open checkpoint are only dropped when the pool is full, oldest first,
   and only for a newer checkpoint. *)
THEOREM WorkIsKept == Spec => VerifiedWorkKept
<1> DEFINE Kept ==
       restarts' = restarts =>
           \A k \in DOMAIN slots : Live(k) =>
               \/ /\ k \in DOMAIN slots'
                  /\ DOMAIN slots[k].sigs \subseteq DOMAIN slots'[k].sigs
               \/ /\ Cardinality(DOMAIN slots') = MaxTracked
                  /\ \A l \in DOMAIN slots' : Newer(l, k)
<1>1. PoolInv /\ [Next]_vars => [Kept]_vars
  <2> SUFFICES ASSUME PoolInv, Next, restarts' = restarts,
                      NEW k \in DOMAIN slots, Live(k)
               PROVE  \/ /\ k \in DOMAIN slots'
                         /\ DOMAIN slots[k].sigs \subseteq DOMAIN slots'[k].sigs
                      \/ /\ Cardinality(DOMAIN slots') = MaxTracked
                         /\ \A l \in DOMAIN slots' : Newer(l, k)
    OBVIOUS
  <2>0. /\ k \in DOMAIN Prune(slots) /\ Prune(slots)[k] = slots[k]
        /\ LET open == DropObsolete(Prune(slots))
           IN  k \in DOMAIN open /\ open[k] = slots[k]
    BY OpenSlots DEF Live, PoolInv
  <2>1. CASE \E m \in Messages : SubmitInadmissible(m)
    BY <2>0, <2>1 DEF SubmitInadmissible
  <2>2. CASE \E m \in Messages : SubmitNotStored(m)
    BY <2>0, <2>2 DEF SubmitNotStored
  <2>3. CASE \E m \in Messages : SubmitAccepted(m)
    <3>1. PICK m \in Messages : SubmitAccepted(m)
      BY <2>3
    <3> DEFINE s == DropObsolete(Prune(slots))
    <3>2. /\ Signable(view, Key(m)) /\ ~PoolFull(s, m)
          /\ slots' = Store(MakeRoom(s, m), m)
      BY <3>1 DEF SubmitAccepted, Admissible
    <3>3. SlotsOK(s) /\ k \in DOMAIN s /\ s[k] = slots[k]
      BY <2>0, OpenSlots DEF PoolInv
    <3>4. Key(m) \in Nat \X Nat
      BY <3>2, KeyType DEF PoolInv
    <3> HIDE DEF s
    <3> QED BY <3>2, <3>3, <3>4, StoreEffect DEF Outrun
  <2>4. CASE ChangeView
    BY <2>4 DEF ChangeView
  <2>5. ~Restart
    BY PoolAssumption DEF Restart, PoolInv
  <2> QED BY <2>1, <2>2, <2>3, <2>4, <2>5 DEF Next
<1> QED BY <1>1, PoolInvariant, PTL DEF Spec, VerifiedWorkKept

-----------------------------------------------------------------------------
(* The transport: the accounting of its holding area.                      *)

\* The entries of an area that name a peer.
Named(p, area) ==
    {m \in DOMAIN area :
        \E i \in DOMAIN area[m].sources : area[m].sources[i] = p}

\* QuotaExact of an area and its counts, with the types it rests on.
AreaOK(area, counts) ==
    /\ IsFiniteSet(DOMAIN area) /\ Cardinality(DOMAIN area) <= MaxEntries
    /\ counts \in [Peers -> Nat]
    /\ \A p \in Peers : /\ counts[p] = Cardinality(Named(p, area))
                        /\ counts[p] <= MaxPeerEntries
    /\ \A m \in DOMAIN area : /\ area[m].sources \in Seq(Peers)
                              /\ Len(area[m].sources) \in 1..MaxSources
                              /\ IsInjective(area[m].sources)

QuotaInv == peers \subseteq Peers /\ AreaOK(pending, peer_counts)

(* A peer's entries are among the entries. *)
LEMMA NamedFinite ==
    ASSUME NEW area, IsFiniteSet(DOMAIN area), NEW p
    PROVE  IsFiniteSet(Named(p, area)) /\ Cardinality(Named(p, area)) \in Nat
<1>1. Named(p, area) \subseteq DOMAIN area
  BY DEF Named
<1> QED BY <1>1, FS_Subset, FS_CardinalityType

(* A peer that joins an entry it did not name is counted once more. *)
LEMMA JoinKeeps ==
    ASSUME QuotaInv, NEW m \in DOMAIN pending, NEW p \in Peers,
           HasRoom(p, pending[m]),
           NEW area, NEW counts, DOMAIN area = DOMAIN pending,
           \A n \in DOMAIN pending \ {m} : area[n].sources = pending[n].sources,
           area[m].sources = Append(pending[m].sources, p),
           counts = [peer_counts EXCEPT ![p] = @ + 1]
    PROVE  AreaOK(area, counts)
<1> DEFINE old == pending[m].sources
           new == area[m].sources
<1>1. /\ old \in Seq(Peers) /\ Len(old) \in 1..MaxSources /\ IsInjective(old)
      /\ \A i \in DOMAIN old : old[i] # p
      /\ Len(old) < MaxSources /\ peer_counts[p] < MaxPeerEntries
      /\ peer_counts \in [Peers -> Nat] /\ IsFiniteSet(DOMAIN pending)
      /\ MaxSources \in Nat /\ MaxPeerEntries \in Nat
  BY TransportAssumption DEF QuotaInv, AreaOK, HasRoom
<1>2. /\ new \in Seq(Peers) /\ Len(new) = Len(old) + 1
      /\ DOMAIN new = 1..(Len(old) + 1) /\ DOMAIN old = 1..Len(old)
      /\ new[Len(old) + 1] = p /\ \A i \in 1..Len(old) : new[i] = old[i]
      /\ Len(old) \in Nat
  <2> HIDE DEF old
  <2>1. new = Append(old, p)
    BY DEF old
  <2> HIDE DEF new
  <2> QED BY <1>1, <2>1
<1> HIDE DEF new, old
<1>3. Len(new) \in 1..MaxSources
  BY <1>1, <1>2
<1>4. IsInjective(new)
  <2> SUFFICES ASSUME NEW a \in DOMAIN new, NEW b \in DOMAIN new, new[a] = new[b]
               PROVE  a = b
    BY DEF IsInjective
  <2>1. /\ a \in 1..Len(old) \/ a = Len(old) + 1
        /\ b \in 1..Len(old) \/ b = Len(old) + 1
    BY <1>2
  <2> QED BY <1>1, <1>2, <2>1 DEF IsInjective
<1>5. \A n \in DOMAIN area : /\ area[n].sources \in Seq(Peers)
                             /\ Len(area[n].sources) \in 1..MaxSources
                             /\ IsInjective(area[n].sources)
  <2> SUFFICES ASSUME NEW n \in DOMAIN area
               PROVE  /\ area[n].sources \in Seq(Peers)
                      /\ Len(area[n].sources) \in 1..MaxSources
                      /\ IsInjective(area[n].sources)
    OBVIOUS
  <2>1. CASE n = m
    BY <1>2, <1>3, <1>4, <2>1 DEF new
  <2>2. CASE n # m
    BY <2>2 DEF QuotaInv, AreaOK
  <2> QED BY <2>1, <2>2
<1>6. ASSUME NEW q \in Peers
      PROVE  counts[q] = Cardinality(Named(q, area)) /\ counts[q] <= MaxPeerEntries
  <2>0. peer_counts[q] = Cardinality(Named(q, pending))
        /\ peer_counts[q] <= MaxPeerEntries
    BY DEF QuotaInv, AreaOK
  <2>1. CASE q = p
    <3>1. m \notin Named(p, pending)
      BY <1>1 DEF Named, old
    <3>2. m \in Named(p, area)
      BY <1>2 DEF Named, new
    <3>3. Named(p, area) = Named(p, pending) \cup {m}
      BY <3>2 DEF Named
    <3>4. Cardinality(Named(p, area)) = Cardinality(Named(p, pending)) + 1
      BY <1>1, <3>1, <3>3, NamedFinite, FS_AddElement
    <3> QED BY <1>1, <2>0, <2>1, <3>4
  <2>2. CASE q # p
    <3>1. (\E i \in DOMAIN new : new[i] = q) <=> (\E i \in DOMAIN old : old[i] = q)
      <4>1. ASSUME NEW i \in DOMAIN new, new[i] = q
            PROVE  \E j \in DOMAIN old : old[j] = q
        BY <1>2, <2>2, <4>1
      <4>2. ASSUME NEW i \in DOMAIN old, old[i] = q
            PROVE  \E j \in DOMAIN new : new[j] = q
        <5>1. i \in DOMAIN new
          BY <1>2
        <5> QED BY <1>2, <4>2, <5>1
      <4> QED BY <4>1, <4>2
    <3>2. Named(q, area) = Named(q, pending)
      BY <3>1 DEF Named, new, old
    <3> QED BY <1>1, <2>0, <2>2, <3>2
  <2> QED BY <2>1, <2>2
<1> QED BY <1>1, <1>5, <1>6, SMTT(30) DEF QuotaInv, AreaOK

(* A new entry is counted once, for the peer that sent it. *)
LEMMA NewEntryKeeps ==
    ASSUME QuotaInv, NEW m, m \notin DOMAIN pending, NEW p \in Peers, NEW digest,
           Cardinality(DOMAIN pending) < MaxEntries,
           peer_counts[p] < MaxPeerEntries,
           NEW area, NEW counts,
           area = Put(pending, m, [digest |-> digest, sources |-> <<p>>]),
           counts = [peer_counts EXCEPT ![p] = @ + 1]
    PROVE  AreaOK(area, counts)
<1>1. /\ peer_counts \in [Peers -> Nat] /\ IsFiniteSet(DOMAIN pending)
      /\ {MaxSources, MaxPeerEntries, MaxEntries} \subseteq Nat \ {0}
      /\ Cardinality(DOMAIN pending) \in Nat
  BY TransportAssumption, FS_CardinalityType DEF QuotaInv, AreaOK
<1>2. /\ DOMAIN area = DOMAIN pending \cup {m} /\ area[m].sources = <<p>>
      /\ \A n \in DOMAIN pending : area[n] = pending[n]
  BY DEF Put
<1>3. IsFiniteSet(DOMAIN area) /\ Cardinality(DOMAIN area) <= MaxEntries
  <2>1. /\ IsFiniteSet(DOMAIN pending \cup {m})
        /\ Cardinality(DOMAIN pending \cup {m}) = Cardinality(DOMAIN pending) + 1
    BY <1>1, FS_AddElement
  <2> QED BY <1>1, <1>2, <2>1
<1>4. \A n \in DOMAIN area : /\ area[n].sources \in Seq(Peers)
                             /\ Len(area[n].sources) \in 1..MaxSources
                             /\ IsInjective(area[n].sources)
  <2>1. /\ <<p>> \in Seq(Peers) /\ Len(<<p>>) \in 1..MaxSources
        /\ IsInjective(<<p>>)
    BY <1>1 DEF IsInjective
  <2> QED BY <1>2, <2>1 DEF QuotaInv, AreaOK
<1>5. ASSUME NEW q \in Peers
      PROVE  counts[q] = Cardinality(Named(q, area)) /\ counts[q] <= MaxPeerEntries
  <2>0. peer_counts[q] = Cardinality(Named(q, pending))
        /\ peer_counts[q] <= MaxPeerEntries
    BY DEF QuotaInv, AreaOK
  <2>1. CASE q = p
    <3>1. 1 \in DOMAIN area[m].sources /\ area[m].sources[1] = p
      BY <1>2
    <3>2. Named(p, area) = Named(p, pending) \cup {m}
      BY <1>2, <3>1 DEF Named
    <3>3. m \notin Named(p, pending)
      BY DEF Named
    <3>4. Cardinality(Named(p, area)) = Cardinality(Named(p, pending)) + 1
      BY <1>1, <3>2, <3>3, NamedFinite, FS_AddElement
    <3> QED BY <1>1, <2>0, <2>1, <3>4
  <2>2. CASE q # p
    <3>1. \A i \in DOMAIN area[m].sources : area[m].sources[i] # q
      BY <1>2, <2>2
    <3>2. Named(q, area) = Named(q, pending)
      BY <1>2, <3>1 DEF Named
    <3> QED BY <1>1, <2>0, <2>2, <3>2
  <2> QED BY <2>1, <2>2
<1>6. counts \in [Peers -> Nat]
  BY <1>1
<1> QED BY <1>3, <1>4, <1>5, <1>6 DEF AreaOK

(* PendingFinalitySignatures::Add. *)
LEMMA AddKeeps ==
    ASSUME QuotaInv, NEW m, NEW p \in Peers, NEW digest, Add(m, p, digest)
    PROVE  AreaOK(pending', peer_counts')
<1>1. CASE m \in DOMAIN pending
  <2> DEFINE old == pending[m]
             conflict == old.digest # {} /\ digest # {} /\ old.digest # digest
             joins == ~conflict /\ HasRoom(p, old)
             bound == IF old.digest = {} THEN digest ELSE old.digest
  <2>1. /\ pending' = [pending EXCEPT ![m] =
               [digest |-> bound,
                sources |-> IF joins THEN Append(@.sources, p) ELSE @.sources]]
        /\ peer_counts' = IF joins THEN [peer_counts EXCEPT ![p] = @ + 1]
                                   ELSE peer_counts
    BY <1>1 DEF Add
  <2>2. DOMAIN pending' = DOMAIN pending
        /\ \A n \in DOMAIN pending \ {m} : pending'[n].sources = pending[n].sources
    BY <2>1
  <2>3. CASE joins
    <3>1. /\ pending'[m].sources = Append(pending[m].sources, p)
          /\ peer_counts' = [peer_counts EXCEPT ![p] = @ + 1]
      BY <1>1, <2>1, <2>3
    <3> QED BY <1>1, <2>2, <2>3, <3>1, JoinKeeps
  <2>4. CASE ~joins
    <3>1. /\ pending'[m].sources = pending[m].sources
          /\ peer_counts' = peer_counts
      BY <1>1, <2>1, <2>4
    <3>2. \A n \in DOMAIN pending : pending'[n].sources = pending[n].sources
      BY <2>2, <3>1
    <3>3. \A q : Named(q, pending') = Named(q, pending)
      BY <2>2, <3>2 DEF Named
    <3> QED BY <2>2, <3>1, <3>2, <3>3 DEF QuotaInv, AreaOK
  <2> QED BY <2>3, <2>4
<1>2. CASE m \notin DOMAIN pending
  <2>1. CASE Cardinality(DOMAIN pending) >= MaxEntries
               \/ peer_counts[p] >= MaxPeerEntries
    <3>1. pending' = pending /\ peer_counts' = peer_counts
      BY <1>2, <2>1 DEF Add, held
    <3> QED BY <3>1 DEF QuotaInv
  <2>2. CASE ~(Cardinality(DOMAIN pending) >= MaxEntries
               \/ peer_counts[p] >= MaxPeerEntries)
    <3>1. /\ pending' = Put(pending, m, [digest |-> digest, sources |-> <<p>>])
          /\ peer_counts' = [peer_counts EXCEPT ![p] = @ + 1]
      BY <1>2, <2>2 DEF Add
    <3>2. /\ Cardinality(DOMAIN pending) \in Nat /\ peer_counts[p] \in Nat
          /\ MaxEntries \in Nat /\ MaxPeerEntries \in Nat
      BY TransportAssumption, FS_CardinalityType DEF QuotaInv, AreaOK
    <3>3. Cardinality(DOMAIN pending) < MaxEntries
          /\ peer_counts[p] < MaxPeerEntries
      BY <2>2, <3>2
    <3> QED BY <1>2, <3>1, <3>3, NewEntryKeeps
  <2> QED BY <2>1, <2>2
<1> QED BY <1>1, <1>2

(* Connected keeps the sources that are still there. *)
LEMMA ConnectedSources ==
    ASSUME QuotaInv, NEW m \in DOMAIN pending
    PROVE  LET some == Connected(pending[m])
               all == pending[m].sources
           IN  /\ some \in Seq(Peers) /\ Len(some) <= Len(all)
               /\ IsInjective(some)
               /\ \A p \in Peers : (\E i \in DOMAIN some : some[i] = p)
                     <=> p \in peers /\ \E i \in DOMAIN all : all[i] = p
<1> DEFINE all == pending[m].sources
           some == Select(all, peers)
<1>1. all \in Seq(Peers) /\ IsInjective(all) /\ peers \subseteq Peers
  BY DEF QuotaInv, AreaOK
<1>2. some \in Seq(peers) /\ Selects(some, all, Len(all), peers)
  <2> HIDE DEF all
  <2> QED BY <1>1, SelectLists
<1>3. some \in Seq(Peers) /\ \A i \in DOMAIN some : some[i] \in peers
  <2> HIDE DEF some
  <2> QED BY <1>1, <1>2
<1>4. DOMAIN all = 1..Len(all)
  BY <1>1
<1>5. Len(some) <= Len(all) /\ IsInjective(some)
  BY <1>1, <1>2 DEF Selects
<1>6. ASSUME NEW p \in Peers
      PROVE  (\E i \in DOMAIN some : some[i] = p)
                <=> p \in peers /\ \E i \in DOMAIN all : all[i] = p
  <2> HIDE DEF some, all
  <2> QED BY <1>2, <1>3, <1>4 DEF Selects
<1> QED BY <1>3, <1>5, <1>6 DEF Connected

(* A pass keeps the accounts: whatever entries it keeps, the counts go down
   by the erased entries and by the sources that have gone. *)
LEMMA PassKeeps ==
    ASSUME QuotaInv, NEW kept, kept \subseteq DOMAIN pending,
           \A m \in kept : Connected(pending[m]) # <<>>
    PROVE  AreaOK([m \in kept |-> Refreshed(m)], Discount(kept))
<1> DEFINE area == [m \in kept |-> Refreshed(m)]
           counts == Discount(kept)
           gone == DOMAIN pending \ kept
<1>1. /\ DOMAIN area = kept
      /\ \A m \in kept : area[m].sources = Connected(pending[m])
  BY DEF Refreshed
<1>2. /\ IsFiniteSet(DOMAIN pending) /\ Cardinality(DOMAIN pending) <= MaxEntries
      /\ MaxEntries \in Nat /\ MaxPeerEntries \in Nat /\ MaxSources \in Nat
  BY TransportAssumption DEF QuotaInv, AreaOK
<1>3. IsFiniteSet(kept) /\ Cardinality(kept) <= MaxEntries
  <2>1. /\ IsFiniteSet(kept) /\ Cardinality(kept) <= Cardinality(DOMAIN pending)
        /\ Cardinality(kept) \in Nat /\ Cardinality(DOMAIN pending) \in Nat
    BY <1>2, FS_Subset, FS_CardinalityType
  <2> QED BY <1>2, <2>1
<1>4. ASSUME NEW m \in kept
      PROVE  /\ area[m].sources \in Seq(Peers)
             /\ Len(area[m].sources) \in 1..MaxSources
             /\ IsInjective(area[m].sources)
  <2> DEFINE some == Connected(pending[m])
             all == pending[m].sources
  <2>1. /\ some \in Seq(Peers) /\ Len(some) <= Len(all) /\ IsInjective(some)
    BY <1>4, ConnectedSources
  <2>2. all \in Seq(Peers) /\ Len(all) \in 1..MaxSources
    BY <1>4 DEF QuotaInv, AreaOK
  <2>3. some # <<>>
    BY <1>4
  <2> HIDE DEF some, all
  <2>4. Len(some) \in 1..MaxSources
    BY <1>2, <2>1, <2>2, <2>3
  <2> QED BY <1>1, <2>1, <2>4 DEF some
<1> HIDE DEF area
<1>5. ASSUME NEW p \in Peers
      PROVE  /\ counts[p] \in Nat /\ counts[p] <= MaxPeerEntries
             /\ counts[p] = Cardinality(Named(p, area))
  <2> DEFINE lost == Named(p, Restrict(pending, gone))
             stay == Named(p, Restrict(pending, kept))
  <2>1. /\ lost = {m \in gone : \E i \in DOMAIN pending[m].sources :
                                   pending[m].sources[i] = p}
        /\ stay = {m \in kept : \E i \in DOMAIN pending[m].sources :
                                   pending[m].sources[i] = p}
    BY DEF Named, Restrict
  <2>2. /\ Named(p, pending) = lost \cup stay /\ lost \cap stay = {}
        /\ IsFiniteSet(lost) /\ IsFiniteSet(stay)
    <3>1. Named(p, pending) = lost \cup stay /\ lost \cap stay = {}
      BY <2>1 DEF Named
    <3>2. IsFiniteSet(Named(p, pending))
      BY <1>2, NamedFinite
    <3> HIDE DEF lost, stay
    <3> QED BY <3>1, <3>2, FS_Subset
  <2> HIDE DEF lost, stay
  <2>3. /\ Cardinality(lost) \in Nat /\ Cardinality(stay) \in Nat
        /\ Cardinality(Named(p, pending)) = Cardinality(lost) + Cardinality(stay)
    <3>1. Cardinality(lost) \in Nat /\ Cardinality(stay) \in Nat
      BY <2>2, FS_CardinalityType
    <3>2. Cardinality(lost \cup stay)
             = Cardinality(lost) + Cardinality(stay) - Cardinality(lost \cap stay)
      BY <2>2, FS_Union
    <3>3. Cardinality(lost \cap stay) = 0
      BY <2>2, FS_EmptySet
    <3> QED BY <2>2, <3>1, <3>2, <3>3
  <2>4. peer_counts[p] = Cardinality(lost) + Cardinality(stay)
        /\ peer_counts[p] <= MaxPeerEntries
    BY <2>3 DEF QuotaInv, AreaOK
  <2>5. counts[p] = peer_counts[p] - Cardinality(lost)
                       - (IF p \in peers THEN 0 ELSE Cardinality(stay))
    BY DEF Discount, NamedBy, Named, lost, stay
  <2>6. \A m \in kept : (\E i \in DOMAIN area[m].sources : area[m].sources[i] = p)
           <=> p \in peers /\ \E i \in DOMAIN pending[m].sources :
                                 pending[m].sources[i] = p
    BY <1>1, ConnectedSources
  <2>7. CASE p \in peers
    <3>1. Named(p, area) = stay
      BY <1>1, <2>1, <2>6, <2>7 DEF Named
    <3> QED BY <1>2, <2>3, <2>4, <2>5, <2>7, <3>1
  <2>8. CASE p \notin peers
    <3>1. Named(p, area) = {}
      BY <1>1, <2>6, <2>8 DEF Named
    <3> QED BY <1>2, <2>3, <2>4, <2>5, <2>8, <3>1, FS_EmptySet
  <2> QED BY <2>7, <2>8
<1>6. counts \in [Peers -> Nat]
  <2>1. counts = [p \in Peers |-> counts[p]]
    BY DEF Discount
  <2> HIDE DEF counts
  <2> QED BY <1>5, <2>1
<1> HIDE DEF counts
<1>7. AreaOK(area, counts)
  BY <1>1, <1>3, <1>4, <1>5, <1>6 DEF AreaOK
<1> QED BY <1>7 DEF area, counts

(* The accounting holds of every run. *)
THEOREM QuotaInvariant == TransportSpec => []QuotaInv
<1>1. TransportInit => QuotaInv
  <2> SUFFICES ASSUME TransportInit PROVE QuotaInv
    OBVIOUS
  <2>1. DOMAIN pending = {} /\ peers = Peers /\ peer_counts = [p \in Peers |-> 0]
    BY DEF TransportInit
  <2>2. \A p : Named(p, pending) = {}
    BY <2>1 DEF Named
  <2>3. IsFiniteSet({}) /\ Cardinality({}) = 0
    BY FS_EmptySet
  <2> QED BY <2>1, <2>2, <2>3, TransportAssumption, SMTT(30) DEF QuotaInv, AreaOK
<1>2. QuotaInv /\ [TransportNext]_tvars => QuotaInv'
  <2> SUFFICES ASSUME QuotaInv, [TransportNext]_tvars PROVE QuotaInv'
    OBVIOUS
  <2>0. ASSUME UNCHANGED held, peers' \subseteq peers PROVE QuotaInv'
    <3>1. pending' = pending /\ peer_counts' = peer_counts
      BY <2>0 DEF held
    <3>2. AreaOK(pending', peer_counts')
      BY <3>1 DEF QuotaInv
    <3> QED BY <2>0, <3>2 DEF QuotaInv
  <2>1. ASSUME NEW p \in Peers, NEW m \in Messages,
               ReceiveEarly(p, m) \/ ReceiveDeferred(p, m)
        PROVE  QuotaInv'
    <3>1. Add(m, p, Digest(m)) /\ peers' = peers
      BY <2>1 DEF ReceiveEarly, ReceiveDeferred, Receive
    <3>2. AreaOK(pending', peer_counts')
      BY <3>1, AddKeeps
    <3> QED BY <3>1, <3>2 DEF QuotaInv
  <2>2. ASSUME NEW p \in Peers, NEW m \in Messages,
               ReceiveAccepted(p, m) \/ ReceiveRefused(p, m)
        PROVE  QuotaInv'
    BY <2>0, <2>2 DEF ReceiveAccepted, ReceiveRefused, Receive
  <2>3. ASSUME NEW old, NEW batch, Lapse(old), Take(old, batch) PROVE QuotaInv'
    <3> DEFINE kept == Remaining(old, Erased(batch))
    <3>1. /\ pending' = [m \in kept |-> Refreshed(m)]
          /\ peer_counts' = Discount(kept) /\ peers' = peers
      BY <2>3 DEF Take, Lapse
    <3>2. kept \subseteq DOMAIN pending /\ \A m \in kept : Connected(pending[m]) # <<>>
      BY DEF Remaining
    <3>3. AreaOK(pending', peer_counts')
      <4> HIDE DEF kept
      <4> QED BY <3>1, <3>2, PassKeeps
    <3> QED BY <3>1, <3>3 DEF QuotaInv
  <2>4. CASE Retry \/ RetryTaking
    BY <2>3, <2>4 DEF Retry, RetryTaking
  <2>5. CASE \E p \in Peers : Disconnect(p)
    BY <2>0, <2>5 DEF Disconnect, held
  <2>6. CASE MoveView
    BY <2>0, <2>6 DEF MoveView, held
  <2>7. CASE UNCHANGED tvars
    BY <2>0, <2>7 DEF tvars, held
  <2> QED BY <2>1, <2>2, <2>4, <2>5, <2>6, <2>7 DEF TransportNext
<1> QED BY <1>1, <1>2, PTL DEF TransportSpec

(* RemoveSource never takes a count below one: on every run each peer's count
   is exact and within its quota, and no entry lists a source twice. *)
THEOREM QuotasHold == TransportSpec => []QuotaExact
<1>1. QuotaInv => QuotaExact
  BY DEF QuotaInv, AreaOK, QuotaExact, NamedBy, Named
<1> QED BY <1>1, QuotaInvariant, PTL

-----------------------------------------------------------------------------
(* A batch is submitted vote by vote.                                      *)

\* The loop of SubmittedAll, up to the first n votes.
IsSubmission(f, s, batch, n) ==
    f = [i \in 0..n |-> IF i = 0 THEN s ELSE Submitted(f[i - 1], batch[i])]

(* The loop computes the slots after each vote from those before it. *)
LEMMA SubmissionExists ==
    ASSUME NEW s, NEW X, NEW batch \in Seq(X)
    PROVE  \E f : IsSubmission(f, s, batch, Len(batch))
<1> DEFINE N == Len(batch)
           T == {n \in 0..N : \E g : IsSubmission(g, s, batch, n)}
<1>0. N \in Int /\ 0 \in Int /\ 0 <= N
  OBVIOUS
<1>1. 0 \in T
  <2> DEFINE g == [i \in 0..0 |-> s]
  <2>1. g = [i \in 0..0 |-> IF i = 0 THEN s ELSE Submitted(g[i - 1], batch[i])]
    OBVIOUS
  <2>2. IsSubmission(g, s, batch, 0)
    BY <2>1 DEF IsSubmission
  <2> QED BY <1>0, <2>2
<1>2. ASSUME NEW n \in 0..N, n # 0, n - 1 \in T PROVE n \in T
  <2>1. PICK g : IsSubmission(g, s, batch, n - 1)
    BY <1>2
  <2> DEFINE h == [i \in 0..n |-> IF i = n THEN Submitted(g[n - 1], batch[n])
                                           ELSE g[i]]
             val(i) == IF i = 0 THEN s ELSE Submitted(h[i - 1], batch[i])
  <2>2. n \in Nat /\ n - 1 \in Nat
    BY <1>0, <1>2
  <2>3. ASSUME NEW i \in 0..n PROVE h[i] = val(i)
    <3>1. CASE i = n
      <4>1. h[n - 1] = g[n - 1]
        BY <2>2
      <4> QED BY <1>2, <3>1, <4>1
    <3>2. CASE i # n
      <4>1. i \in 0..(n - 1) /\ (i # 0 => i - 1 \in 0..n /\ i - 1 # n)
        BY <2>2, <3>2
      <4>2. g[i] = IF i = 0 THEN s ELSE Submitted(g[i - 1], batch[i])
        BY <2>1, <4>1 DEF IsSubmission
      <4>3. h[i] = g[i] /\ (i # 0 => h[i - 1] = g[i - 1])
        BY <3>2, <4>1
      <4> QED BY <4>2, <4>3
    <3> QED BY <3>1, <3>2
  <2>4. h = [i \in 0..n |-> val(i)]
    <3>1. h = [i \in 0..n |-> h[i]]
      OBVIOUS
    <3> HIDE DEF h
    <3> QED BY <2>3, <3>1
  <2>5. IsSubmission(h, s, batch, n)
    BY <2>4 DEF IsSubmission
  <2> HIDE DEF h
  <2> QED BY <2>5
<1>3. \A n \in 0..N : n # 0 /\ n - 1 \in T => n \in T
  BY <1>2
<1>4. \A n \in 0..N : n \in T
  <2> HIDE DEF T, N
  <2> QED BY <1>0, <1>1, <1>3, InductionUpTo
<1>5. N \in T
  BY <1>0, <1>4
<1> QED BY <1>5

(* Submit keeps the pool's invariant. *)
LEMMA SubmittedKeeps ==
    ASSUME view \in Views, NEW s, SlotsOK(s), NEW m
    PROVE  SlotsOK(Submitted(s, m))
<1> DEFINE open == DropObsolete(Prune(s))
<1>1. /\ SlotsOK(Prune(s)) /\ SlotsOK(open)
      /\ \A k \in DOMAIN open : Current(view, k, open[k])
  BY OpenSlots
<1> HIDE DEF open
<1>2. Admissible(view, m) /\ Verifies(view, m) => SlotsOK(Store(MakeRoom(open, m), m))
  BY <1>1, StoreKeeps
<1> QED BY <1>1, <1>2 DEF Submitted, open

(* So does a batch, after each of its votes. *)
LEMMA BatchKeepsSlots ==
    ASSUME view \in Views, NEW s, SlotsOK(s), NEW X, NEW batch \in Seq(X),
           NEW f, IsSubmission(f, s, batch, Len(batch))
    PROVE  \A n \in 0..Len(batch) : SlotsOK(f[n])
<1> DEFINE N == Len(batch)
           T == {n \in 0..N : SlotsOK(f[n])}
<1>0. N \in Int /\ 0 \in Int /\ 0 <= N
  OBVIOUS
<1>1. 0 \in T
  <2>1. f[0] = s
    BY <1>0 DEF IsSubmission
  <2>2. SlotsOK(f[0])
    BY <2>1
  <2> QED BY <1>0, <2>2
<1>2. ASSUME NEW n \in 0..N, n # 0, n - 1 \in T PROVE n \in T
  <2>1. f[n] = Submitted(f[n - 1], batch[n])
    BY <1>2 DEF IsSubmission
  <2>2. SlotsOK(f[n - 1])
    BY <1>2
  <2>3. SlotsOK(f[n])
    BY <2>1, <2>2, SubmittedKeeps
  <2> QED BY <2>3
<1>3. \A n \in 0..N : n # 0 /\ n - 1 \in T => n \in T
  BY <1>2
<1>4. \A n \in 0..N : n \in T
  <2> HIDE DEF T, N
  <2> QED BY <1>0, <1>1, <1>3, InductionUpTo
<1> QED BY <1>4

(* The slots after a batch are those after its last vote. *)
LEMMA SubmittedAllRuns ==
    ASSUME view \in Views, NEW s, SlotsOK(s), NEW X, NEW batch \in Seq(X)
    PROVE  \E f : /\ IsSubmission(f, s, batch, Len(batch))
                  /\ SubmittedAll(s, batch) = f[Len(batch)]
                  /\ \A n \in 0..Len(batch) : SlotsOK(f[n])
<1> DEFINE f == CHOOSE g : IsSubmission(g, s, batch, Len(batch))
<1>1. IsSubmission(f, s, batch, Len(batch))
  BY SubmissionExists
<1>2. SubmittedAll(s, batch) = f[Len(batch)]
  BY DEF SubmittedAll, IsSubmission
<1> HIDE DEF f
<1>3. \A n \in 0..Len(batch) : SlotsOK(f[n])
  BY <1>1, BatchKeepsSlots
<1> QED BY <1>1, <1>2, <1>3

(* A batch is a list of ready entries. *)
LEMMA BatchIsList ==
    ASSUME QuotaInv, NEW old, NEW batch \in Batches(ReadyEntries(old))
    PROVE  /\ batch \in Seq(DOMAIN pending)
           /\ \A n \in DOMAIN batch : DepthReady(batch[n])
<1> DEFINE ready == ReadyEntries(old)
<1>1. ready \subseteq DOMAIN pending /\ \A m \in ready : DepthReady(m)
  BY DEF ReadyEntries, Remaining
<1>2. PICK S \in SUBSET ready : batch \in SetToSeqs(S)
  BY DEF Batches, SetToAllKPermutations
<1> HIDE DEF ready
<1>3. IsFiniteSet(S) /\ Cardinality(S) \in Nat
  BY <1>1, <1>2, FS_Subset, FS_CardinalityType DEF QuotaInv, AreaOK
<1>4. batch \in [1..Cardinality(S) -> S]
  BY <1>2 DEF SetToSeqs
<1>5. batch \in Seq(S)
  BY <1>3, <1>4
<1> QED BY <1>1, <1>2, <1>4, <1>5

\* Both halves of the invariant: the accounts, and the pool behind them.
TransportInv == QuotaInv /\ PoolInv

(* The pool keeps its invariant when votes reach it from the holding area. *)
THEOREM TransportInvariant == TransportSpec => []TransportInv
<1>1. TransportInit => PoolInv
  BY NoSlots, PoolAssumption DEF TransportInit, Init, PoolInv
<1>2. PoolInv /\ QuotaInv /\ [TransportNext]_tvars => PoolInv'
  <2> SUFFICES ASSUME PoolInv, QuotaInv, [TransportNext]_tvars PROVE PoolInv'
    OBVIOUS
  <2>1. ASSUME [Next]_vars PROVE PoolInv'
    BY <2>1, PoolStep
  <2>2. CASE \E p \in Peers, m \in Messages :
                \/ ReceiveAccepted(p, m) \/ ReceiveEarly(p, m)
                \/ ReceiveDeferred(p, m) \/ ReceiveRefused(p, m)
    BY <2>1, <2>2 DEF ReceiveAccepted, ReceiveEarly, ReceiveDeferred,
                      ReceiveRefused, Next
  <2>3. ASSUME NEW old, NEW batch \in Seq(DOMAIN pending),
               Lapse(old), Take(old, batch)
        PROVE  PoolInv'
    <3>1. slots' = SubmittedAll(slots, batch) /\ view' = view /\ restarts' = restarts
      BY <2>3 DEF Take, Lapse
    <3>2. PICK f : /\ SubmittedAll(slots, batch) = f[Len(batch)]
                   /\ \A n \in 0..Len(batch) : SlotsOK(f[n])
      BY SubmittedAllRuns DEF PoolInv
    <3>3. SlotsOK(slots')
      BY <3>1, <3>2
    <3> QED BY <3>1, <3>3 DEF PoolInv
  <2>4. CASE Retry
    <3>1. <<>> \in Seq(DOMAIN pending)
      OBVIOUS
    <3> QED BY <2>3, <2>4, <3>1 DEF Retry
  <2>5. CASE RetryTaking
    BY <2>3, <2>5, BatchIsList DEF RetryTaking
  <2>6. CASE \E p \in Peers : Disconnect(p)
    BY <2>1, <2>6 DEF Disconnect
  <2>7. CASE MoveView
    BY <2>1, <2>7 DEF MoveView, Next
  <2>8. CASE UNCHANGED tvars
    BY <2>1, <2>8 DEF tvars
  <2> QED BY <2>2, <2>4, <2>5, <2>6, <2>7, <2>8 DEF TransportNext
<1> QED BY <1>1, <1>2, QuotaInvariant, PTL DEF TransportSpec, TransportInv

(* A peer on the same view accepts every replayed vote also when votes have
   waited in the holding area, across reorganisations. *)
THEOREM ReplaysAcceptedAfterWaiting == TransportSpec => []RelayAccepted
<1>1. TransportInv => RelayAccepted
  BY PoolReplaysAccepted DEF TransportInv
<1> QED BY <1>1, TransportInvariant, PTL

-----------------------------------------------------------------------------
(* What becomes of a waiting vote.                                         *)

\* Only slots the view still works on.
AllOpen(s) ==
    \A k \in DOMAIN s : Current(view, k, s[k]) /\ k[2] > view.state.finalized.height

\* The vote is in the pool, or the pool is full of newer checkpoints.
Settled(s, m) == AllOpen(s) /\ (Known(s, m) \/ Outrun(s, Key(m)))

(* Outrun is what Submit calls a full pool. *)
LEMMA OutrunIsFull ==
    ASSUME NEW s, SlotsOK(s), NEW m, Key(m) \in Nat \X Nat
    PROVE  PoolFull(s, m) <=> Outrun(s, Key(m))
<1> DEFINE key == Key(m)
           old == Oldest(s)
<1>1. /\ DOMAIN s \subseteq Nat \X Nat /\ IsFiniteSet(DOMAIN s)
      /\ Cardinality(DOMAIN s) \in Nat /\ MaxTracked \in Nat \ {0}
      /\ Cardinality(DOMAIN s) <= MaxTracked
  BY FS_CardinalityType, PoolAssumption DEF SlotsOK
<1>2. ASSUME Cardinality(DOMAIN s) = MaxTracked
      PROVE  old \in DOMAIN s /\ \A l \in DOMAIN s : ~Newer(old, l)
  <2>1. DOMAIN s # {}
    BY <1>1, <1>2, FS_EmptySet
  <2> QED BY <1>1, <2>1, OldestExists
<1>3. ASSUME PoolFull(s, m) PROVE Outrun(s, key)
  <2>1. /\ key \notin DOMAIN s /\ Cardinality(DOMAIN s) = MaxTracked
        /\ ~Newer(key, old)
    BY <1>1, <1>3 DEF PoolFull, EvictOldest
  <2>2. old \in Nat \X Nat /\ key \in Nat \X Nat /\ old # key
    BY <1>1, <1>2, <2>1
  <2> HIDE DEF old, key
  <2>3. ASSUME NEW l \in DOMAIN s PROVE Newer(l, key)
    <3>1. l \in Nat \X Nat /\ ~Newer(old, l)
      BY <1>1, <1>2, <2>1
    <3>2. l[1] \in Nat /\ l[2] \in Nat /\ old[1] \in Nat /\ old[2] \in Nat
          /\ key[1] \in Nat /\ key[2] \in Nat
          /\ (old[1] # key[1] \/ old[2] # key[2])
      BY <2>2, <3>1
    <3> QED BY <2>1, <3>1, <3>2 DEF Newer
  <2> QED BY <2>1, <2>3 DEF Outrun
<1>4. ASSUME Outrun(s, key) PROVE PoolFull(s, m)
  <2>1. Cardinality(DOMAIN s) = MaxTracked /\ \A l \in DOMAIN s : Newer(l, key)
    BY <1>4 DEF Outrun
  <2>2. old \in DOMAIN s /\ Newer(old, key) /\ old \in Nat \X Nat
    BY <1>1, <1>2, <2>1
  <2>3. key[1] \in Nat /\ key[2] \in Nat
    OBVIOUS
  <2> HIDE DEF old, key
  <2>4. key \notin DOMAIN s
    BY <2>1, <2>3 DEF Newer
  <2>5. ~Newer(key, old)
    BY <2>2, <2>3 DEF Newer
  <2> QED BY <1>1, <2>1, <2>4, <2>5 DEF PoolFull, EvictOldest, old, key
<1> QED BY <1>3, <1>4

(* Submitting a vote that counts settles it. *)
LEMMA SubmitSettles ==
    ASSUME view \in Views, NEW s, SlotsOK(s), NEW m, Counts(m)
    PROVE  Settled(Submitted(s, m), m)
<1> DEFINE open == DropObsolete(Prune(s))
           new == Store(MakeRoom(open, m), m)
<1>1. SlotsOK(open) /\ AllOpen(open)
  <2>1. /\ SlotsOK(open) /\ \A k \in DOMAIN open : Current(view, k, open[k])
    BY OpenSlots
  <2>2. \A k \in DOMAIN open : k[2] > view.state.finalized.height
    BY DEF DropObsolete, Prune, Restrict
  <2> QED BY <2>1, <2>2 DEF AllOpen
<1>2. /\ Admissible(view, m) /\ Verifies(view, m) /\ Signable(view, Key(m))
      /\ Expectable(view, m.epoch, m.height)
  BY DEF Counts, Admissible
<1>3. Key(m) \in Nat \X Nat
  BY <1>2, KeyType
<1> HIDE DEF open
<1>4. CASE Known(open, m) \/ PoolFull(open, m)
  <2>1. Submitted(s, m) = open
    BY <1>2, <1>4 DEF Submitted, open
  <2> QED BY <1>1, <1>3, <1>4, <2>1, OutrunIsFull DEF Settled
<1>5. CASE ~Known(open, m) /\ ~PoolFull(open, m)
  <2>1. Submitted(s, m) = new
    BY <1>2, <1>5 DEF Submitted, open
  <2>2. /\ Key(m) \in DOMAIN new /\ m.index \in DOMAIN new[Key(m)].sigs
        /\ new[Key(m)].digest = Expected(view, Key(m))
        /\ \A l \in DOMAIN new : l # Key(m) => l \in DOMAIN open /\ new[l] = open[l]
    BY <1>1, <1>3, <1>5, StoreEffect
  <2> HIDE DEF new
  <2>3. Current(view, Key(m), new[Key(m)])
    BY <1>2, <2>2 DEF Current, Key
  <2>4. Key(m)[2] > view.state.finalized.height
    BY <1>2 DEF Signable
  <2>5. AllOpen(new)
    BY <1>1, <2>2, <2>3, <2>4 DEF AllOpen
  <2> QED BY <2>1, <2>2, <2>5 DEF Settled, Known
<1> QED BY <1>4, <1>5

(* No later vote of the batch unsettles it. *)
LEMMA StaysSettled ==
    ASSUME view \in Views, NEW s, SlotsOK(s), NEW m, Key(m) \in Nat \X Nat,
           Settled(s, m), NEW n
    PROVE  Settled(Submitted(s, n), m)
<1> DEFINE open == DropObsolete(Prune(s))
           new == Store(MakeRoom(open, n), n)
<1>1. /\ DOMAIN open = DOMAIN s /\ DOMAIN Prune(s) = DOMAIN s
      /\ \A k \in DOMAIN s : open[k] = s[k] /\ Prune(s)[k] = s[k]
      /\ SlotsOK(open)
  <2>1. \A k \in DOMAIN s : Current(view, k, s[k])
                            /\ k[2] > view.state.finalized.height
    BY DEF Settled, AllOpen
  <2>2. DOMAIN Prune(s) = DOMAIN s /\ \A k \in DOMAIN s : Prune(s)[k] = s[k]
    BY <2>1 DEF Prune, Restrict
  <2>3. DOMAIN open = DOMAIN s
    BY <2>1, <2>2 DEF DropObsolete, Restrict
  <2>4. SlotsOK(open) /\ \A k \in DOMAIN open : open[k] = s[k]
    BY OpenSlots
  <2> QED BY <2>2, <2>3, <2>4
<1>2. ASSUME NEW t, DOMAIN t = DOMAIN s, \A k \in DOMAIN s : t[k] = s[k]
      PROVE  Settled(t, m)
  BY <1>2 DEF Settled, AllOpen, Known, Outrun
<1>3. CASE ~Admissible(view, n)
  <2>1. Submitted(s, n) = Prune(s)
    BY <1>3 DEF Submitted
  <2> QED BY <1>1, <1>2, <2>1
<1>4. CASE Admissible(view, n)
           /\ (Known(open, n) \/ PoolFull(open, n) \/ ~Verifies(view, n))
  <2>1. Submitted(s, n) = open
    BY <1>4 DEF Submitted
  <2> HIDE DEF open
  <2> QED BY <1>1, <1>2, <2>1
<1>5. CASE Admissible(view, n)
           /\ ~(Known(open, n) \/ PoolFull(open, n) \/ ~Verifies(view, n))
  <2>1. Submitted(s, n) = new
    BY <1>5 DEF Submitted
  <2>2. /\ Signable(view, Key(n)) /\ Expectable(view, n.epoch, n.height)
        /\ ~PoolFull(open, n)
    BY <1>5 DEF Admissible
  <2>3. Key(n) \in Nat \X Nat
    BY <2>2, KeyType
  <2> HIDE DEF open
  <2>4. /\ Key(n) \in DOMAIN new
        /\ new[Key(n)].digest = Expected(view, Key(n))
        /\ \A l \in DOMAIN new : l # Key(n) => l \in DOMAIN open /\ new[l] = open[l]
        /\ \A k \in DOMAIN open :
              \/ /\ k \in DOMAIN new
                 /\ DOMAIN open[k].sigs \subseteq DOMAIN new[k].sigs
              \/ Outrun(new, k)
        /\ \A k \in Nat \X Nat : Outrun(open, k) => Outrun(new, k)
    BY <1>1, <2>2, <2>3, StoreEffect
  <2> HIDE DEF new
  <2>5. Settled(open, m)
    BY <1>1, <1>2
  <2>6. AllOpen(new)
    <3>1. Current(view, Key(n), new[Key(n)])
      BY <2>2, <2>4 DEF Current, Key
    <3>2. Key(n)[2] > view.state.finalized.height
      BY <2>2 DEF Signable
    <3> QED BY <2>4, <2>5, <3>1, <3>2 DEF AllOpen, Settled
  <2>7. Known(new, m) \/ Outrun(new, Key(m))
    BY <2>4, <2>5 DEF Settled, Known
  <2> QED BY <2>1, <2>6, <2>7 DEF Settled
<1> QED BY <1>3, <1>4, <1>5

(* A vote of the batch that counts is settled when the batch is through. *)
LEMMA BatchSettles ==
    ASSUME view \in Views, NEW s, SlotsOK(s), NEW X, NEW batch \in Seq(X),
           NEW b \in 1..Len(batch), Counts(batch[b])
    PROVE  /\ SlotsOK(SubmittedAll(s, batch))
           /\ Settled(SubmittedAll(s, batch), batch[b])
<1>1. PICK f : /\ IsSubmission(f, s, batch, Len(batch))
               /\ SubmittedAll(s, batch) = f[Len(batch)]
               /\ \A n \in 0..Len(batch) : SlotsOK(f[n])
  BY SubmittedAllRuns
<1> DEFINE N == Len(batch)
           m == batch[b]
           T == {n \in b..N : Settled(f[n], m)}
<1>0. N \in Int /\ b \in Int /\ b <= N /\ b \in Nat /\ N \in Nat
  OBVIOUS
<1>2. \A n \in b..N : /\ n - 1 \in 0..N /\ n \in 0..N
                      /\ f[n] = Submitted(f[n - 1], batch[n])
  <2> SUFFICES ASSUME NEW n \in b..N
               PROVE  /\ n - 1 \in 0..N /\ n \in 0..N
                      /\ f[n] = Submitted(f[n - 1], batch[n])
    OBVIOUS
  <2>1. n - 1 \in 0..N /\ n \in 0..N /\ n # 0
    BY <1>0
  <2> QED BY <1>1, <2>1 DEF IsSubmission
<1>3. Key(m) \in Nat \X Nat
  BY KeyType DEF Counts, Admissible
<1>4. b \in T
  <2>1. b \in b..N
    BY <1>0
  <2>2. f[b] = Submitted(f[b - 1], m) /\ SlotsOK(f[b - 1])
    BY <1>1, <1>2, <2>1
  <2>3. Settled(f[b], m)
    BY <2>2, SubmitSettles
  <2> QED BY <2>1, <2>3
<1>5. ASSUME NEW n \in b..N, n # b, n - 1 \in T PROVE n \in T
  <2>1. f[n] = Submitted(f[n - 1], batch[n]) /\ SlotsOK(f[n - 1])
    BY <1>1, <1>2
  <2>2. Settled(f[n - 1], m)
    BY <1>5
  <2>3. Settled(f[n], m)
    <3> HIDE DEF m
    <3> QED BY <1>3, <2>1, <2>2, StaysSettled
  <2> QED BY <2>3
<1>6. \A n \in b..N : n # b /\ n - 1 \in T => n \in T
  BY <1>5
<1>7. \A n \in b..N : n \in T
  <2> HIDE DEF T, N
  <2> QED BY <1>0, <1>4, <1>6, InductionUpTo
<1>8. N \in T /\ N \in 0..N
  BY <1>0, <1>7
<1> QED BY <1>1, <1>8

(* A genuine vote whose checkpoint is deep enough is one Submit accepts. *)
LEMMA GenuineCounts ==
    ASSUME view \in Views, NEW m, Genuine(m), DepthReady(m)
    PROVE  Counts(m)
<1>1. /\ m.height \in DOMAIN view.block /\ view.block \in Seq(Range(view.block))
  BY ViewsCommit DEF Genuine, Resolvable
<1>2. /\ m.height \in Nat /\ Len(view.block) \in Nat
      /\ CheckpointDepth \in Int /\ CheckpointDepth >= 0
  BY <1>1, ModernPosParamsValid
<1>3. CheckpointDepthSatisfied(m.height, Len(view.block), CheckpointDepth)
  BY <1>2 DEF DepthReady, CheckpointDepthSatisfied
<1>4. Key(m)[1] = m.epoch /\ Key(m)[2] = m.height
  BY DEF Key
<1>5. Signable(view, Key(m))
  BY <1>3, <1>4 DEF Signable, Genuine, Resolvable
<1> QED BY <1>5 DEF Counts, Genuine, Resolvable, Admissible

(* A pass drops a genuine vote only into the pool, or for a good reason. *)
LEMMA PassLosesNothing ==
    ASSUME PoolInv, NEW old, NEW batch \in Seq(DOMAIN pending),
           \A n \in DOMAIN batch : DepthReady(batch[n]),
           Lapse(old), Take(old, batch),
           NEW m \in DOMAIN pending \ DOMAIN pending', Genuine(m)
    PROVE  \/ m \in lapsed'
           \/ Connected(pending[m]) = <<>>
           \/ ~BoundHere(m)
           \/ Known(slots', m)
           \/ PoolFull(slots', m)
<1>1. /\ DOMAIN pending' = Remaining(old, Erased(batch))
      /\ slots' = SubmittedAll(slots, batch) /\ lapsed' = old
  BY DEF Take, Lapse
<1>2. \/ m \in old \/ m \in ToSet(batch)
      \/ Connected(pending[m]) = <<>> \/ Void(m)
  BY <1>1 DEF Remaining, Erased
<1>3. CASE Void(m)
  <2>1. Digest(m) = {Expected(view, Key(m))}
    BY DEF Digest, Genuine
  <2>2. pending[m].digest \notin {{}, {Expected(view, Key(m))}}
    BY <1>3, <2>1 DEF Void
  <2> QED BY <2>2 DEF BoundHere
<1>4. CASE m \in ToSet(batch)
  <2>1. PICK b \in DOMAIN batch : batch[b] = m
    BY <1>4 DEF ToSet
  <2>2. b \in 1..Len(batch) /\ DepthReady(m)
    BY <2>1
  <2>3. Counts(m)
    BY <2>2, GenuineCounts DEF PoolInv
  <2>4. SlotsOK(slots') /\ Settled(slots', m)
    BY <1>1, <2>1, <2>2, <2>3, BatchSettles DEF PoolInv
  <2>5. Key(m) \in Nat \X Nat
    BY <2>3, KeyType DEF Counts, Admissible, PoolInv
  <2>6. Known(slots', m) \/ Outrun(slots', Key(m))
    BY <2>4 DEF Settled
  <2> QED BY <2>4, <2>5, <2>6, OutrunIsFull
<1> QED BY <1>1, <1>2, <1>3, <1>4

(* "A missing block or temporarily unavailable derived state is not an
   invalidity verdict", on every run: a genuine vote leaves the holding area
   only into the pool, or because it lapsed, lost its last source, or was
   bound to a block of another branch, however the rest of its batch fares. *)
THEOREM WaitingVotesReachThePool == TransportSpec => NoGenuineVoteLost
<1> DEFINE NotLost ==
       \A m \in DOMAIN pending \ DOMAIN pending' : Genuine(m) =>
          \/ m \in lapsed'
          \/ Connected(pending[m]) = <<>>
          \/ ~BoundHere(m)
          \/ Known(slots', m)
          \/ PoolFull(slots', m)
<1>1. TransportInv /\ [TransportNext]_tvars => [NotLost]_tvars
  <2> SUFFICES ASSUME TransportInv, TransportNext,
                      NEW m \in DOMAIN pending \ DOMAIN pending', Genuine(m)
               PROVE  \/ m \in lapsed'
                      \/ Connected(pending[m]) = <<>>
                      \/ ~BoundHere(m)
                      \/ Known(slots', m)
                      \/ PoolFull(slots', m)
    OBVIOUS
  <2>1. ASSUME NEW n, NEW p, NEW digest, Add(n, p, digest)
        PROVE  DOMAIN pending \subseteq DOMAIN pending'
    <3>1. CASE n \in DOMAIN pending
      BY <2>1, <3>1 DEF Add
    <3>2. CASE n \notin DOMAIN pending
      BY <2>1, <3>2 DEF Add, Put, held
    <3> QED BY <3>1, <3>2
  <2>2. ASSUME NEW p \in Peers, NEW n \in Messages,
               \/ ReceiveAccepted(p, n) \/ ReceiveEarly(p, n)
               \/ ReceiveDeferred(p, n) \/ ReceiveRefused(p, n)
        PROVE  FALSE
    <3>1. DOMAIN pending \subseteq DOMAIN pending'
      BY <2>1, <2>2 DEF ReceiveAccepted, ReceiveEarly, ReceiveDeferred,
                        ReceiveRefused, held
    <3> QED BY <3>1
  <2>3. CASE Retry
    <3>1. <<>> \in Seq(DOMAIN pending) /\ \A n \in DOMAIN <<>> : FALSE
      OBVIOUS
    <3>2. PICK old : Lapse(old) /\ Take(old, <<>>)
      BY <2>3 DEF Retry
    <3> QED BY <3>1, <3>2, PassLosesNothing DEF TransportInv
  <2>4. CASE RetryTaking
    <3>1. PICK old : /\ Lapse(old)
                     /\ \E batch \in Batches(ReadyEntries(old)) : Take(old, batch)
      BY <2>4 DEF RetryTaking
    <3>2. PICK batch \in Batches(ReadyEntries(old)) : Take(old, batch)
      BY <3>1
    <3>3. batch \in Seq(DOMAIN pending) /\ \A n \in DOMAIN batch : DepthReady(batch[n])
      BY BatchIsList DEF TransportInv
    <3> QED BY <3>1, <3>2, <3>3, PassLosesNothing DEF TransportInv
  <2>5. CASE (\E p \in Peers : Disconnect(p)) \/ MoveView
    BY <2>5 DEF Disconnect, MoveView
  <2> QED BY <2>2, <2>3, <2>4, <2>5 DEF TransportNext
<1> QED BY <1>1, TransportInvariant, PTL DEF TransportSpec, NoGenuineVoteLost

-----------------------------------------------------------------------------
(* The replay to peers: an export is a list of the pool's votes.           *)

\* The votes that can be listed: told apart by their coordinates.
Listable(R) ==
    /\ \A m \in R : m.epoch \in Int /\ m.height \in Int /\ m.index \in Int
    /\ \A m, n \in R : Key(m) = Key(n) /\ m.index = n.index => m = n

(* Before orders them strictly and totally. *)
LEMMA BeforeOrders ==
    ASSUME NEW R, Listable(R), NEW m \in R, NEW n \in R
    PROVE  /\ m # n => Before(m, n) \/ Before(n, m)
           /\ \A l \in R : Before(m, n) /\ Before(n, l) => Before(m, l)
<1>1. \A a \in R : Key(a) = <<a.epoch, a.height>> /\ a.epoch \in Int
                      /\ a.height \in Int /\ a.index \in Int
  BY DEF Listable, Key
<1>2. \A a, b \in R : Before(a, b) <=>
         \/ a.epoch > b.epoch
         \/ a.epoch = b.epoch /\ a.height > b.height
         \/ a.epoch = b.epoch /\ a.height = b.height /\ a.index < b.index
  <2> SUFFICES ASSUME NEW a \in R, NEW b \in R
               PROVE  Before(a, b) <=>
                         \/ a.epoch > b.epoch
                         \/ a.epoch = b.epoch /\ a.height > b.height
                         \/ a.epoch = b.epoch /\ a.height = b.height /\ a.index < b.index
    OBVIOUS
  <2>1. Newer(Key(a), Key(b)) <=> \/ a.epoch > b.epoch
                                  \/ a.epoch = b.epoch /\ a.height > b.height
    BY <1>1 DEF Newer
  <2>2. Key(a) = Key(b) <=> a.epoch = b.epoch /\ a.height = b.height
    BY <1>1
  <2> QED BY <2>1, <2>2 DEF Before
<1>3. m # n => Before(m, n) \/ Before(n, m)
  <2> SUFFICES ASSUME ~Before(m, n), ~Before(n, m) PROVE m = n
    OBVIOUS
  <2>1. m.epoch = n.epoch /\ m.height = n.height /\ m.index = n.index
    BY <1>1, <1>2
  <2>2. Key(m) = Key(n)
    BY <2>1 DEF Key
  <2> QED BY <2>1, <2>2 DEF Listable
<1>4. ASSUME NEW l \in R, Before(m, n), Before(n, l) PROVE Before(m, l)
  BY <1>1, <1>2, <1>4
<1> QED BY <1>3, <1>4

\* x comes after all others of S.
IsLast(x, S) == x \in S /\ \A y \in S : y # x => Before(y, x)

(* A finite set of votes has a last one. *)
LEMMA LastExists ==
    ASSUME NEW R, Listable(R), NEW S \in SUBSET R, IsFiniteSet(S), S # {}
    PROVE  \E x : IsLast(x, S)
<1> DEFINE N == Cardinality(S)
           Has(Q) == Q # {} => \E x : IsLast(x, Q)
           T == {n \in 0..N : \A Q \in SUBSET S : Cardinality(Q) = n => Has(Q)}
<1>0. N \in Nat /\ 0 \in Int /\ N \in Int /\ N \in 0..N
  BY FS_CardinalityType
<1>1. \A Q \in SUBSET S : IsFiniteSet(Q) /\ Cardinality(Q) \in Nat
  BY FS_Subset, FS_CardinalityType
<1>2. 0 \in T
  <2>1. \A Q \in SUBSET S : Cardinality(Q) = 0 => Q = {}
    BY <1>1, FS_EmptySet
  <2> QED BY <1>0, <2>1
<1>3. ASSUME NEW n \in 0..N, n # 0, n - 1 \in T PROVE n \in T
  <2> SUFFICES ASSUME NEW Q \in SUBSET S, Cardinality(Q) = n, NEW q \in Q
               PROVE  \E x : IsLast(x, Q)
    OBVIOUS
  <2> DEFINE P == Q \ {q}
  <2>1. P \in SUBSET S /\ Cardinality(P) = n - 1
    BY <1>1, FS_RemoveElement
  <2>2. Has(P)
    BY <1>3, <2>1
  <2>3. CASE P = {}
    <3>1. IsLast(q, Q)
      BY <2>3 DEF IsLast
    <3> QED BY <3>1
  <2>4. CASE P # {}
    <3>1. PICK x : IsLast(x, P)
      BY <2>2, <2>4
    <3>2. x \in R /\ q \in R /\ x # q /\ x \in Q
      BY <3>1 DEF IsLast
    <3>3. CASE Before(q, x)
      <4>1. IsLast(x, Q)
        BY <3>1, <3>2, <3>3 DEF IsLast
      <4> QED BY <4>1
    <3>4. CASE Before(x, q)
      <4>1. ASSUME NEW y \in Q, y # q PROVE Before(y, q)
        <5>1. y = x \/ Before(y, x)
          BY <3>1, <4>1 DEF IsLast
        <5>2. y \in R
          OBVIOUS
        <5> QED BY <3>2, <3>4, <5>1, <5>2, BeforeOrders
      <4>2. IsLast(q, Q)
        BY <4>1 DEF IsLast
      <4> QED BY <4>2
    <3>5. Before(q, x) \/ Before(x, q)
      BY <3>2, BeforeOrders
    <3> QED BY <3>3, <3>4, <3>5
  <2> QED BY <2>3, <2>4
<1>4. N \in T
  <2>1. \A n \in 0..N : n # 0 /\ n - 1 \in T => n \in T
    BY <1>3
  <2> HIDE DEF T, N
  <2> QED BY <1>0, <1>2, <2>1, InductionUpTo
<1>5. S \in SUBSET S
  OBVIOUS
<1> QED BY <1>4, <1>5

\* A list of S in ascending order.
Lists(list, S) ==
    /\ list \in [1..Cardinality(S) -> S]
    /\ Ascending(list, Cardinality(S))

(* A finite set of votes can be listed. *)
LEMMA ListExists ==
    ASSUME NEW R, Listable(R), IsFiniteSet(R)
    PROVE  \E list : Lists(list, R)
<1> DEFINE N == Cardinality(R)
           Has(Q) == \E list : Lists(list, Q)
           T == {n \in 0..N : \A Q \in SUBSET R : Cardinality(Q) = n => Has(Q)}
<1>0. N \in Nat /\ 0 \in Int /\ N \in Int /\ N \in 0..N
  BY FS_CardinalityType
<1>1. \A Q \in SUBSET R : IsFiniteSet(Q) /\ Cardinality(Q) \in Nat
  BY FS_Subset, FS_CardinalityType
<1>2. 0 \in T
  <2> SUFFICES ASSUME NEW Q \in SUBSET R, Cardinality(Q) = 0 PROVE \E list : Lists(list, Q)
    BY <1>0
  <2> DEFINE list == [i \in 1..0 |-> CHOOSE x : x \in Q]
  <2>1. list \in [1..0 -> Q] /\ 1..0 = {}
    OBVIOUS
  <2> HIDE DEF list
  <2>2. Lists(list, Q)
    BY <2>1 DEF Lists, Ascending
  <2> QED BY <2>2
<1>3. ASSUME NEW n \in 0..N, n # 0, n - 1 \in T PROVE n \in T
  <2> SUFFICES ASSUME NEW Q \in SUBSET R, Cardinality(Q) = n PROVE \E list : Lists(list, Q)
    OBVIOUS
  <2>1. Q # {}
    BY <1>3, FS_EmptySet
  <2>2. PICK x : IsLast(x, Q)
    BY <1>1, <2>1, LastExists
  <2> DEFINE P == Q \ {x}
  <2>3. P \in SUBSET R /\ Cardinality(P) = n - 1
    BY <1>1, <2>2, FS_RemoveElement DEF IsLast
  <2>4. PICK list : Lists(list, P)
    BY <1>3, <2>3
  <2> DEFINE longer == [i \in 1..n |-> IF i = n THEN x ELSE list[i]]
  <2>5. n \in Nat /\ n - 1 \in Nat /\ \A i \in 1..n : i = n \/ i \in 1..(n - 1)
    BY <1>0, <1>3
  <2>6. /\ \A i \in 1..(n - 1) : list[i] \in P
        /\ \A i, j \in 1..(n - 1) : i < j => Before(list[i], list[j])
    BY <2>3, <2>4 DEF Lists, Ascending
  <2>7. x \in Q /\ \A y \in P : y \in Q /\ Before(y, x)
    BY <2>2 DEF IsLast
  <2> HIDE DEF P
  <2>8. longer \in [1..n -> Q]
    BY <2>5, <2>6, <2>7
  <2>9. ASSUME NEW i \in 1..n, NEW j \in 1..n, i < j PROVE Before(longer[i], longer[j])
    <3>1. i \in 1..(n - 1) /\ i # n /\ longer[i] = list[i]
      BY <2>5, <2>9
    <3>2. CASE j = n
      BY <2>6, <2>7, <3>1, <3>2
    <3>3. CASE j # n
      <4>1. j \in 1..(n - 1) /\ longer[j] = list[j]
        BY <2>5, <3>3
      <4> QED BY <2>6, <2>9, <3>1, <4>1
    <3> QED BY <3>2, <3>3
  <2> HIDE DEF longer
  <2>10. Lists(longer, Q)
    BY <2>8, <2>9 DEF Lists, Ascending
  <2> QED BY <2>10
<1>4. N \in T
  <2>1. \A n \in 0..N : n # 0 /\ n - 1 \in T => n \in T
    BY <1>3
  <2> HIDE DEF T, N
  <2> QED BY <1>0, <1>2, <2>1, InductionUpTo
<1>5. R \in SUBSET R
  OBVIOUS
<1> QED BY <1>4, <1>5

(* What the pool can replay is a finite set of votes told apart by their
   coordinates. *)
LEMMA RelayableFinite ==
    ASSUME PoolInv
    PROVE  /\ IsFiniteSet(RelayableSignatures(view, slots))
           /\ Listable(RelayableSignatures(view, slots))
<1> DEFINE R == RelayableSignatures(view, slots)
           Indices(k) == DOMAIN slots[k].sigs \cap DOMAIN MemberOrder(SetOfKey(view, k))
           Vote(k, i) == [epoch |-> k[1], height |-> k[2], index |-> i,
                          signature |-> slots[k].sigs[i]]
           K == VerifiedCheckpoints(view, slots)
           Q == {c \in K \X (1..Len(Order)) : c[2] \in Indices(c[1])}
           f == [c \in Q |-> Vote(c[1], c[2])]
<1>1. K \subseteq DOMAIN slots /\ IsFiniteSet(DOMAIN slots) /\ DOMAIN slots \subseteq Nat \X Nat
  BY DEF PoolInv, SlotsOK, VerifiedCheckpoints
<1>2. IsFiniteSet(K)
  BY <1>1, FS_Subset
<1>3. Len(Order) \in Nat
  BY PoolAssumption
<1>4. IsFiniteSet(1..Len(Order))
  BY <1>3, FS_Interval
<1>5. IsFiniteSet(K \X (1..Len(Order)))
  BY <1>2, <1>4, FS_Product
<1>6. IsFiniteSet(Q)
  BY <1>5, FS_Subset
<1>7. ASSUME NEW k \in K, NEW i \in Indices(k)
      PROVE  i \in 1..Len(Order) /\ <<k, i>> \in Q
  <2> DEFINE part == Select(Order, Members(SetOfKey(view, k)))
             U == Members(SetOfKey(view, k))
             X == Range(Order)
  <2>1. Order \in Seq(X)
    BY PoolAssumption
  <2>2. part \in Seq(U) /\ Selects(part, Order, Len(Order), U)
    <3> HIDE DEF U, X
    <3>1. Select(Order, U) \in Seq(U) /\ Selects(Select(Order, U), Order, Len(Order), U)
      BY <2>1, SelectLists
    <3> QED BY <3>1 DEF U
  <2>3. i \in DOMAIN part
    BY DEF MemberOrder
  <2> HIDE DEF part, U
  <2>4. Len(part) \in Nat /\ i \in 1..Len(part) /\ Len(part) <= Len(Order)
    BY <2>2, <2>3 DEF Selects
  <2>5. i \in 1..Len(Order)
    BY <1>3, <2>4
  <2> QED BY <2>5
<1>8. \A m \in R : \E k \in K : \E i \in Indices(k) : m = Vote(k, i)
  BY DEF RelayableSignatures
<1>9. \A k \in K : \A i \in Indices(k) : Vote(k, i) \in R
  BY DEF RelayableSignatures
<1>10. f \in Surjection(Q, R)
  <2>1. \A c \in Q : c[1] \in K /\ c[2] \in Indices(c[1])
    OBVIOUS
  <2> HIDE DEF R, K, Indices, Vote
  <2>2. f \in [Q -> R]
    BY <1>9, <2>1
  <2>3. ASSUME NEW m \in R PROVE \E c \in Q : f[c] = m
    <3>1. PICK k \in K : \E i \in Indices(k) : m = Vote(k, i)
      BY <1>8
    <3>2. PICK i \in Indices(k) : m = Vote(k, i)
      BY <3>1
    <3>3. <<k, i>> \in Q
      BY <1>7
    <3>4. f[<<k, i>>] = m
      BY <3>2, <3>3
    <3> QED BY <3>3, <3>4
  <2> HIDE DEF f, Q
  <2> QED BY <2>2, <2>3 DEF Surjection
<1>11. IsFiniteSet(R)
  <2> HIDE DEF R, f, Q
  <2> QED BY <1>6, <1>10, FS_Surjection
<1>12. Listable(R)
  <2>1. ASSUME NEW k \in K, NEW i \in Indices(k)
        PROVE  /\ Vote(k, i).epoch \in Int /\ Vote(k, i).height \in Int /\ Vote(k, i).index \in Int
               /\ Key(Vote(k, i)) = k /\ Vote(k, i).index = i
    <3>1. k \in Nat \X Nat
      BY <1>1
    <3>2. k = <<k[1], k[2]>> /\ k[1] \in Int /\ k[2] \in Int
      BY <3>1
    <3>3. i \in Int
      <4>1. i \in 1..Len(Order)
        <5> HIDE DEF K, Indices
        <5> QED BY <1>7
      <4> HIDE DEF K, Indices
      <4> QED BY <1>3, <4>1
    <3> QED BY <3>2, <3>3 DEF Key
  <2> HIDE DEF R, K, Indices, Vote
  <2>2. \A m \in R : m.epoch \in Int /\ m.height \in Int /\ m.index \in Int
    BY <1>8, <2>1
  <2>3. ASSUME NEW m \in R, NEW n \in R, Key(m) = Key(n), m.index = n.index PROVE m = n
    BY <1>8, <2>1, <2>3
  <2> QED BY <2>2, <2>3 DEF Listable
<1> QED BY <1>11, <1>12

(* The export lists votes the pool can replay. *)
LEMMA ExportLists ==
    ASSUME PoolInv
    PROVE  Export \in Seq(RelayableSignatures(view, slots))
<1> DEFINE R == RelayableSignatures(view, slots)
           n == Cardinality(R)
<1>1. IsFiniteSet(R) /\ Listable(R)
  BY RelayableFinite
<1> HIDE DEF R
<1>2. n \in Nat
  BY <1>1, FS_CardinalityType
<1>3. PICK list : Lists(list, R)
  BY <1>1, ListExists
<1>4. list \in [1..n -> R] /\ Ascending(list, n)
  BY <1>3 DEF Lists
<1>5. Export = CHOOSE s \in [1..n -> R] : Ascending(s, n)
  BY DEF Export, R
<1>6. Export \in [1..n -> R]
  BY <1>4, <1>5
<1> QED BY <1>2, <1>6 DEF R

-----------------------------------------------------------------------------
(* The relay: whose votes the shared export holds.                         *)

\* The votes of the export verify on the view with the export's tip.
CacheOK ==
    /\ cache \in Seq(Range(cache))
    /\ \A v \in Views : cache_tip = Tip(v) =>
          \A i \in DOMAIN cache : Admissible(v, cache[i]) /\ Verifies(v, cache[i])

RelayInv ==
    /\ PoolInv /\ CacheOK
    /\ offset \in [RelayPeers -> Nat] /\ DOMAIN replayed = RelayPeers

(* A renewed export is one of the view. *)
LEMMA RenewKeeps ==
    ASSUME PoolInv, Renew
    PROVE  CacheOK'
<1>1. view \in Views /\ RelayAccepted
  BY PoolReplaysAccepted DEF PoolInv
<1>2. cache' \in Seq(RelayableSignatures(view, slots)) /\ cache_tip' = Tip(view)
  BY ExportLists DEF Renew
<1>3. \A i \in DOMAIN cache' : /\ Admissible(view, cache'[i]) /\ Verifies(view, cache'[i])
  <2> DEFINE R == RelayableSignatures(view, slots)
  <2>1. \A m \in R : Admissible(view, m) /\ Verifies(view, m)
    BY <1>1 DEF RelayAccepted
  <2>2. cache' \in Seq(R)
    BY <1>2
  <2> HIDE DEF R
  <2>3. \A i \in DOMAIN cache' : cache'[i] \in R
    BY <2>2
  <2> QED BY <2>1, <2>3
<1>4. cache' \in Seq(Range(cache'))
  <2> DEFINE R == RelayableSignatures(view, slots)
             c == cache'
  <2>1. c \in Seq(R)
    BY <1>2
  <2> HIDE DEF R, c
  <2>2. c \in Seq(Range(c))
    BY <2>1 DEF Range
  <2> QED BY <2>2 DEF c
<1>5. \A v \in Views : cache_tip' = Tip(v) => v = view
  BY <1>1, <1>2, RelayAssumption
<1> QED BY <1>3, <1>4, <1>5 DEF CacheOK

(* A pass that has looked at the tip leaves an export of the view. *)
LEMMA PassRenews ==
    ASSUME RelayInv, NEW p \in RelayPeers, RelayRefreshing(p) \/ RelayCached(p)
    PROVE  /\ CacheOK' /\ cache_tip' = Tip(view) /\ view' = view
           /\ Replay(p, cache')
<1>1. Replay(p, cache') /\ view' = view
  BY DEF RelayRefreshing, RelayCached, Replay, vars
<1>2. CASE Renew
  BY <1>1, <1>2, RenewKeeps DEF RelayInv, Renew
<1>3. CASE ~Renew
  <2>1. ~TipMoved /\ UNCHANGED <<cache, cache_tip>>
    BY <1>3 DEF RelayRefreshing, RelayCached
  <2>2. CacheOK'
    BY <2>1 DEF RelayInv, CacheOK
  <2> QED BY <1>1, <2>1, <2>2 DEF TipMoved
<1> QED BY <1>2, <1>3

(* The cursor takes a part of the export, and stays a position in it. *)
LEMMA CursorTakes ==
    ASSUME RelayInv, NEW p \in RelayPeers, NEW X, NEW votes \in Seq(X), Replay(p, votes)
    PROVE  /\ offset' \in [RelayPeers -> Nat] /\ DOMAIN replayed' = RelayPeers
           /\ \A q \in RelayPeers : q # p => replayed'[q] = replayed[q]
           /\ \A m \in replayed'[p] : \E i \in DOMAIN votes : m = votes[i]
<1> DEFINE L == Len(votes)
           a == StartOf(p, L)
           b == EndOf(p, L)
           part == SubSeq(votes, a + 1, b)
<1>0. offset \in [RelayPeers -> Nat] /\ DOMAIN replayed = RelayPeers /\ L \in Nat
  BY DEF RelayInv
<1>1. a \in Nat /\ b \in Nat /\ b <= L
  BY <1>0, RelayAssumption DEF StartOf, EndOf
<1>2. /\ replayed' = [replayed EXCEPT ![p] = ToSet(part)]
      /\ offset' = [offset EXCEPT ![p] = IF b = L THEN 0 ELSE b]
  BY DEF Replay
<1>3. ASSUME NEW m \in ToSet(part) PROVE \E i \in DOMAIN votes : m = votes[i]
  <2> HIDE DEF a, b
  <2>1. PICK j \in DOMAIN part : m = part[j]
    BY DEF ToSet
  <2>2. j \in 1..(b - a) /\ part[j] = votes[a + j] /\ a + j \in 1..L
    <3>1. DOMAIN part = 1..(IF a + 1 <= b THEN b - a ELSE 0)
      BY <1>0, <1>1
    <3>2. j \in 1..(b - a) /\ a + 1 <= b
      BY <1>0, <1>1, <3>1
    <3>3. part[j] = votes[a + j]
      BY <1>0, <1>1, <3>2
    <3> QED BY <1>0, <1>1, <3>2, <3>3
  <2>3. a + j \in DOMAIN votes /\ m = votes[a + j]
    <3>1. DOMAIN votes = 1..L
      OBVIOUS
    <3> HIDE DEF part, L
    <3> QED BY <2>1, <2>2, <3>1
  <2> QED BY <2>3
<1> HIDE DEF part, a, b, L
<1>4. replayed'[p] = ToSet(part) /\ DOMAIN replayed' = RelayPeers
      /\ \A q \in RelayPeers : q # p => replayed'[q] = replayed[q]
  BY <1>0, <1>2
<1>5. offset' \in [RelayPeers -> Nat]
  BY <1>0, <1>1, <1>2
<1> QED BY <1>3, <1>4, <1>5

(* A step of the relay is a step of its pool, or none. *)
LEMMA RelayStepsPool ==
    ASSUME [RelayNext]_rvars
    PROVE  [Next]_vars
<1>1. ASSUME NEW m \in Messages, AcceptFromPeer(m) \/ RefuseFromPeer(m) PROVE Next
  BY <1>1 DEF AcceptFromPeer, RefuseFromPeer, Next
<1>2. ASSUME NEW m \in OwnVotes, Sign(m) PROVE [Next]_vars
  BY <1>2, RelayAssumption DEF Sign, Next
<1>3. ASSUME NEW p \in RelayPeers, RelayRefreshing(p) \/ RelayCached(p) \/ Reconnect(p)
      PROVE  UNCHANGED vars
  BY <1>3 DEF RelayRefreshing, RelayCached, Reconnect, Replay
<1>4. CASE ViewMoves
  BY <1>4 DEF ViewMoves, Next
<1>5. CASE UNCHANGED rvars
  BY <1>5 DEF rvars
<1> QED BY <1>1, <1>2, <1>3, <1>4, <1>5 DEF RelayNext

(* The invariant of the relay is kept by every step. *)
LEMMA RelayStep ==
    ASSUME RelayInv, [RelayNext]_rvars
    PROVE  RelayInv'
<1>1. PoolInv'
  BY RelayStepsPool, PoolStep DEF RelayInv
<1>2. ASSUME UNCHANGED relay PROVE RelayInv'
  BY <1>1, <1>2 DEF RelayInv, CacheOK, relay
<1>3. ASSUME NEW p \in RelayPeers, RelayRefreshing(p) \/ RelayCached(p) PROVE RelayInv'
  <2>1. CacheOK' /\ Replay(p, cache')
    BY <1>3, PassRenews
  <2> DEFINE c == cache'
             X == Range(c)
  <2>2. c \in Seq(X)
    BY <2>1 DEF CacheOK
  <2>3. Replay(p, c)
    BY <2>1
  <2> HIDE DEF c, X
  <2>4. offset' \in [RelayPeers -> Nat] /\ DOMAIN replayed' = RelayPeers
    BY <2>2, <2>3, CursorTakes
  <2> QED BY <1>1, <2>1, <2>4 DEF RelayInv
<1>4. ASSUME NEW p \in RelayPeers, Reconnect(p) PROVE RelayInv'
  <2>1. CacheOK'
    BY <1>4 DEF Reconnect, RelayInv, CacheOK
  <2>2. offset' \in [RelayPeers -> Nat] /\ DOMAIN replayed' = RelayPeers
    BY <1>4 DEF Reconnect, RelayInv
  <2> QED BY <1>1, <2>1, <2>2 DEF RelayInv
<1>5. CASE UNCHANGED rvars
  BY <1>2, <1>5 DEF rvars
<1>6. ASSUME NEW m \in Messages, AcceptFromPeer(m) \/ RefuseFromPeer(m) PROVE UNCHANGED relay
  BY <1>6 DEF AcceptFromPeer, RefuseFromPeer
<1>7. ASSUME NEW m \in OwnVotes, Sign(m) PROVE UNCHANGED relay
  BY <1>7 DEF Sign
<1>8. CASE ViewMoves
  BY <1>2, <1>8 DEF ViewMoves
<1> QED BY <1>2, <1>3, <1>4, <1>5, <1>6, <1>7, <1>8 DEF RelayNext

(* The invariant holds of every run of the relay: the export shared by all
   peers holds only votes that verify on the chain its tip names. *)
THEOREM RelayInvariant == RelaySpec => []RelayInv
<1>1. RelayInit => RelayInv
  <2> SUFFICES ASSUME RelayInit PROVE RelayInv
    OBVIOUS
  <2>1. PoolInv
    BY NoSlots, PoolAssumption DEF RelayInit, Init, PoolInv
  <2>2. cache = <<>> /\ DOMAIN cache = {} /\ cache \in Seq(Range(cache))
    BY DEF RelayInit
  <2> QED BY <2>1, <2>2 DEF RelayInit, RelayInv, CacheOK
<1>2. RelayInv /\ [RelayNext]_rvars => RelayInv'
  BY RelayStep
<1> QED BY <1>1, <1>2, PTL DEF RelaySpec

(* "Tip HASH (not height) prevents replay of old-branch signatures on an
   equal-height reorg" (MaybeFinalityTransport): every vote selected for a
   peer verifies on the view the node has then, whatever happened to pool and
   chain since the export. *)
THEOREM ReplaysAreCurrent == RelaySpec => ReplayIsCurrent
<1> DEFINE A == \A p \in RelayPeers : replayed'[p] # replayed[p] =>
                   \A m \in replayed'[p] : Admissible(view, m) /\ Verifies(view, m)
<1>1. RelayInv /\ [RelayNext]_rvars => [A]_rvars
  <2> SUFFICES ASSUME RelayInv, RelayNext, NEW q \in RelayPeers, replayed'[q] # replayed[q],
                      NEW m \in replayed'[q]
               PROVE  Admissible(view, m) /\ Verifies(view, m)
    OBVIOUS
  <2>1. ASSUME NEW p \in RelayPeers, RelayRefreshing(p) \/ RelayCached(p)
        PROVE  Admissible(view, m) /\ Verifies(view, m)
    <3>1. CacheOK' /\ cache_tip' = Tip(view) /\ Replay(p, cache') /\ view \in Views
      BY <2>1, PassRenews DEF RelayInv, PoolInv
    <3> DEFINE c == cache'
               X == Range(c)
    <3>2. c \in Seq(X) /\ \A i \in DOMAIN c : Admissible(view, c[i]) /\ Verifies(view, c[i])
      BY <3>1 DEF CacheOK
    <3>3. Replay(p, c)
      BY <3>1
    <3> HIDE DEF c, X
    <3>4. /\ \A r \in RelayPeers : r # p => replayed'[r] = replayed[r]
          /\ \A n \in replayed'[p] : \E i \in DOMAIN c : n = c[i]
      BY <3>2, <3>3, CursorTakes
    <3> QED BY <3>2, <3>4
  <2>2. ASSUME NEW p \in RelayPeers, Reconnect(p) PROVE FALSE
    <3>1. replayed'[q] = IF q = p THEN {} ELSE replayed[q]
      BY <2>2 DEF Reconnect, RelayInv
    <3> QED BY <3>1
  <2>3. ASSUME replayed' = replayed PROVE FALSE
    BY <2>3
  <2>4. ASSUME NEW n \in Messages, AcceptFromPeer(n) \/ RefuseFromPeer(n) PROVE replayed' = replayed
    BY <2>4 DEF AcceptFromPeer, RefuseFromPeer, relay
  <2>5. ASSUME NEW n \in OwnVotes, Sign(n) PROVE replayed' = replayed
    BY <2>5 DEF Sign, relay
  <2>6. ASSUME ViewMoves PROVE replayed' = replayed
    BY <2>6 DEF ViewMoves, relay
  <2> QED BY <2>1, <2>2, <2>3, <2>4, <2>5, <2>6 DEF RelayNext
<1>2. RelaySpec => [][RelayNext]_rvars
  BY DEF RelaySpec
<1> QED BY <1>1, <1>2, RelayInvariant, PTL DEF ReplayIsCurrent
=============================================================================
