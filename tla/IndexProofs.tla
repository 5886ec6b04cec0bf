---------------------------- MODULE IndexProofs -----------------------------
(* Proofs about the indexes in memory, whatever the keys, the hash functions, *)
(* the boxes, the numbers of children and the sizes.                          *)
EXTENDS MCIndexes, SequenceLemmas

-----------------------------------------------------------------------------
(* The Bloom filter.                                                          *)

BloomInv ==
    /\ Bloom!TypeOK
    /\ bits = UNION {Bloom!Positions(x) : x \in keys}
    /\ IsFiniteSet(keys) /\ Cardinality(keys) <= added

\* The positions of a key are bits of the filter.
LEMMA PositionsAreBits ==
    ASSUME Bloom!BloomAssumption, NEW k \in Key
    PROVE  Bloom!Positions(k) \subseteq 0..(Bits - 1)
  <1>1. ASSUME NEW i \in 0..(HashCount - 1) PROVE Bloom!HashOf(k, i) \in 0..(Bits - 1)
    <2>1. /\ MCBase[k] \in [0..2 -> 0..(Bits - 1)]
          /\ MCBase[k][0] \in Nat /\ MCBase[k][1] \in Nat /\ i \in Nat
          /\ Bits \in Nat \ {0}
      BY DEF Bloom!BloomAssumption
    <2>2. CASE i < 3
      BY <2>1, <2>2 DEF Bloom!HashOf
    <2>3. CASE ~(i < 3)
      <3> DEFINE p == i * MCBase[k][1]
      <3>1. p \in Nat
        BY <2>1
      <3> HIDE DEF p
      <3>2. MCBase[k][0] + p \in Nat
        BY <2>1, <3>1
      <3>3. (MCBase[k][0] + p) % Bits \in 0..(Bits - 1)
        BY <2>1, <3>2
      <3> QED BY <2>3, <3>3 DEF Bloom!HashOf, p
    <2> QED BY <2>2, <2>3
  <1> QED BY <1>1 DEF Bloom!Positions

\* A filter that is empty has no keys, and an addition sets the bits of its key.
LEMMA BloomStep ==
    ASSUME Bloom!BloomAssumption, BloomInv, [Bloom!Next]_bloomVars
    PROVE  BloomInv'
  <1>1. CASE Bloom!Reset
    <2>1. IsFiniteSet({}) /\ Cardinality({}) = 0
      BY FS_EmptySet
    <2> QED BY <1>1, <2>1 DEF Bloom!Reset, BloomInv, Bloom!TypeOK
  <1>2. ASSUME NEW k \in Key, Bloom!Add(k) PROVE BloomInv'
    <2>1. bits' = bits \cup Bloom!Positions(k) /\ added' = added + 1 /\ keys' = keys \cup {k}
      BY <1>2 DEF Bloom!Add
    <2>2. bits' \subseteq 0..(Bits - 1)
      BY <2>1, PositionsAreBits DEF BloomInv, Bloom!TypeOK
    <2>3. bits' = UNION {Bloom!Positions(x) : x \in keys'}
      BY <2>1 DEF BloomInv
    <2>4. IsFiniteSet(keys') /\ Cardinality(keys') <= added'
      <3>1. IsFiniteSet(keys) /\ Cardinality(keys) <= added /\ added \in Nat
        BY DEF BloomInv, Bloom!TypeOK
      <3>2. IsFiniteSet(keys') /\ Cardinality(keys) \in Nat
            /\ Cardinality(keys') = IF k \in keys THEN Cardinality(keys) ELSE Cardinality(keys) + 1
        BY <2>1, <3>1, FS_AddElement, FS_CardinalityType
      <3> QED BY <2>1, <3>1, <3>2
    <2> QED BY <2>1, <2>2, <2>3, <2>4 DEF BloomInv, Bloom!TypeOK
  <1>3. CASE UNCHANGED bloomVars
    BY <1>3 DEF bloomVars, BloomInv, Bloom!TypeOK
  <1> QED BY <1>1, <1>2, <1>3 DEF Bloom!Next

LEMMA BloomHolds ==
    ASSUME BloomInv
    PROVE  Bloom!TypeOK /\ Bloom!NoFalseNegative
  <1>1. \A k \in keys : Bloom!Contains(k)
    BY DEF BloomInv, Bloom!Contains
  <1>2. \A k \in Key : Bloom!Contains(k)
                       => Bloom!Positions(k) \subseteq UNION {Bloom!Positions(x) : x \in keys}
    BY DEF BloomInv, Bloom!Contains
  <1>3. Bloom!TypeOK
    BY DEF BloomInv
  <1>4. Bloom!Cardinality(keys) = Cardinality(keys)
    BY DEF Bloom!Cardinality, Cardinality
  <1>5. Bloom!Cardinality(keys) <= added
    BY <1>4 DEF BloomInv
  <1> QED BY <1>1, <1>2, <1>3, <1>5 DEF Bloom!NoFalseNegative

LEMMA BloomInit ==
    ASSUME Bloom!BloomAssumption, Bloom!Init
    PROVE  BloomInv
  <1>1. IsFiniteSet({}) /\ Cardinality({}) = 0
    BY FS_EmptySet
  <1> QED BY <1>1 DEF Bloom!Init, BloomInv, Bloom!TypeOK

-----------------------------------------------------------------------------
(* The hash index.                                                            *)

\* The chain c of bucket b has the keys of st that fall into b, each once.
Mirrors(c, b, st) ==
    /\ \A i \in DOMAIN c : /\ c[i].key \in DOMAIN st /\ MCHash[c[i].key] = b
                           /\ c[i].val = st[c[i].key]
    /\ \A i, j \in DOMAIN c : c[i].key = c[j].key => i = j
    /\ \A k \in DOMAIN st : MCHash[k] = b => \E i \in DOMAIN c : c[i].key = k

Lengths(ch) == [b \in 1..BucketCount |-> Len(ch[b])]

HashTypes ==
    /\ chains \in [1..BucketCount -> Seq(Hashed!Node)]
    /\ DOMAIN stored \subseteq Key /\ \A k \in DOMAIN stored : stored[k] \in Item

HashInv ==
    /\ HashTypes
    /\ \A b \in 1..BucketCount : Mirrors(chains[b], b, stored)
    /\ itemCount = Sum(Lengths(chains), BucketCount)

BucketsFit == BucketCount \in Nat \ {0} /\ MCHash \in [Key -> 1..BucketCount]

LEMMA LengthsType ==
    ASSUME NEW ch \in [1..BucketCount -> Seq(Hashed!Node)]
    PROVE  Lengths(ch) \in [1..BucketCount -> Nat]
  BY DEF Lengths

\* Where a key is in its chain.
LEMMA HashFinds ==
    ASSUME BucketsFit, HashInv, NEW k \in Key
    PROVE  /\ MCHash[k] \in 1..BucketCount
           /\ chains[MCHash[k]] \in Seq(Hashed!Node)
           /\ k \in DOMAIN stored => /\ Hashed!Find(k) \in DOMAIN chains[MCHash[k]]
                                     /\ chains[MCHash[k]][Hashed!Find(k)].key = k
                                     /\ Hashed!Find(k) # 0
           /\ k \notin DOMAIN stored => Hashed!Find(k) = 0
  <1> DEFINE b == MCHash[k]
             c == chains[b]
             I == {i \in 1..Len(c) : c[i].key = k}
             m == Min(I)
  <1>1. b \in 1..BucketCount /\ c \in Seq(Hashed!Node) /\ Mirrors(c, b, stored)
    BY DEF BucketsFit, HashInv, HashTypes
  <1>2. Hashed!Find(k) = IF I # {} THEN m ELSE 0
    BY DEF Hashed!Find, Hashed!SelectInSeq, Hashed!Min, Min
  <1>3. DOMAIN c = 1..Len(c) /\ Len(c) \in Nat
    BY <1>1
  <1> HIDE DEF c, b
  <1>4. I # {} => m \in I
    <2>1. I \in SUBSET Nat
      OBVIOUS
    <2> HIDE DEF I
    <2> QED BY <2>1, MinIsLeast
  <1>5. k \in DOMAIN stored => I # {}
    BY <1>1, <1>3 DEF Mirrors, b
  <1>6. k \notin DOMAIN stored => I = {}
    BY <1>1, <1>3 DEF Mirrors
  <1> HIDE DEF m
  <1>7. I # {} => m \in 1..Len(c) /\ c[m].key = k /\ m # 0
    BY <1>3, <1>4
  <1> HIDE DEF I
  <1>8. k \in DOMAIN stored => Hashed!Find(k) \in DOMAIN c /\ c[Hashed!Find(k)].key = k
                               /\ Hashed!Find(k) # 0
    BY <1>2, <1>3, <1>5, <1>7
  <1> QED BY <1>1, <1>2, <1>6, <1>8 DEF b, c

\* The chain of a key is replaced, the other keys stay as they are.
LEMMA ChainReplaced ==
    ASSUME BucketsFit, HashInv, NEW k \in Key, NEW c \in Seq(Hashed!Node),
           chains' = [chains EXCEPT ![MCHash[k]] = c],
           DOMAIN stored' \subseteq Key, \A x \in DOMAIN stored' : stored'[x] \in Item,
           \A x \in Key : x # k => /\ x \in DOMAIN stored' <=> x \in DOMAIN stored
                                   /\ x \in DOMAIN stored => stored'[x] = stored[x],
           Mirrors(c, MCHash[k], stored'),
           itemCount' + Len(chains[MCHash[k]]) = itemCount + Len(c), itemCount' \in Int
    PROVE  HashInv'
  <1> DEFINE b == MCHash[k]
  <1>1. b \in 1..BucketCount /\ BucketCount \in Nat
        /\ chains \in [1..BucketCount -> Seq(Hashed!Node)]
    BY DEF BucketsFit, HashInv, HashTypes
  <1>2. chains' \in [1..BucketCount -> Seq(Hashed!Node)] /\ chains'[b] = c
        /\ \A d \in 1..BucketCount : d # b => chains'[d] = chains[d]
    BY <1>1
  <1>3. ASSUME NEW d \in 1..BucketCount PROVE Mirrors(chains'[d], d, stored')
    <2>1. CASE d = b
      BY <1>2, <2>1
    <2>2. CASE d # b
      <3>1. chains'[d] = chains[d] /\ Mirrors(chains[d], d, stored) /\ d # MCHash[k]
        BY <1>2, <2>2 DEF HashInv
      <3>2. DOMAIN stored \subseteq Key
        BY DEF HashInv, HashTypes
      <3> HIDE DEF b
      <3> QED BY <3>1, <3>2 DEF Mirrors
    <2> QED BY <2>1, <2>2
  <1>4. itemCount' = Sum(Lengths(chains'), BucketCount)
    <2> DEFINE w == Lengths(chains)
               v == Lengths(chains')
    <2>1. w \in [1..BucketCount -> Nat] /\ v \in [1..BucketCount -> Nat]
      BY <1>1, <1>2, LengthsType
    <2>2. w[b] = Len(chains[b]) /\ v[b] = Len(c) /\ \A d \in 1..BucketCount : d # b => v[d] = w[d]
      BY <1>1, <1>2 DEF Lengths
    <2> HIDE DEF w, v
    <2>3. PICK r \in Nat : Sum(w, BucketCount) = r + w[b] /\ Sum(v, BucketCount) = r + v[b]
      BY <1>1, <2>1, <2>2, SumChange
    <2>4. itemCount = r + Len(chains[b])
      BY <2>2, <2>3 DEF HashInv, w
    <2>5. Len(chains[b]) \in Nat /\ Len(c) \in Nat
      BY <1>1
    <2>6. itemCount' = r + Len(c)
      <3> HIDE DEF b
      <3>1. itemCount' + Len(chains[b]) = itemCount + Len(c)
        BY DEF b
      <3> QED BY SMTT(30), <2>4, <2>5, <3>1
    <2> QED BY <2>2, <2>3, <2>6 DEF v
  <1> HIDE DEF b
  <1> QED BY <1>2, <1>3, <1>4 DEF HashInv, HashTypes

LEMMA HashInsert ==
    ASSUME BucketsFit, HashInv, NEW k \in Key, NEW v \in Item, Hashed!Insert(k, v)
    PROVE  HashInv'
  <1> DEFINE b == MCHash[k]
             old == chains[b]
             p == Hashed!Find(k)
             node == [key |-> k, val |-> v]
             new == IF p # 0 THEN [old EXCEPT ![p].val = v] ELSE <<node>> \o old
  <1>1. /\ b \in 1..BucketCount /\ old \in Seq(Hashed!Node) /\ Mirrors(old, b, stored)
        /\ k \in DOMAIN stored => p \in DOMAIN old /\ old[p].key = k /\ p # 0
        /\ k \notin DOMAIN stored => p = 0
    BY HashFinds DEF HashInv
  <1>2. /\ chains' = [chains EXCEPT ![b] = new]
        /\ itemCount' = itemCount + IF p = 0 THEN 1 ELSE 0
        /\ stored' = [x \in DOMAIN stored \cup {k} |-> IF x = k THEN v ELSE stored[x]]
    <2>1. chains \in [1..BucketCount -> Seq(Hashed!Node)]
      BY DEF HashInv, HashTypes
    <2> QED BY <2>1, <1>1 DEF Hashed!Insert
  <1>3. node \in Hashed!Node /\ node.key = k /\ node.val = v
    BY DEF Hashed!Node
  <1>4. DOMAIN stored \subseteq Key /\ \A x \in DOMAIN stored : stored[x] \in Item
    BY DEF HashInv, HashTypes
  <1>5. /\ DOMAIN stored' = DOMAIN stored \cup {k} /\ stored'[k] = v
        /\ \A x \in DOMAIN stored : x # k => stored'[x] = stored[x]
    BY <1>2
  <1>6. itemCount \in Int
    <2>1. Lengths(chains) \in [1..BucketCount -> Nat] /\ BucketCount \in Nat
      BY LengthsType DEF HashInv, HashTypes, BucketsFit
    <2> QED BY <2>1, SumType DEF HashInv
  <1> HIDE DEF b, old, p, node
  <1>7. /\ new \in Seq(Hashed!Node) /\ Mirrors(new, b, stored')
        /\ itemCount' + Len(old) = itemCount + Len(new) /\ itemCount' \in Int
    <2>1. CASE p # 0
      <3>1. k \in DOMAIN stored /\ p \in DOMAIN old /\ old[p].key = k
        BY <1>1, <2>1
      <3>2. old[p] \in Hashed!Node
        BY <1>1, <3>1
      <3>3. /\ new \in Seq(Hashed!Node) /\ Len(new) = Len(old) /\ DOMAIN new = DOMAIN old
            /\ new[p].key = k /\ new[p].val = v
            /\ \A i \in DOMAIN old : i # p => new[i] = old[i]
        <4>1. new = [old EXCEPT ![p] = [old[p] EXCEPT !.val = v]]
          BY <1>1, <2>1, <3>1
        <4>2. [old[p] EXCEPT !.val = v] \in Hashed!Node /\ [old[p] EXCEPT !.val = v].key = k
              /\ [old[p] EXCEPT !.val = v].val = v
          BY <3>1, <3>2 DEF Hashed!Node
        <4> DEFINE e == [old[p] EXCEPT !.val = v]
        <4>3. new = [old EXCEPT ![p] = e] /\ e \in Hashed!Node /\ e.key = k /\ e.val = v
          BY <4>1, <4>2
        <4> HIDE DEF new, e
        <4>4. new \in Seq(Hashed!Node) /\ Len(new) = Len(old) /\ DOMAIN new = DOMAIN old
          BY <1>1, <3>1, <4>3
        <4>5. new[p] = e /\ \A i \in DOMAIN old : i # p => new[i] = old[i]
          BY <1>1, <3>1, <4>3
        <4> QED BY <4>3, <4>4, <4>5
      <3> HIDE DEF new
      <3>4. \A i \in DOMAIN new : new[i].key = old[i].key
        BY <3>1, <3>3
      <3>5. \A i \in DOMAIN new : new[i].key \in DOMAIN stored' /\ MCHash[new[i].key] = b
        BY <1>1, <1>5, <3>3, <3>4 DEF Mirrors
      <3>6. \A i, j \in DOMAIN new : new[i].key = new[j].key => i = j
        BY <1>1, <3>3, <3>4 DEF Mirrors
      <3>7. \A x \in DOMAIN stored' : MCHash[x] = b => \E i \in DOMAIN new : new[i].key = x
        BY <1>1, <1>5, <3>1, <3>3, <3>4 DEF Mirrors
      <3>8. \A i \in DOMAIN new : new[i].val = stored'[new[i].key]
        <4> SUFFICES ASSUME NEW i \in DOMAIN new PROVE new[i].val = stored'[new[i].key]
          OBVIOUS
        <4>1. CASE i = p
          BY <1>5, <3>3, <4>1
        <4>2. CASE i # p
          <5>1. new[i] = old[i] /\ i \in DOMAIN old /\ old[i].key # k
            BY <1>1, <3>1, <3>3, <4>2 DEF Mirrors
          <5>2. old[i].key \in DOMAIN stored /\ old[i].val = stored[old[i].key]
            BY <1>1, <5>1 DEF Mirrors
          <5> QED BY <1>5, <5>1, <5>2
        <4> QED BY <4>1, <4>2
      <3>9. itemCount' + Len(old) = itemCount + Len(new) /\ itemCount' \in Int
        BY <1>2, <1>6, <2>1, <3>3
      <3> QED BY <3>3, <3>5, <3>6, <3>7, <3>8, <3>9 DEF Mirrors
    <2>2. CASE p = 0
      <3>1. k \notin DOMAIN stored
        BY <1>1, <2>2
      <3>2. /\ new \in Seq(Hashed!Node) /\ Len(new) = Len(old) + 1
            /\ DOMAIN new = 1..(Len(old) + 1) /\ DOMAIN old = 1..Len(old) /\ Len(old) \in Nat
            /\ new[1] = node /\ \A i \in 2..(Len(old) + 1) : new[i] = old[i - 1]
        <4>1. new = <<node>> \o old
          BY <2>2
        <4>2. <<node>> \in Seq(Hashed!Node) /\ Len(<<node>>) = 1 /\ <<node>>[1] = node
          BY <1>3
        <4> HIDE DEF new
        <4> QED BY <1>1, <4>1, <4>2
      <3> HIDE DEF new
      <3>3. \A i \in DOMAIN old :
               /\ old[i].key # k
               /\ i + 1 \in DOMAIN new /\ i + 1 # 1 /\ new[i + 1] = old[i]
        <4> SUFFICES ASSUME NEW i \in DOMAIN old
                     PROVE  old[i].key # k /\ i + 1 \in DOMAIN new /\ i + 1 # 1
                            /\ new[i + 1] = old[i]
          OBVIOUS
        <4>1. i + 1 \in 2..(Len(old) + 1) /\ (i + 1) - 1 = i /\ i + 1 # 1
          BY <3>2
        <4>2. old[i].key \in DOMAIN stored
          BY <1>1 DEF Mirrors
        <4> QED BY <3>1, <3>2, <4>1, <4>2
      <3>4. \A i \in DOMAIN new : i = 1 \/ (i - 1 \in DOMAIN old /\ new[i] = old[i - 1])
        <4> SUFFICES ASSUME NEW i \in DOMAIN new, i # 1
                     PROVE  i - 1 \in DOMAIN old /\ new[i] = old[i - 1]
          OBVIOUS
        <4>1. i \in 2..(Len(old) + 1) /\ i - 1 \in 1..Len(old)
          BY <3>2
        <4> QED BY <3>2, <4>1
      <3>5. \A i \in DOMAIN new : /\ new[i].key \in DOMAIN stored' /\ MCHash[new[i].key] = b
                                  /\ new[i].val = stored'[new[i].key]
        <4> SUFFICES ASSUME NEW i \in DOMAIN new
                     PROVE  /\ new[i].key \in DOMAIN stored' /\ MCHash[new[i].key] = b
                            /\ new[i].val = stored'[new[i].key]
          OBVIOUS
        <4>1. CASE i = 1
          BY <1>3, <1>5, <3>2, <4>1 DEF b
        <4>2. CASE i # 1
          <5>1. i - 1 \in DOMAIN old /\ new[i] = old[i - 1] /\ old[i - 1].key # k
            BY <3>3, <3>4, <4>2
          <5>2. /\ old[i - 1].key \in DOMAIN stored /\ MCHash[old[i - 1].key] = b
                /\ old[i - 1].val = stored[old[i - 1].key]
            BY <1>1, <5>1 DEF Mirrors
          <5> QED BY <1>5, <5>1, <5>2
        <4> QED BY <4>1, <4>2
      <3>6. \A i, j \in DOMAIN new : new[i].key = new[j].key => i = j
        <4> SUFFICES ASSUME NEW i \in DOMAIN new, NEW j \in DOMAIN new, new[i].key = new[j].key
                     PROVE  i = j
          OBVIOUS
        <4>1. i \in Nat /\ j \in Nat
          BY <3>2
        <4>2. CASE i # 1 /\ j # 1
          <5>1. i - 1 = j - 1
            BY <1>1, <3>4, <4>2 DEF Mirrors
          <5> QED BY <4>1, <5>1
        <4>3. i = 1 <=> j = 1
          BY <1>3, <3>2, <3>3, <3>4
        <4> QED BY <4>2, <4>3
      <3>7. \A x \in DOMAIN stored' : MCHash[x] = b => \E i \in DOMAIN new : new[i].key = x
        <4> SUFFICES ASSUME NEW x \in DOMAIN stored', MCHash[x] = b
                     PROVE  \E i \in DOMAIN new : new[i].key = x
          OBVIOUS
        <4>1. CASE x = k
          <5>1. 1 \in DOMAIN new /\ new[1].key = k
            BY <1>3, <3>2
          <5> QED BY <4>1, <5>1
        <4>2. CASE x # k
          <5>1. PICK i \in DOMAIN old : old[i].key = x
            BY <1>1, <1>5, <4>2 DEF Mirrors
          <5> QED BY <3>3, <5>1
        <4> QED BY <4>1, <4>2
      <3>8. itemCount' + Len(old) = itemCount + Len(new) /\ itemCount' \in Int
        <4>1. itemCount' = itemCount + 1
          BY <1>2, <2>2
        <4>2. Len(new) = Len(old) + 1 /\ Len(old) \in Nat
          BY <3>2
        <4>3. itemCount' \in Int
          BY <1>6, <4>1
        <4>4. itemCount' + Len(old) = itemCount + Len(new)
          BY <1>6, <4>1, <4>2
        <4> QED BY <4>3, <4>4
      <3> QED BY <3>2, <3>5, <3>6, <3>7, <3>8 DEF Mirrors
    <2> QED BY <2>1, <2>2
  <1>8. DOMAIN stored' \subseteq Key /\ \A x \in DOMAIN stored' : stored'[x] \in Item
    BY <1>4, <1>5
  <1>9. \A x \in Key : x # k => /\ x \in DOMAIN stored' <=> x \in DOMAIN stored
                                /\ x \in DOMAIN stored => stored'[x] = stored[x]
    BY <1>5
  <1> HIDE DEF new
  <1> QED BY <1>2, <1>7, <1>8, <1>9, ChainReplaced DEF b, old

LEMMA HashDelete ==
    ASSUME BucketsFit, HashInv, NEW k \in Key, Hashed!Delete(k)
    PROVE  HashInv'
  <1> DEFINE b == MCHash[k]
             old == chains[b]
             p == Hashed!Find(k)
             new == RemoveAt(old, p)
  <1>1. /\ b \in 1..BucketCount /\ old \in Seq(Hashed!Node) /\ Mirrors(old, b, stored)
        /\ k \in DOMAIN stored /\ p \in DOMAIN old /\ old[p].key = k
    BY HashFinds DEF HashInv, Hashed!Delete
  <1>2. /\ chains' = [chains EXCEPT ![b] = new] /\ itemCount' = itemCount - 1
        /\ stored' = [x \in DOMAIN stored \ {k} |-> stored[x]]
    <2>1. chains \in [1..BucketCount -> Seq(Hashed!Node)]
      BY DEF HashInv, HashTypes
    <2> QED BY <2>1, <1>1 DEF Hashed!Delete, Hashed!RemoveAt, RemoveAt
  <1>3. DOMAIN stored \subseteq Key /\ \A x \in DOMAIN stored : stored[x] \in Item
    BY DEF HashInv, HashTypes
  <1>4. /\ DOMAIN stored' = DOMAIN stored \ {k}
        /\ \A x \in DOMAIN stored : x # k => stored'[x] = stored[x]
    BY <1>2
  <1>5. itemCount \in Int
    <2>1. Lengths(chains) \in [1..BucketCount -> Nat] /\ BucketCount \in Nat
      BY LengthsType DEF HashInv, HashTypes, BucketsFit
    <2> QED BY <2>1, SumType DEF HashInv
  <1> HIDE DEF b, old, p
  <1>6. /\ new \in Seq(Hashed!Node) /\ Len(new) = Len(old) - 1
        /\ \A i \in 1..(Len(old) - 1) : /\ i < p => new[i] = old[i]
                                        /\ i >= p => new[i] = old[i + 1]
    BY <1>1, RemoveAtSkips
  <1> HIDE DEF new
  <1>7. DOMAIN new = 1..(Len(old) - 1) /\ DOMAIN old = 1..Len(old) /\ Len(old) \in Nat
        /\ p \in 1..Len(old)
    BY <1>1, <1>6
  <1>8. Mirrors(new, b, stored')
    <2> DEFINE At(i) == IF i < p THEN i ELSE i + 1
    <2>1. \A i \in DOMAIN new : At(i) \in DOMAIN old /\ At(i) # p /\ new[i] = old[At(i)]
      BY <1>6, <1>7
    <2>2. \A i, j \in DOMAIN new : At(i) = At(j) => i = j
      BY <1>7
    <2>3. \A j \in DOMAIN old : j # p => \E i \in DOMAIN new : At(i) = j
      <3> SUFFICES ASSUME NEW j \in DOMAIN old, j # p PROVE \E i \in DOMAIN new : At(i) = j
        OBVIOUS
      <3>1. CASE j < p
        <4>1. j \in DOMAIN new /\ At(j) = j
          BY <1>7, <3>1
        <4> QED BY <4>1
      <3>2. CASE j > p
        <4>1. j - 1 \in DOMAIN new /\ At(j - 1) = j
          BY <1>7, <3>2
        <4> QED BY <4>1
      <3> QED BY <1>7, <3>1, <3>2
    <2> HIDE DEF At
    <2>4. \A j \in DOMAIN old : j # p => old[j].key # k
      BY <1>1 DEF Mirrors
    <2>5. \A i \in DOMAIN new : /\ new[i].key \in DOMAIN stored' /\ MCHash[new[i].key] = b
                                /\ new[i].val = stored'[new[i].key]
      BY <1>1, <1>4, <2>1, <2>4 DEF Mirrors
    <2>6. \A i, j \in DOMAIN new : new[i].key = new[j].key => i = j
      BY <1>1, <2>1, <2>2 DEF Mirrors
    <2>7. \A x \in DOMAIN stored' : MCHash[x] = b => \E i \in DOMAIN new : new[i].key = x
      <3> SUFFICES ASSUME NEW x \in DOMAIN stored', MCHash[x] = b
                   PROVE  \E i \in DOMAIN new : new[i].key = x
        OBVIOUS
      <3>1. PICK j \in DOMAIN old : old[j].key = x
        BY <1>1, <1>4 DEF Mirrors
      <3>2. j # p
        BY <1>1, <1>4, <3>1
      <3> QED BY <2>1, <2>3, <3>1, <3>2
    <2> QED BY <2>5, <2>6, <2>7 DEF Mirrors
  <1>9. itemCount' + Len(old) = itemCount + Len(new) /\ itemCount' \in Int
    <2>1. itemCount' = itemCount - 1
      BY <1>2
    <2>2. Len(new) = Len(old) - 1
      BY <1>6
    <2>3. Len(old) \in Int
      BY <1>7
    <2>4. itemCount' \in Int
      BY <1>5, <2>1
    <2>5. itemCount' + Len(old) = itemCount + Len(new)
      BY <1>5, <2>1, <2>2, <2>3
    <2> QED BY <2>4, <2>5
  <1>10. DOMAIN stored' \subseteq Key /\ \A x \in DOMAIN stored' : stored'[x] \in Item
    BY <1>3, <1>4
  <1>11. \A x \in Key : x # k => /\ x \in DOMAIN stored' <=> x \in DOMAIN stored
                                 /\ x \in DOMAIN stored => stored'[x] = stored[x]
    BY <1>4
  <1> QED BY <1>2, <1>6, <1>8, <1>9, <1>10, <1>11, ChainReplaced DEF b, old
LEMMA HashStep ==
    ASSUME BucketsFit, HashInv, [Hashed!Next]_hashVars
    PROVE  HashInv'
  <1>1. ASSUME NEW k \in Key, Hashed!Delete(k) PROVE HashInv'
    BY <1>1, HashDelete
  <1>2. ASSUME NEW k \in Key, NEW v \in Item, Hashed!Insert(k, v) PROVE HashInv'
    BY <1>2, HashInsert
  <1>3. CASE UNCHANGED hashVars
    BY <1>3 DEF hashVars, HashInv, HashTypes
  <1> QED BY <1>1, <1>2, <1>3 DEF Hashed!Next

LEMMA HashInit ==
    ASSUME BucketsFit, Hashed!Init
    PROVE  HashInv
  <1>1. chains = [b \in 1..BucketCount |-> <<>>] /\ itemCount = 0 /\ stored = <<>>
    BY DEF Hashed!Init
  <1>2. DOMAIN stored = {} /\ \A b \in 1..BucketCount : chains[b] = <<>> /\ DOMAIN chains[b] = {}
    BY <1>1
  <1>3. HashTypes
    BY <1>1, <1>2 DEF HashTypes
  <1>4. ASSUME NEW b \in 1..BucketCount PROVE Mirrors(chains[b], b, stored)
    BY <1>2 DEF Mirrors
  <1>5. Sum(Lengths(chains), BucketCount) = 0
    <2>1. /\ Lengths(chains) \in [1..BucketCount -> Nat]
          /\ \A b \in 1..BucketCount : Lengths(chains)[b] = 0
      BY <1>1 DEF Lengths
    <2> DEFINE w == Lengths(chains)
               n == BucketCount
    <2>2. IsSum([i \in 0..n |-> 0], w, n) /\ n \in Nat
      <3>1. w \in [1..n -> Nat] /\ (\A b \in 1..n : w[b] = 0) /\ n \in Nat
        BY <2>1 DEF BucketsFit
      <3> HIDE DEF w, n
      <3> QED BY <3>1 DEF IsSum
    <2>3. w \in [1..n -> Nat]
      BY <2>1
    <2> HIDE DEF w, n
    <2>4. Sum(w, n) = [i \in 0..n |-> 0][n]
      BY <2>2, <2>3, SumIs
    <2> QED BY <2>2, <2>4 DEF w, n
  <1> QED BY <1>1, <1>3, <1>4, <1>5 DEF HashInv

\* The fold of the property is the sum of the lengths.
LEMMA CountIsSum ==
    ASSUME BucketsFit, NEW ch \in [1..BucketCount -> Seq(Hashed!Node)]
    PROVE  Hashed!FoldFunction(LAMBDA c, m : m + Len(c), 0, ch) = Sum(Lengths(ch), BucketCount)
  <1> DEFINE n == BucketCount
             w == Lengths(ch)
             pick == [s \in SUBSET (1..n) |-> CHOOSE x \in s : TRUE]
             F == CHOOSE f : f = [s \in SUBSET (1..n) |->
                                    IF s = {} THEN 0
                                    ELSE f[s \ {CHOOSE x \in s : TRUE}]
                                         + Len(ch[CHOOSE x \in s : TRUE])]
  <1>1. n \in Nat /\ DOMAIN ch = 1..n /\ w \in [1..n -> Nat]
        /\ \A i \in 1..n : w[i] = Len(ch[i])
    BY LengthsType DEF Lengths, BucketsFit
  <1>2. \A s \in SUBSET (1..n) : s # {} => pick[s] \in s /\ pick[s] = CHOOSE x \in s : TRUE
    OBVIOUS
  <1> DEFINE A(f) == [s \in SUBSET (1..n) |->
                        IF s = {} THEN 0 ELSE f[s \ {pick[s]}] + w[pick[s]]]
             B(f) == [s \in SUBSET (1..n) |->
                        IF s = {} THEN 0
                        ELSE f[s \ {CHOOSE x \in s : TRUE}] + Len(ch[CHOOSE x \in s : TRUE])]
  <1>3. \A f : A(f) = B(f)
    <2> SUFFICES ASSUME NEW f PROVE A(f) = B(f)
      OBVIOUS
    <2>1. ASSUME NEW s \in SUBSET (1..n), s # {}
          PROVE  f[s \ {pick[s]}] + w[pick[s]]
                 = f[s \ {CHOOSE x \in s : TRUE}] + Len(ch[CHOOSE x \in s : TRUE])
      <3>1. pick[s] \in 1..n /\ pick[s] = CHOOSE x \in s : TRUE
        BY <1>2, <2>1
      <3>2. w[pick[s]] = Len(ch[pick[s]])
        BY <1>1, <3>1
      <3> HIDE DEF pick, w
      <3> QED BY <3>1, <3>2
    <2> HIDE DEF pick, w
    <2> QED BY <2>1
  <1>4. /\ \E f : IsSetSum(f, w, n, pick)
        /\ \A f : IsSetSum(f, w, n, pick) => f[1..n] = Sum(w, n)
    <2> HIDE DEF n, w, pick
    <2> QED BY <1>1, <1>2, SetSum
  <1>5. IsSetSum(F, w, n, pick)
    <2>1. \A f : IsSetSum(f, w, n, pick) <=> f = A(f)
      BY DEF IsSetSum
    <2>2. F = CHOOSE f : f = B(f)
      OBVIOUS
    <2> HIDE DEF A, B, F
    <2>3. PICK f : f = B(f)
      BY <1>3, <1>4, <2>1
    <2>4. F = B(F)
      BY <2>2, <2>3
    <2> QED BY <1>3, <2>1, <2>4
  <1>6. Hashed!FoldFunction(LAMBDA c, m : m + Len(c), 0, ch) = F[1..n]
    BY <1>1 DEF Hashed!FoldFunction, Hashed!FoldFunctionOnSet, Hashed!MapThenFoldSet
  <1> QED BY <1>4, <1>5, <1>6

LEMMA HashHolds ==
    ASSUME BucketsFit, HashInv
    PROVE  Hashed!TypeOK /\ Hashed!AnswersLast
  <1>1. chains \in [1..BucketCount -> Seq(Hashed!Node)] /\ BucketCount \in Nat
    BY DEF BucketsFit, HashInv, HashTypes
  <1>2. itemCount = Sum(Lengths(chains), BucketCount)
    BY DEF HashInv
  <1>3. itemCount \in Nat
    BY <1>1, <1>2, LengthsType, SumType
  <1>4. Hashed!TypeOK
    BY <1>1, <1>3 DEF Hashed!TypeOK, HashInv, HashTypes
  <1>5. itemCount = Hashed!FoldFunction(LAMBDA c, m : m + Len(c), 0, chains)
    BY <1>1, <1>2, CountIsSum
  <1>6. ASSUME NEW k \in Key
        PROVE  /\ Hashed!Get(k) = IF k \in DOMAIN stored THEN {stored[k]} ELSE {}
               /\ Hashed!Find(k) # 0 <=> k \in DOMAIN stored
    <2> DEFINE b == MCHash[k]
               p == Hashed!Find(k)
    <2>1. /\ b \in 1..BucketCount
          /\ k \in DOMAIN stored => p \in DOMAIN chains[b] /\ chains[b][p].key = k /\ p # 0
          /\ k \notin DOMAIN stored => p = 0
      BY HashFinds
    <2>2. k \in DOMAIN stored => chains[b][p].val = stored[k]
      BY <2>1 DEF HashInv, Mirrors
    <2>3. Hashed!Get(k) = IF p = 0 THEN {} ELSE {chains[b][p].val}
      BY DEF Hashed!Get
    <2> HIDE DEF b, p
    <2>4. p # 0 <=> k \in DOMAIN stored
      BY <2>1
    <2>5. Hashed!Get(k) = IF k \in DOMAIN stored THEN {stored[k]} ELSE {}
      BY <2>2, <2>3, <2>4
    <2> QED BY <2>4, <2>5 DEF p
  <1> QED BY <1>4, <1>5, <1>6 DEF Hashed!AnswersLast

-----------------------------------------------------------------------------
(* The bitmap index.                                                          *)

BitmapNode == [value : Item, map : Bitmaps!Bitmap]

\* Each value has one bitmap, with the bits of its rows.  The rows lie below
\* max_bit_position, and no bitmap is smaller than that.
BitmapGood(its, mb, ix) ==
    /\ its \in Seq(BitmapNode) /\ mb \in Nat
    /\ ix \subseteq Item \X (0..MaxRow)
    /\ \A i, j \in DOMAIN its : its[i].value = its[j].value => i = j
    /\ \A i \in DOMAIN its :
          /\ its[i].map.size >= mb
          /\ its[i].map.bits = {r \in 0..MaxRow : <<its[i].value, r>> \in ix}
    /\ \A q \in ix : q[2] < mb /\ \E i \in DOMAIN its : its[i].value = q[1]

BitmapInv == BitmapGood(items, maxBit, indexed)

\* its is what some enlarging made of items: no bit is lost.
Enlarges(its) ==
    /\ its \in Seq(BitmapNode) /\ DOMAIN its = DOMAIN items
    /\ \A i \in DOMAIN its : /\ its[i].value = items[i].value
                              /\ its[i].map.bits = items[i].map.bits
                              /\ its[i].map.size \in Nat

\* The blocks of a bitmap have room for its bits.
LEMMA RoomIsEnough ==
    ASSUME Bitmaps!BitmapAssumption, NEW size \in Nat
    PROVE  Bitmaps!Room(size) \in Nat /\ Bitmaps!Room(size) >= size
  <1> DEFINE b == BlockSize
             q == (size + b - 1) \div b
             r == (size + b - 1) % b
  <1>1. b \in Nat \ {0}
    BY DEF Bitmaps!BitmapAssumption
  <1>2. size + b - 1 \in Nat
    BY <1>1
  <1> HIDE DEF b
  <1>3. q \in Nat /\ r \in 0..(b - 1) /\ size + b - 1 = b * q + r
    BY <1>1, <1>2
  <1> HIDE DEF q, r
  <1>4. b * q \in Nat
    BY <1>1, <1>3
  <1>5. b * q >= size
    BY <1>1, <1>3, <1>4
  <1> QED BY <1>4, <1>5 DEF Bitmaps!Room, q, b

\* Enlarging the first n bitmaps to at least max_bit_position.
LEMMA ExpandedKeeps ==
    ASSUME Bitmaps!BitmapAssumption, BitmapInv, NEW n \in 0..Len(items),
           NEW size \in Nat, size >= maxBit
    PROVE  /\ Enlarges(Bitmaps!Expanded(n, size))
           /\ \A i \in DOMAIN items : i <= n => Bitmaps!Expanded(n, size)[i].map.size = size
           /\ \A i \in DOMAIN items : Bitmaps!Expanded(n, size)[i].map.size >= maxBit
  <1> DEFINE e == Bitmaps!Expanded(n, size)
             f == [i \in DOMAIN items |->
                     IF i <= n THEN [items[i] EXCEPT !.map = Bitmaps!Resized(@, size)]
                                          ELSE items[i]]
  <1>1. e = f
    BY DEF Bitmaps!Expanded
  <1>2. items \in Seq(BitmapNode) /\ maxBit \in Nat /\ Len(items) \in Nat
        /\ DOMAIN items = 1..Len(items)
    BY DEF BitmapInv, BitmapGood
  <1>3. ASSUME NEW i \in DOMAIN items, i <= n
        PROVE  e[i] \in BitmapNode /\ e[i].value = items[i].value
               /\ e[i].map.bits = items[i].map.bits /\ e[i].map.size = size
    <2>1. e[i] = [items[i] EXCEPT !.map = Bitmaps!Resized(@, size)]
      BY <1>1, <1>3
    <2>2. items[i] \in BitmapNode
      BY <1>2
    <2>3. Bitmaps!Room(size) \in Nat /\ Bitmaps!Room(size) >= size
      BY RoomIsEnough
    <2>4. \A p \in items[i].map.bits : p \in Nat /\ p < maxBit
      <3> SUFFICES ASSUME NEW p \in items[i].map.bits PROVE p \in Nat /\ p < maxBit
        OBVIOUS
      <3>1. p \in 0..MaxRow /\ <<items[i].value, p>> \in indexed
        BY DEF BitmapInv, BitmapGood
      <3>2. <<items[i].value, p>>[2] < maxBit
        BY <3>1 DEF BitmapInv, BitmapGood
      <3> QED BY <3>1, <3>2
    <2>5. {p \in items[i].map.bits : p < Bitmaps!Room(size)} = items[i].map.bits
      BY <1>2, <2>3, <2>4
    <2>6. Bitmaps!Resized(items[i].map, size) = [bits |-> items[i].map.bits, size |-> size]
      BY <2>5 DEF Bitmaps!Resized
    <2>7. items[i].map.bits \in SUBSET Nat
      BY <2>4
    <2> HIDE DEF e
    <2> QED BY <2>1, <2>2, <2>6, <2>7 DEF BitmapNode, Bitmaps!Bitmap
  <1>4. ASSUME NEW i \in DOMAIN items, ~(i <= n)
        PROVE  e[i] \in BitmapNode /\ e[i] = items[i] /\ e[i].map.size \in Nat
               /\ e[i].map.size >= maxBit
    <2>1. e[i] = items[i] /\ items[i] \in BitmapNode
      BY <1>1, <1>2, <1>4
    <2>2. items[i].map.size \in Nat /\ items[i].map.size >= maxBit
      BY <2>1 DEF BitmapNode, Bitmaps!Bitmap, BitmapInv, BitmapGood
    <2> HIDE DEF e
    <2> QED BY <2>1, <2>2
  <1>5. DOMAIN e = 1..Len(items)
    BY <1>1, <1>2
  <1>6. e = [i \in 1..Len(items) |-> e[i]]
    BY <1>1, <1>2
  <1> HIDE DEF e, f
  <1>7. \A i \in 1..Len(items) : e[i] \in BitmapNode
    BY <1>2, <1>3, <1>4
  <1>8. e \in Seq(BitmapNode)
    BY <1>2, <1>6, <1>7
  <1> QED BY <1>2, <1>3, <1>4, <1>5, <1>8 DEF Enlarges, e

\* An enlarged index is as good as it was, with any max_bit_position that is not
\* below the old one and not above a size.
LEMMA EnlargesGood ==
    ASSUME BitmapInv, NEW its, Enlarges(its), NEW mb \in Nat, mb >= maxBit,
           \A i \in DOMAIN items : its[i].map.size >= mb
    PROVE  BitmapGood(its, mb, indexed)
  <1>1. indexed \subseteq Item \X (0..MaxRow) /\ maxBit \in Nat
    BY DEF BitmapInv, BitmapGood
  <1>2. \A i, j \in DOMAIN its : its[i].value = its[j].value => i = j
    BY DEF BitmapInv, BitmapGood, Enlarges
  <1>3. \A i \in DOMAIN its :
          /\ its[i].map.size >= mb
          /\ its[i].map.bits = {r \in 0..MaxRow : <<its[i].value, r>> \in indexed}
    BY DEF BitmapInv, BitmapGood, Enlarges
  <1>4. \A q \in indexed : q[2] < mb
    <2> SUFFICES ASSUME NEW q \in indexed PROVE q[2] < mb
      OBVIOUS
    <2>1. q[2] < maxBit /\ q[2] \in 0..MaxRow
      BY <1>1 DEF BitmapInv, BitmapGood
    <2>2. q[2] \in Int
      BY <2>1
    <2> QED BY <1>1, <2>1, <2>2
  <1>5. \A q \in indexed : \E i \in DOMAIN its : its[i].value = q[1]
    BY DEF BitmapInv, BitmapGood, Enlarges
  <1>6. its \in Seq(BitmapNode)
    BY DEF Enlarges
  <1> QED BY <1>1, <1>2, <1>3, <1>4, <1>5, <1>6 DEF BitmapGood

\* What an insertion of row r finds once there is room for it.
LEMMA EnlargedGood ==
    ASSUME Bitmaps!BitmapAssumption, BitmapInv, NEW r \in 0..MaxRow
    PROVE  /\ BitmapGood(Bitmaps!Enlarged(r).items, Bitmaps!Enlarged(r).maxBit, indexed)
           /\ Enlarges(Bitmaps!Enlarged(r).items)
           /\ r < Bitmaps!Enlarged(r).maxBit
  <1>1. items \in Seq(BitmapNode) /\ maxBit \in Nat /\ r \in Nat /\ r + 1 \in Nat
        /\ Len(items) \in 0..Len(items) /\ DOMAIN items = 1..Len(items)
    BY DEF BitmapInv, BitmapGood
  <1>2. CASE r < maxBit
    <2>1. Bitmaps!Enlarged(r).items = items /\ Bitmaps!Enlarged(r).maxBit = maxBit
      BY <1>2 DEF Bitmaps!Enlarged
    <2>2. Enlarges(items)
      <3>1. \A i \in DOMAIN items : items[i].map.size \in Nat
        <4>1. \A i \in DOMAIN items : items[i] \in BitmapNode
          BY <1>1
        <4> QED BY <4>1 DEF BitmapNode, Bitmaps!Bitmap
      <3> QED BY <1>1, <3>1 DEF Enlarges
    <2> QED BY <1>2, <2>1, <2>2 DEF BitmapInv
  <1>3. CASE ~(r < maxBit)
    <2> DEFINE e == Bitmaps!Expanded(Len(items), r + 1)
    <2>1. Bitmaps!Enlarged(r).items = e /\ Bitmaps!Enlarged(r).maxBit = r + 1
      BY <1>3 DEF Bitmaps!Enlarged
    <2>2. r + 1 >= maxBit /\ r < r + 1
      BY <1>1, <1>3
    <2>3. Enlarges(e) /\ \A i \in DOMAIN items : i <= Len(items) => e[i].map.size = r + 1
      BY <1>1, <2>2, ExpandedKeeps
    <2>4. \A i \in DOMAIN items : e[i].map.size >= r + 1
      BY <1>1, <2>3
    <2> HIDE DEF e
    <2>5. BitmapGood(e, r + 1, indexed)
      BY <1>1, <2>2, <2>3, <2>4, EnlargesGood
    <2> QED BY <2>1, <2>2, <2>3, <2>5
  <1> QED BY <1>2, <1>3

\* Where the bitmap of a value is.
LEMMA BitmapFinds ==
    ASSUME BitmapInv, NEW v \in Item
    PROVE  /\ Bitmaps!Find(v) # 0 => Bitmaps!Find(v) \in DOMAIN items
                                     /\ items[Bitmaps!Find(v)].value = v
           /\ Bitmaps!Find(v) = 0 => \A i \in DOMAIN items : items[i].value # v
           /\ Bitmaps!Find(v) \in Nat
  <1> DEFINE I == {i \in 1..Len(items) : items[i].value = v}
             m == Min(I)
  <1>1. DOMAIN items = 1..Len(items) /\ Len(items) \in Nat
    BY DEF BitmapInv, BitmapGood
  <1>2. Bitmaps!Find(v) = IF I # {} THEN m ELSE 0
    BY DEF Bitmaps!Find, Bitmaps!SelectInSeq, Bitmaps!Min, Min
  <1>3. I # {} => m \in I
    <2>1. I \in SUBSET Nat
      OBVIOUS
    <2> HIDE DEF I
    <2> QED BY <2>1, MinIsLeast
  <1> HIDE DEF m
  <1>4. I # {} => m \in 1..Len(items) /\ items[m].value = v /\ m # 0 /\ m \in Nat
    BY <1>1, <1>3
  <1>5. I = {} => \A i \in DOMAIN items : items[i].value # v
    BY <1>1
  <1> HIDE DEF I
  <1> QED BY <1>1, <1>2, <1>4, <1>5

\* A bitmap is put at the place of its value, or behind the others.
Puts(new, its, p, item) ==
    \/ p = 0 /\ new = Append(its, item) /\ \A i \in DOMAIN its : its[i].value # item.value
    \/ p \in DOMAIN its /\ its[p].value = item.value /\ new = [its EXCEPT ![p] = item]

LEMMA PlacedGood ==
    ASSUME NEW its, NEW mb, NEW ix, BitmapGood(its, mb, ix), NEW p \in Nat, NEW item \in BitmapNode,
           NEW new, Puts(new, its, p, item), NEW r \in 0..MaxRow, r < mb, item.map.size >= mb,
           item.map.bits = {q \in 0..MaxRow : <<item.value, q>> \in ix} \cup {r}
    PROVE  BitmapGood(new, mb, ix \cup {<<item.value, r>>})
  <1> DEFINE jx == ix \cup {<<item.value, r>>}
  <1>1. its \in Seq(BitmapNode) /\ DOMAIN its = 1..Len(its) /\ Len(its) \in Nat
    BY DEF BitmapGood
  <1>2. \E x : /\ x \in DOMAIN new /\ new[x] = item /\ new \in Seq(BitmapNode)
               /\ DOMAIN its \subseteq DOMAIN new
               /\ \A i \in DOMAIN new : i # x => i \in DOMAIN its /\ new[i] = its[i]
                                               /\ its[i].value # item.value
               /\ \A i \in DOMAIN its : i # x => new[i] = its[i]
               /\ \A i \in DOMAIN its : i = x => its[i].value = item.value
    <2>1. CASE p = 0 /\ new = Append(its, item) /\ \A i \in DOMAIN its : its[i].value # item.value
      <3>1. /\ new \in Seq(BitmapNode) /\ DOMAIN new = 1..(Len(its) + 1)
            /\ new[Len(its) + 1] = item /\ \A i \in 1..Len(its) : new[i] = its[i]
        BY <1>1, <2>1
      <3> DEFINE x == Len(its) + 1
      <3>2. x \in DOMAIN new /\ x \notin DOMAIN its
            /\ \A i \in DOMAIN new : i # x => i \in DOMAIN its
        BY <1>1, <3>1
      <3>3. DOMAIN its \subseteq DOMAIN new
        BY <1>1, <3>1
      <3> HIDE DEF x
      <3>4. new[x] = item
        BY <3>1 DEF x
      <3> QED BY <1>1, <2>1, <3>1, <3>2, <3>3, <3>4
    <2>2. CASE p \in DOMAIN its /\ its[p].value = item.value /\ new = [its EXCEPT ![p] = item]
      <3>1. DOMAIN new = DOMAIN its /\ new \in Seq(BitmapNode)
        BY <1>1, <2>2
      <3>2. new[p] = item /\ \A i \in DOMAIN its : i # p => new[i] = its[i]
        BY <1>1, <2>2
      <3>3. \A i \in DOMAIN its : i # p => its[i].value # item.value
        BY <2>2 DEF BitmapGood
      <3> QED BY <2>2, <3>1, <3>2, <3>3
    <2> QED BY <2>1, <2>2 DEF Puts
  <1>3. PICK x : /\ x \in DOMAIN new /\ new[x] = item /\ new \in Seq(BitmapNode)
                 /\ DOMAIN its \subseteq DOMAIN new
                 /\ \A i \in DOMAIN new : i # x => i \in DOMAIN its /\ new[i] = its[i]
                                                 /\ its[i].value # item.value
                 /\ \A i \in DOMAIN its : i # x => new[i] = its[i]
                 /\ \A i \in DOMAIN its : i = x => its[i].value = item.value
    BY <1>2
  <1>4. item.value \in Item /\ mb \in Nat /\ jx \subseteq Item \X (0..MaxRow)
    <2>1. item.value \in Item
      BY DEF BitmapNode
    <2> QED BY <2>1 DEF BitmapGood
  <1>5. \A i, j \in DOMAIN new : new[i].value = new[j].value => i = j
    BY <1>3 DEF BitmapGood
  <1>6. ASSUME NEW i \in DOMAIN new
        PROVE  /\ new[i].map.size >= mb
               /\ new[i].map.bits = {q \in 0..MaxRow : <<new[i].value, q>> \in jx}
    <2>1. CASE i = x
      <3>1. {q \in 0..MaxRow : <<item.value, q>> \in jx}
            = {q \in 0..MaxRow : <<item.value, q>> \in ix} \cup {r}
        OBVIOUS
      <3> QED BY <1>3, <2>1, <3>1
    <2>2. CASE i # x
      <3>1. i \in DOMAIN its /\ new[i] = its[i] /\ its[i].value # item.value
        BY <1>3, <2>2
      <3>2. {q \in 0..MaxRow : <<its[i].value, q>> \in jx}
            = {q \in 0..MaxRow : <<its[i].value, q>> \in ix}
        BY <3>1
      <3> QED BY <3>1, <3>2 DEF BitmapGood
    <2> QED BY <2>1, <2>2
  <1>7. ASSUME NEW q \in jx PROVE q[2] < mb /\ \E i \in DOMAIN new : new[i].value = q[1]
    <2>1. CASE q = <<item.value, r>>
      BY <1>3, <2>1
    <2>2. CASE q \in ix
      <3>1. q[2] < mb
        BY <2>2 DEF BitmapGood
      <3>2. PICK i \in DOMAIN its : its[i].value = q[1]
        BY <2>2 DEF BitmapGood
      <3>3. new[i].value = its[i].value /\ i \in DOMAIN new
        BY <1>3, <3>2
      <3> QED BY <3>1, <3>2, <3>3
    <2> QED BY <2>1, <2>2
  <1> QED BY <1>3, <1>4, <1>5, <1>6, <1>7 DEF BitmapGood

LEMMA BitmapInsert ==
    ASSUME Bitmaps!BitmapAssumption, BitmapInv, NEW v \in Item, NEW r \in 0..MaxRow,
           Bitmaps!Insert(v, r)
    PROVE  BitmapInv'
  <1> DEFINE its == Bitmaps!Enlarged(r).items
             mb == Bitmaps!Enlarged(r).maxBit
             p == Bitmaps!Find(v)
             map == IF p = 0 THEN Bitmaps!Resized([bits |-> {}, size |-> 0], mb) ELSE its[p].map
             item == [value |-> v, map |-> Bitmaps!SetBit(map, r)]
  <1>1. /\ items' = IF p = 0 THEN Append(its, item) ELSE [its EXCEPT ![p] = item]
        /\ maxBit' = mb
        /\ indexed' = indexed \cup {<<v, r>>}
    BY DEF Bitmaps!Insert
  <1>2. BitmapGood(its, mb, indexed) /\ Enlarges(its) /\ r < mb
    BY EnlargedGood
  <1>3. /\ p # 0 => p \in DOMAIN items /\ items[p].value = v
        /\ p = 0 => \A i \in DOMAIN items : items[i].value # v
        /\ p \in Nat
    BY BitmapFinds
  <1> HIDE DEF its, mb, p
  <1>4. /\ p # 0 => p \in DOMAIN its /\ its[p].value = v /\ its[p] \in BitmapNode
        /\ p = 0 => \A i \in DOMAIN its : its[i].value # v
    <2>1. p # 0 => p \in DOMAIN its /\ its[p].value = v
      BY <1>2, <1>3 DEF Enlarges
    <2>2. its \in Seq(BitmapNode)
      BY <1>2 DEF Enlarges
    <2>3. p = 0 => \A i \in DOMAIN its : its[i].value # v
      BY <1>2, <1>3 DEF Enlarges
    <2> QED BY <2>1, <2>2, <2>3
  <1>5. mb \in Nat
    BY <1>2 DEF BitmapGood
  <1>6. /\ map.size \in Nat /\ map.size >= mb /\ map \in Bitmaps!Bitmap
        /\ map.bits = {q \in 0..MaxRow : <<v, q>> \in indexed}
    <2>1. CASE p = 0
      <3>1. map = Bitmaps!Resized([bits |-> {}, size |-> 0], mb)
        BY <2>1
      <3>2. map = [bits |-> {}, size |-> mb]
        BY <3>1 DEF Bitmaps!Resized
      <3>3. {q \in 0..MaxRow : <<v, q>> \in indexed} = {}
        <4> SUFFICES ASSUME NEW q \in 0..MaxRow, <<v, q>> \in indexed PROVE FALSE
          OBVIOUS
        <4>1. \E i \in DOMAIN its : its[i].value = <<v, q>>[1]
          BY <1>2 DEF BitmapGood
        <4> QED BY <1>4, <2>1, <4>1
      <3> HIDE DEF map
      <3> QED BY <1>5, <3>2, <3>3 DEF Bitmaps!Bitmap
    <2>2. CASE p # 0
      <3>1. map = its[p].map
        BY <2>2
      <3> HIDE DEF map
      <3>2. /\ its[p].map.size >= mb
            /\ its[p].map.bits = {q \in 0..MaxRow : <<v, q>> \in indexed}
        BY <1>2, <1>4, <2>2 DEF BitmapGood
      <3>3. its[p].map.size \in Nat /\ its[p].map \in Bitmaps!Bitmap
        BY <1>4, <2>2 DEF BitmapNode, Bitmaps!Bitmap
      <3> QED BY <3>1, <3>2, <3>3
    <2> QED BY <2>1, <2>2
  <1> HIDE DEF map
  <1>7. /\ item \in BitmapNode /\ item.value = v /\ item.map.size >= mb
        /\ item.map.bits = {q \in 0..MaxRow : <<item.value, q>> \in indexed} \cup {r}
    <2>1. r < map.size
      BY <1>2, <1>5, <1>6
    <2>2. Bitmaps!SetBit(map, r) = [map EXCEPT !.bits = @ \cup {r}]
      BY <2>1 DEF Bitmaps!SetBit
    <2>3. /\ Bitmaps!SetBit(map, r) \in Bitmaps!Bitmap
          /\ Bitmaps!SetBit(map, r).size = map.size
          /\ Bitmaps!SetBit(map, r).bits = map.bits \cup {r}
      <3>1. r \in Nat
        OBVIOUS
      <3>2. map.bits \cup {r} \in SUBSET Nat
        BY <1>6, <3>1 DEF Bitmaps!Bitmap
      <3>3. map = [bits |-> map.bits, size |-> map.size]
        BY <1>6 DEF Bitmaps!Bitmap
      <3>4. Bitmaps!SetBit(map, r) = [bits |-> map.bits \cup {r}, size |-> map.size]
        BY <2>2, <3>3
      <3> QED BY <1>6, <3>2, <3>4 DEF Bitmaps!Bitmap
    <2>4. item.value = v /\ item.map = Bitmaps!SetBit(map, r)
      OBVIOUS
    <2>5. item \in BitmapNode
      BY <2>3 DEF BitmapNode
    <2> HIDE DEF item
    <2> QED BY <1>6, <2>3, <2>4, <2>5
  <1> HIDE DEF item
  <1>8. Puts(items', its, p, item)
    BY <1>1, <1>3, <1>4, <1>7 DEF Puts
  <1>9. BitmapGood(items', mb, indexed \cup {<<item.value, r>>})
    BY <1>2, <1>3, <1>7, <1>8, PlacedGood
  <1> QED BY <1>1, <1>7, <1>9 DEF BitmapInv

LEMMA BitmapStep ==
    ASSUME Bitmaps!BitmapAssumption, BitmapInv, [Bitmaps!Next]_bitmapVars
    PROVE  BitmapInv'
  <1>1. ASSUME NEW v \in Item, NEW r \in 0..MaxRow, Bitmaps!InsertFails(v, r) PROVE BitmapInv'
    <2>1. indexed' = indexed /\ maxBit \in Nat /\ Len(items) \in Nat /\ r \in Nat
      BY <1>1 DEF Bitmaps!InsertFails, BitmapInv, BitmapGood
    <2>2. ASSUME r >= maxBit, NEW n \in 0..(Len(items) - 1), maxBit' = maxBit,
                 items' = Bitmaps!Expanded(n, r + 1)
          PROVE  BitmapInv'
      <3> DEFINE e == Bitmaps!Expanded(n, r + 1)
      <3>1. n \in 0..Len(items) /\ r + 1 \in Nat /\ r + 1 >= maxBit /\ maxBit >= maxBit
        BY <2>1, <2>2
      <3>2. Enlarges(e) /\ \A i \in DOMAIN items : e[i].map.size >= maxBit
        BY <3>1, ExpandedKeeps
      <3> HIDE DEF e
      <3>3. BitmapGood(e, maxBit, indexed)
        BY <2>1, <3>1, <3>2, EnlargesGood
      <3> QED BY <2>1, <2>2, <3>3 DEF BitmapInv, e
    <2>3. ASSUME items' = Bitmaps!Enlarged(r).items, maxBit' = Bitmaps!Enlarged(r).maxBit
          PROVE  BitmapInv'
      BY <2>1, <2>3, EnlargedGood DEF BitmapInv
    <2> QED BY <1>1, <2>2, <2>3 DEF Bitmaps!InsertFails
  <1>2. CASE UNCHANGED bitmapVars
    BY <1>2 DEF bitmapVars, BitmapInv
  <1> QED BY <1>1, <1>2, BitmapInsert DEF Bitmaps!Next, Bitmaps!Row

LEMMA BitmapInit ==
    ASSUME Bitmaps!Init
    PROVE  BitmapInv
  <1>1. items = <<>> /\ maxBit = 0 /\ indexed = {} /\ DOMAIN items = {}
    BY DEF Bitmaps!Init
  <1> QED BY <1>1 DEF BitmapInv, BitmapGood

LEMMA BitmapHolds ==
    ASSUME Bitmaps!BitmapAssumption, BitmapInv
    PROVE  Bitmaps!TypeOK /\ Bitmaps!QueriesExact /\ Bitmaps!OperationsExact
  <1>1. items \in Seq(BitmapNode) /\ maxBit \in Nat /\ indexed \subseteq Item \X (0..MaxRow)
    BY DEF BitmapInv, BitmapGood
  <1>2. Bitmaps!TypeOK
    BY <1>1 DEF Bitmaps!TypeOK, Bitmaps!Row, BitmapNode
  <1>3. ASSUME NEW v \in Bitmaps!Indexed
        PROVE  /\ Bitmaps!Query(v).bits = Bitmaps!RowsOf(v)
               /\ Bitmaps!Query(v).size >= maxBit
               /\ Bitmaps!Query(v).size \in Nat /\ Bitmaps!RowsOf(v) \in SUBSET (0..(maxBit - 1))
               /\ Bitmaps!Query(v) \in Bitmaps!Bitmap
    <2>1. Bitmaps!Find(v) \in DOMAIN items /\ items[Bitmaps!Find(v)].value = v /\ v \in Item
      BY BitmapFinds DEF Bitmaps!Indexed
    <2> DEFINE i == Bitmaps!Find(v)
    <2>2. Bitmaps!Query(v) = items[i].map
      BY DEF Bitmaps!Query
    <2>3. items[i] \in BitmapNode
      BY <1>1, <2>1
    <2> HIDE DEF i
    <2>4. items[i].map.size >= maxBit
          /\ items[i].map.bits = {r \in 0..MaxRow : <<items[i].value, r>> \in indexed}
      BY <2>1 DEF BitmapInv, BitmapGood, i
    <2>5. items[i].map.size \in Nat /\ items[i].map \in Bitmaps!Bitmap
      BY <2>3 DEF BitmapNode, Bitmaps!Bitmap
    <2>6. ASSUME NEW r \in 0..MaxRow, <<v, r>> \in indexed PROVE r \in 0..(maxBit - 1)
      <3>1. <<v, r>>[2] < maxBit
        BY <2>6 DEF BitmapInv, BitmapGood
      <3> QED BY <1>1, <3>1
    <2>7. Bitmaps!RowsOf(v) = {r \in 0..MaxRow : <<v, r>> \in indexed}
      BY DEF Bitmaps!RowsOf, Bitmaps!Row
    <2>8. items[i].value = v
      BY <2>1 DEF i
    <2> QED BY <2>2, <2>4, <2>5, <2>6, <2>7, <2>8
  <1>4. ASSUME NEW v \in Item \ Bitmaps!Indexed PROVE Bitmaps!RowsOf(v) = {}
    <2>1. \A i \in DOMAIN items : items[i].value # v
      BY BitmapFinds DEF Bitmaps!Indexed
    <2> SUFFICES ASSUME NEW r \in 0..MaxRow, <<v, r>> \in indexed PROVE FALSE
      BY DEF Bitmaps!RowsOf, Bitmaps!Row
    <2>2. \E i \in DOMAIN items : items[i].value = <<v, r>>[1]
      BY DEF BitmapInv, BitmapGood
    <2> QED BY <2>1, <2>2
  <1>5. Bitmaps!QueriesExact
    BY <1>3, <1>4 DEF Bitmaps!QueriesExact
  <1>6. ASSUME NEW v \in Bitmaps!Indexed, NEW w \in Bitmaps!Indexed
        PROVE  Bitmaps!And(Bitmaps!Query(v), Bitmaps!Query(w)).bits
               = Bitmaps!RowsOf(v) \cap Bitmaps!RowsOf(w)
    <2> DEFINE a == Bitmaps!Query(v)
               b == Bitmaps!Query(w)
               size == IF a.size < b.size THEN a.size ELSE b.size
               room == Bitmaps!Room(size)
    <2>1. /\ a.bits = Bitmaps!RowsOf(v) /\ a.size \in Nat /\ a.size >= maxBit
          /\ b.bits = Bitmaps!RowsOf(w) /\ b.size \in Nat /\ b.size >= maxBit
          /\ Bitmaps!RowsOf(v) \in SUBSET (0..(maxBit - 1))
      BY <1>3
    <2>2. Bitmaps!And(a, b).bits = {p \in a.bits \cap b.bits : p < room}
      BY DEF Bitmaps!And
    <2> HIDE DEF a, b
    <2>3. size \in Nat /\ size >= maxBit
      BY <2>1
    <2> HIDE DEF size
    <2>4. room \in Nat /\ room >= size
      BY <2>3, RoomIsEnough
    <2> HIDE DEF room
    <2>5. \A p \in a.bits : p < room
      BY <1>1, <2>1, <2>3, <2>4
    <2> QED BY <2>1, <2>2, <2>5 DEF a, b
  <1>7. ASSUME NEW v \in Bitmaps!Indexed, NEW w \in Bitmaps!Indexed
        PROVE  Bitmaps!Or(Bitmaps!Query(v), Bitmaps!Query(w)).bits
               = Bitmaps!RowsOf(v) \cup Bitmaps!RowsOf(w)
    <2>1. /\ Bitmaps!Query(v).bits = Bitmaps!RowsOf(v)
          /\ Bitmaps!Query(w).bits = Bitmaps!RowsOf(w)
      BY <1>3
    <2> QED BY <2>1 DEF Bitmaps!Or
  <1>8. ASSUME NEW v \in Bitmaps!Indexed, NEW r \in 0..(maxBit - 1)
        PROVE  /\ Bitmaps!TestBit(Bitmaps!Not(Bitmaps!Query(v)), r) <=> r \notin Bitmaps!RowsOf(v)
               /\ ~Bitmaps!TestBit(Bitmaps!ClearBit(Bitmaps!Query(v), r), r)
    <2> DEFINE a == Bitmaps!Query(v)
               n == Bitmaps!Not(a)
               c == Bitmaps!ClearBit(a, r)
    <2>1. a.bits = Bitmaps!RowsOf(v) /\ a.size \in Nat /\ a.size >= maxBit
      BY <1>3
    <2>2. n.bits = {p \in 0..(a.size - 1) : p \notin a.bits} /\ n.size = a.size
      BY DEF Bitmaps!Not
    <2>3. Bitmaps!TestBit(n, r) <=> r < n.size /\ r \in n.bits
      BY DEF Bitmaps!TestBit
    <2>4. Bitmaps!TestBit(c, r) => r \in c.bits
      BY DEF Bitmaps!TestBit
    <2>5. c = [a EXCEPT !.bits = @ \ IF r < a.size THEN {r} ELSE {}]
      BY DEF Bitmaps!ClearBit
    <2> HIDE DEF a, n, c
    <2>6. r < a.size /\ r \in 0..(a.size - 1)
      BY <1>1, <2>1
    <2>7. r \notin c.bits
      <3>1. a \in Bitmaps!Bitmap
        BY <1>3 DEF a
      <3> QED BY <2>5, <2>6, <3>1 DEF Bitmaps!Bitmap
    <2> QED BY <2>1, <2>2, <2>3, <2>4, <2>6, <2>7 DEF a, n, c
  <1>9. Bitmaps!OperationsExact
    BY <1>6, <1>7, <1>8 DEF Bitmaps!OperationsExact
  <1> QED BY <1>2, <1>5, <1>9

-----------------------------------------------------------------------------
(* The B+ tree, as long as it is a leaf.                                      *)

Entry == [key : Key, val : Item]

Sorted(s) == \A i, j \in DOMAIN s : i < j => s[i].key < s[j].key

\* s has the entries of st.
Holds(s, st) ==
    /\ \A i \in DOMAIN s : s[i].key \in DOMAIN st /\ s[i].val = st[s[i].key]
    /\ \A k \in DOMAIN st : \E i \in DOMAIN s : s[i].key = k

LeafInv ==
    /\ Ordered!TypeOK
    /\ ~split => Sorted(leaf) /\ Holds(leaf, held)

-----------------------------------------------------------------------------
(* The search by halves.                                                      *)

Places == 1..(Len(leaf) + 1)
Rights == 0..Len(leaf)

\* The places from left to right whose keys are not below k.
NotBelow(k, left, right) == {i \in left..right : k <= leaf[i].key}

\* What the search between left and right finds: the first of them, if any.
Found(k, left, right) ==
    IF left > right THEN left
    ELSE IF NotBelow(k, left, right) = {} THEN right + 1
    ELSE CHOOSE i \in NotBelow(k, left, right) : \A j \in NotBelow(k, left, right) : i <= j

\* One round of the search.
Round(S, k, left, right) ==
    IF left > right THEN left
    ELSE IF k = leaf[(left + right) \div 2].key THEN (left + right) \div 2
    ELSE IF k < leaf[(left + right) \div 2].key THEN S[<<left, ((left + right) \div 2) - 1>>]
    ELSE S[<<((left + right) \div 2) + 1, right>>]

IsSearch(S, k) == S = [part \in Places \X Rights |-> Round(S, k, part[1], part[2])]

\* The halves of what lies between two places are within the leaf.
LEMMA MidIsWithin ==
    ASSUME NEW n \in Nat, NEW l \in 1..(n + 1), NEW r \in 0..n, l <= r
    PROVE  /\ (l + r) \div 2 \in l..r /\ (l + r) \div 2 \in 1..n
           /\ ((l + r) \div 2) - 1 \in 0..n /\ ((l + r) \div 2) + 1 \in 1..(n + 1)
  OBVIOUS

\* What is found is found, whichever half is left.
LEMMA FoundByHalves ==
    ASSUME Ordered!BPlusTreeAssumption, Ordered!TypeOK, Sorted(leaf), NEW k \in Key,
           NEW l \in Places, NEW r \in Rights, l <= r, NEW m \in l..r
    PROVE  /\ k = leaf[m].key => Found(k, l, r) = m
           /\ k < leaf[m].key => Found(k, l, r) = Found(k, l, m - 1)
           /\ k > leaf[m].key => Found(k, l, r) = Found(k, m + 1, r)
  <1> DEFINE n == Len(leaf)
             N == NotBelow(k, l, r)
  <1>1. /\ n \in Nat /\ DOMAIN leaf = 1..n /\ k \in Int /\ m \in 1..n
        /\ \A i \in l..r : leaf[i].key \in Int /\ i \in 1..n
        /\ l \in Nat /\ r \in Nat /\ m \in Nat
    <2>1. n \in Nat /\ DOMAIN leaf = 1..n /\ \A i \in 1..n : leaf[i].key \in Key
      <3>1. leaf \in Seq(Entry)
        BY DEF Ordered!TypeOK, Entry
      <3>2. \A i \in 1..n : leaf[i] \in Entry
        BY <3>1
      <3> QED BY <3>1, <3>2 DEF Entry
    <2>2. Key \subseteq Int
      BY DEF Ordered!BPlusTreeAssumption
    <2> HIDE DEF n
    <2>3. l \in 1..(n + 1) /\ r \in 0..n
      BY DEF Places, Rights, n
    <2>4. \A i \in l..r : i \in 1..n
      BY <2>1, <2>3
    <2>5. \A i \in l..r : leaf[i].key \in Int
      BY <2>1, <2>2, <2>4
    <2>6. k \in Int /\ l \in Nat /\ r \in Nat /\ m \in Nat
      BY <2>1, <2>2, <2>3
    <2> QED BY <2>1, <2>4, <2>5, <2>6
  <1>2. \A i, j \in l..r : i < j => leaf[i].key < leaf[j].key
    BY <1>1 DEF Sorted
  <1>3. N = {i \in l..r : k <= leaf[i].key}
    BY DEF NotBelow
  <1> HIDE DEF n, N
  <1>4. ASSUME NEW x \in N, \A y \in N : x <= y PROVE Found(k, l, r) = x
    <2> DEFINE c == CHOOSE i \in N : \A j \in N : i <= j
    <2>1. c \in N /\ \A j \in N : c <= j
      BY <1>4
    <2>2. Found(k, l, r) = c
      BY <1>1, <1>4 DEF Found, N
    <2> HIDE DEF c
    <2>3. c \in Int /\ x \in Int
      BY <1>3, <1>4, <2>1
    <2> QED BY <1>4, <2>1, <2>2, <2>3
  <1>5. ASSUME k = leaf[m].key PROVE Found(k, l, r) = m
    <2>1. m \in N /\ \A y \in N : m <= y
      <3>1. \A y \in l..r : y < m => leaf[y].key < k
        BY <1>2, <1>5
      <3> QED BY <1>1, <1>3, <1>5, <3>1
    <2> QED BY <1>4, <2>1
  <1>6. ASSUME k < leaf[m].key PROVE Found(k, l, r) = Found(k, l, m - 1)
    <2>1. m \in N
      BY <1>1, <1>3, <1>6
    <2> DEFINE M == NotBelow(k, l, m - 1)
    <2>2. M = {i \in N : i <= m - 1}
      BY <1>1, <1>3 DEF NotBelow
    <2>3. CASE M = {}
      <3>1. \A y \in N : m <= y
        BY SMTT(30), <1>1, <1>3, <2>2, <2>3
      <3>2. Found(k, l, r) = m
        BY <1>4, <2>1, <3>1
      <3>3. Found(k, l, m - 1) = m
        BY <1>1, <2>3 DEF Found
      <3> QED BY <3>2, <3>3
    <2>4. CASE M # {}
      <3> DEFINE c == CHOOSE i \in M : \A j \in M : i <= j
      <3>1. c \in M /\ \A j \in M : c <= j
        <4>1. M \in SUBSET Nat
          BY <1>1, <1>3, <2>2
        <4> HIDE DEF M
        <4> QED BY <2>4, <4>1, LeastNumber
      <3>2. ~(l > m - 1)
        BY <1>1, <1>3, <2>2, <3>1
      <3>3. Found(k, l, m - 1) = c
        BY <2>4, <3>2 DEF Found
      <3> HIDE DEF c, M
      <3>4. c \in N /\ \A y \in N : c <= y
        BY <1>1, <1>3, <2>2, <3>1
      <3> QED BY <1>4, <3>3, <3>4
    <2> QED BY <2>3, <2>4
  <1>7. ASSUME k > leaf[m].key PROVE Found(k, l, r) = Found(k, m + 1, r)
    <2> DEFINE M == NotBelow(k, m + 1, r)
    <2>1. \A i \in l..r : i <= m => leaf[i].key < k
      <3> SUFFICES ASSUME NEW i \in l..r, i <= m PROVE leaf[i].key < k
        OBVIOUS
      <3>1. i = m \/ leaf[i].key < leaf[m].key
        BY <1>1, <1>2
      <3> QED BY <1>1, <1>7, <3>1
    <2>2. M = N
      <3>1. M = {i \in (m + 1)..r : k <= leaf[i].key}
        BY DEF NotBelow
      <3>2. \A i \in N : i \in (m + 1)..r
        BY <1>1, <1>3, <2>1
      <3>3. (m + 1)..r \subseteq l..r
        BY <1>1
      <3> HIDE DEF M
      <3> QED BY <1>3, <3>1, <3>2, <3>3
    <2>3. CASE N = {}
      <3>1. Found(k, l, r) = r + 1
        BY <1>1, <2>3 DEF Found, N
      <3>2. Found(k, m + 1, r) = r + 1
        BY <1>1, <2>2, <2>3 DEF Found
      <3> QED BY <3>1, <3>2
    <2>4. CASE N # {}
      <3>1. ~(m + 1 > r) /\ ~(l > r)
        <4>1. PICK i \in N : TRUE
          BY <2>4
        <4>2. i \in l..r /\ ~(i <= m)
          BY <1>1, <1>3, <2>1, <4>1
        <4> QED BY <1>1, <4>2
      <3>2. Found(k, l, r) = CHOOSE i \in N : \A j \in N : i <= j
        BY <2>4, <3>1 DEF Found, N
      <3>3. Found(k, m + 1, r) = CHOOSE i \in M : \A j \in M : i <= j
        BY <2>2, <2>4, <3>1 DEF Found
      <3> HIDE DEF M
      <3> QED BY <2>2, <3>2, <3>3
    <2> QED BY <2>3, <2>4
  <1> QED BY <1>5, <1>6, <1>7

\* There is a search, and it finds what is to be found.
LEMMA SearchFinds ==
    ASSUME Ordered!BPlusTreeAssumption, Ordered!TypeOK, Sorted(leaf), NEW k \in Key
    PROVE  /\ \E S : IsSearch(S, k)
           /\ \A S : IsSearch(S, k) =>
                \A l \in Places, r \in Rights : S[<<l, r>>] = Found(k, l, r)
  <1> DEFINE n == Len(leaf)
             G == [part \in Places \X Rights |-> Found(k, part[1], part[2])]
  <1>1. n \in Nat
    BY DEF Ordered!TypeOK
  <1>2. ASSUME NEW l \in Places, NEW r \in Rights, l <= r
        PROVE  LET m == (l + r) \div 2 IN
               /\ m \in l..r /\ m - 1 \in Rights /\ m + 1 \in Places /\ m \in Nat
               /\ l \in Nat /\ r \in Nat
    BY <1>1, <1>2, MidIsWithin DEF Places, Rights
  <1>6. leaf \in Seq(Entry) /\ Key \subseteq Int
    BY DEF Ordered!TypeOK, Entry, Ordered!BPlusTreeAssumption
  <1>7. \A i \in 1..n : leaf[i].key \in Int
    <2>1. \A i \in 1..n : leaf[i] \in Entry
      BY <1>6
    <2> QED BY <1>6, <2>1 DEF Entry
  <1>3. \A l \in Places, r \in Rights : Round(G, k, l, r) = Found(k, l, r)
    <2> SUFFICES ASSUME NEW l \in Places, NEW r \in Rights
                 PROVE  Round(G, k, l, r) = Found(k, l, r)
      OBVIOUS
    <2>1. CASE l > r
      BY <2>1 DEF Round, Found
    <2>2. CASE ~(l > r)
      <3> DEFINE m == (l + r) \div 2
      <3>1. l \in Int /\ r \in Int
        BY <1>1 DEF Places, Rights
      <3>2. l <= r
        BY <2>2, <3>1
      <3>3. m \in l..r /\ m - 1 \in Rights /\ m + 1 \in Places
        BY <1>2, <3>2
      <3>4. k \in Int /\ leaf[m].key \in Int
        <4>1. m \in 1..n
          BY <1>1, <3>3 DEF Places, Rights
        <4> QED BY <1>6, <1>7, <4>1
      <3>5. Round(G, k, l, r) = IF k = leaf[m].key THEN m
                                ELSE IF k < leaf[m].key THEN G[<<l, m - 1>>] ELSE G[<<m + 1, r>>]
        BY <2>2 DEF Round
      <3> HIDE DEF m
      <3>6. G[<<l, m - 1>>] = Found(k, l, m - 1) /\ G[<<m + 1, r>>] = Found(k, m + 1, r)
        BY <3>3
      <3>7. /\ k = leaf[m].key => Found(k, l, r) = m
            /\ k < leaf[m].key => Found(k, l, r) = Found(k, l, m - 1)
            /\ k > leaf[m].key => Found(k, l, r) = Found(k, m + 1, r)
        BY <3>2, <3>3, FoundByHalves
      <3> HIDE DEF G
      <3> QED BY <3>4, <3>5, <3>6, <3>7
    <2> QED BY <2>1, <2>2
  <1>4. IsSearch(G, k)
    <2>1. ASSUME NEW part \in Places \X Rights
          PROVE  Round(G, k, part[1], part[2]) = Found(k, part[1], part[2])
      <3>1. part[1] \in Places /\ part[2] \in Rights
        OBVIOUS
      <3> HIDE DEF G
      <3> QED BY <1>3, <3>1
    <2>2. G = [part \in Places \X Rights |-> Round(G, k, part[1], part[2])]
      <3> DEFINE H == [part \in Places \X Rights |-> Round(G, k, part[1], part[2])]
      <3>1. \A part \in Places \X Rights : H[part] = G[part]
        BY <2>1
      <3>2. /\ H = [part \in Places \X Rights |-> H[part]]
            /\ G = [part \in Places \X Rights |-> G[part]]
        OBVIOUS
      <3> HIDE DEF G, H
      <3>3. H = G
        BY <3>1, <3>2
      <3> QED BY <3>3 DEF H
    <2> HIDE DEF G
    <2> QED BY <2>2 DEF IsSearch
  <1>5. ASSUME NEW S, IsSearch(S, k), NEW l0 \in Places, NEW r0 \in Rights
        PROVE  S[<<l0, r0>>] = Found(k, l0, r0)
    <2>1. \A l \in Places, r \in Rights : S[<<l, r>>] = Round(S, k, l, r)
      <3> DEFINE T == [part \in Places \X Rights |-> Round(S, k, part[1], part[2])]
      <3>1. S = T
        BY <1>5 DEF IsSearch
      <3>2. \A l \in Places, r \in Rights : T[<<l, r>>] = Round(S, k, l, r)
        OBVIOUS
      <3> HIDE DEF T
      <3> QED BY <3>1, <3>2
    <2> DEFINE Done == {d \in 0..n : \A l \in Places, r \in Rights :
                                       r - l < d => S[<<l, r>>] = Found(k, l, r)}
    <2>2. 0 \in Done
      <3> SUFFICES ASSUME NEW l \in Places, NEW r \in Rights, r - l < 0
                   PROVE  S[<<l, r>>] = Found(k, l, r)
        BY <1>1
      <3>1. l > r
        BY <1>1 DEF Places, Rights
      <3> QED BY <2>1, <3>1 DEF Round, Found
    <2>3. ASSUME NEW d \in 0..n, d \in Done, d # n PROVE d + 1 \in Done
      <3> SUFFICES ASSUME NEW l \in Places, NEW r \in Rights, r - l < d + 1
                   PROVE  S[<<l, r>>] = Found(k, l, r)
        BY <1>1, <2>3
      <3>1. CASE l > r
        BY <2>1, <3>1 DEF Round, Found
      <3>2. CASE ~(l > r)
        <4> DEFINE m == (l + r) \div 2
        <4>1. l \in Int /\ r \in Int
          BY <1>1 DEF Places, Rights
        <4>2. l <= r
          BY <3>2, <4>1
        <4>3. m \in l..r /\ m - 1 \in Rights /\ m + 1 \in Places
          BY <1>2, <4>2
        <4>4. Round(S, k, l, r) = IF k = leaf[m].key THEN m
                                  ELSE IF k < leaf[m].key THEN S[<<l, m - 1>>] ELSE S[<<m + 1, r>>]
          BY <3>2 DEF Round
        <4>9. k \in Int /\ leaf[m].key \in Int
          <5>1. m \in 1..n
            BY <1>1, <4>3 DEF Places, Rights
          <5> QED BY <1>6, <1>7, <5>1
        <4> HIDE DEF m
        <4>5. (m - 1) - l < d /\ r - (m + 1) < d
          BY <4>1, <4>3
        <4>6. S[<<l, m - 1>>] = Found(k, l, m - 1) /\ S[<<m + 1, r>>] = Found(k, m + 1, r)
          BY <2>3, <4>3, <4>5
        <4>7. /\ k = leaf[m].key => Found(k, l, r) = m
              /\ k < leaf[m].key => Found(k, l, r) = Found(k, l, m - 1)
              /\ k > leaf[m].key => Found(k, l, r) = Found(k, m + 1, r)
          BY <4>2, <4>3, FoundByHalves
        <4>8. S[<<l, r>>] = Round(S, k, l, r)
          BY <2>1
        <4> QED BY <4>4, <4>6, <4>7, <4>8, <4>9
      <3> QED BY <3>1, <3>2
    <2>4. n \in Done
      <3> HIDE DEF Done
      <3>1. \A d \in 0..n : d \in Done
        BY <1>1, <2>2, <2>3, UpTo
      <3> QED BY <1>1, <3>1
    <2>5. r0 - l0 < n
      BY <1>1 DEF Places, Rights
    <2> QED BY <2>4, <2>5
  <1> QED BY <1>4, <1>5

\* The place of a key: those before it have smaller keys, the others have not.
LEMMA IndexIs ==
    ASSUME Ordered!BPlusTreeAssumption, Ordered!TypeOK, Sorted(leaf), NEW k \in Key
    PROVE  /\ Ordered!Index(k) \in 1..(Len(leaf) + 1)
           /\ \A j \in 1..Len(leaf) : /\ j < Ordered!Index(k) => leaf[j].key < k
                                      /\ j >= Ordered!Index(k) => k <= leaf[j].key
  <1> DEFINE n == Len(leaf)
             S == CHOOSE S : IsSearch(S, k)
             N == NotBelow(k, 1, n)
             c == CHOOSE i \in N : \A j \in N : i <= j
  <1>1. n \in Nat /\ 1 \in Places /\ n \in Rights
    BY DEF Ordered!TypeOK, Places, Rights
  <1>2. Ordered!Between(k) = S
    BY DEF Ordered!Between, IsSearch, Round, Places, Rights
  <1>3. IsSearch(S, k)
    <2>1. \E T : IsSearch(T, k)
      BY SearchFinds
    <2> QED BY <2>1
  <1> HIDE DEF S
  <1>4. Ordered!Index(k) = S[<<1, n>>]
    BY <1>2 DEF Ordered!Index
  <1>5. S[<<1, n>>] = Found(k, 1, n)
    BY <1>1, <1>3, SearchFinds
  <1>6. leaf \in Seq(Entry) /\ Key \subseteq Int
    BY DEF Ordered!TypeOK, Entry, Ordered!BPlusTreeAssumption
  <1>7. \A i \in 1..n : leaf[i].key \in Int
    <2>1. \A i \in 1..n : leaf[i] \in Entry
      BY <1>6
    <2> QED BY <1>6, <2>1 DEF Entry
  <1>8. N = {i \in 1..n : k <= leaf[i].key} /\ k \in Int
    BY <1>6 DEF NotBelow
  <1>9. \A i, j \in 1..n : i < j => leaf[i].key < leaf[j].key
    BY <1>6 DEF Sorted
  <1>10. Found(k, 1, n) = IF 1 > n THEN 1 ELSE IF N = {} THEN n + 1 ELSE c
    BY DEF Found
  <1>11. N # {} => c \in N /\ \A j \in N : c <= j
    <2>1. N \in SUBSET Nat
      BY <1>8
    <2> HIDE DEF N
    <2> QED BY <2>1, LeastNumber
  <1> HIDE DEF n, N, c
  <1>12. CASE N = {}
    <2>1. Ordered!Index(k) = n + 1
      BY <1>1, <1>4, <1>5, <1>10, <1>12
    <2> QED BY <1>1, <1>7, <1>8, <1>12, <2>1 DEF n
  <1>13. CASE N # {}
    <2>1. c \in 1..n /\ k <= leaf[c].key
      BY <1>8, <1>11, <1>13
    <2>2. Ordered!Index(k) = c
      BY <1>1, <1>4, <1>5, <1>10, <1>13, <2>1
    <2>3. ASSUME NEW j \in 1..n, j < c PROVE leaf[j].key < k
      <3>1. j \notin N
        BY <1>1, <1>11, <1>13, <2>1, <2>3
      <3> QED BY <1>7, <1>8, <3>1
    <2>4. ASSUME NEW j \in 1..n, j >= c PROVE k <= leaf[j].key
      <3>1. j = c \/ leaf[c].key < leaf[j].key
        BY <1>1, <1>9, <2>1, <2>4
      <3>2. leaf[c].key \in Int /\ leaf[j].key \in Int
        BY <1>7, <2>1
      <3> QED BY <1>8, <2>1, <3>1, <3>2
    <2> QED BY <1>1, <2>1, <2>2, <2>3, <2>4 DEF n
  <1> QED BY <1>12, <1>13

\* A key is there if and only if it is at its place.
LEMMA ThereIs ==
    ASSUME Ordered!BPlusTreeAssumption, Ordered!TypeOK, Sorted(leaf), NEW k \in Key
    PROVE  /\ Ordered!IsThere(k)
               => Ordered!Index(k) \in 1..Len(leaf) /\ leaf[Ordered!Index(k)].key = k
           /\ ~Ordered!IsThere(k) =>
                \A j \in 1..Len(leaf) : /\ leaf[j].key # k
                                        /\ j < Ordered!Index(k) => leaf[j].key < k
                                        /\ j >= Ordered!Index(k) => k < leaf[j].key
  <1> DEFINE n == Len(leaf)
             i == Ordered!Index(k)
  <1>1. /\ i \in 1..(n + 1)
        /\ \A j \in 1..n : /\ j < i => leaf[j].key < k
                           /\ j >= i => k <= leaf[j].key
    BY IndexIs
  <1>2. leaf \in Seq(Entry) /\ Key \subseteq Int /\ n \in Nat /\ k \in Int
    BY DEF Ordered!TypeOK, Entry, Ordered!BPlusTreeAssumption
  <1>3. \A j \in 1..n : leaf[j].key \in Int
    <2>1. \A j \in 1..n : leaf[j] \in Entry
      BY <1>2
    <2> QED BY <1>2, <2>1 DEF Entry
  <1>4. \A j, h \in 1..n : h < j => leaf[h].key < leaf[j].key
    BY <1>2 DEF Sorted
  <1>5. Ordered!IsThere(k) <=> i <= n /\ leaf[i].key = k
    BY DEF Ordered!IsThere
  <1> HIDE DEF n, i
  <1>6. Ordered!IsThere(k) => i \in 1..n /\ leaf[i].key = k
    BY <1>1, <1>2, <1>5
  <1>7. ASSUME ~Ordered!IsThere(k), NEW j \in 1..n
        PROVE  leaf[j].key # k /\ (j < i => leaf[j].key < k) /\ (j >= i => k < leaf[j].key)
    <2>3. k \in Int /\ leaf[j].key \in Int /\ i \in Int /\ j \in Int
      BY <1>1, <1>2, <1>3
    <2>1. CASE j < i
      <3>1. leaf[j].key < k
        BY <1>1, <2>1
      <3> QED BY <2>1, <2>3, <3>1
    <2>2. CASE j >= i
      <3>1. i \in 1..n
        BY <1>1, <1>2, <2>2
      <3>2. k < leaf[i].key
        <4>1. k <= leaf[i].key
          BY <1>1, <3>1
        <4>2. leaf[i].key # k
          BY <1>2, <1>5, <1>7, <3>1
        <4>3. leaf[i].key \in Int
          BY <1>3, <3>1
        <4> QED BY <2>3, <4>1, <4>2, <4>3
      <3>3. j = i \/ leaf[i].key < leaf[j].key
        BY <1>2, <1>4, <2>2, <3>1
      <3>4. leaf[i].key \in Int /\ leaf[j].key \in Int
        BY <1>3, <3>1
      <3> QED BY <2>2, <2>3, <3>2, <3>3, <3>4
    <2> QED BY <2>1, <2>2, <2>3
  <1> QED BY <1>6, <1>7 DEF i, n

-----------------------------------------------------------------------------
(* The leaf.                                                                  *)

LEMMA LeafTypes ==
    ASSUME Ordered!BPlusTreeAssumption, LeafInv
    PROVE  /\ leaf \in Seq(Entry) /\ Len(leaf) \in Nat /\ DOMAIN leaf = 1..Len(leaf)
           /\ Key \subseteq Int /\ \A i \in 1..Len(leaf) : leaf[i].key \in Int
           /\ leafCapacity \in 0..MaxCapacity /\ MaxCapacity \in Nat /\ Len(leaf) <= leafCapacity
           /\ DOMAIN held \subseteq Key /\ \A k \in DOMAIN held : held[k] \in Item
  <1>1. leaf \in Seq(Entry) /\ Key \subseteq Int
    BY DEF LeafInv, Ordered!TypeOK, Entry, Ordered!BPlusTreeAssumption
  <1>2. \A i \in 1..Len(leaf) : leaf[i] \in Entry
    BY <1>1
  <1>3. \A i \in 1..Len(leaf) : leaf[i].key \in Int
    BY <1>1, <1>2 DEF Entry
  <1> QED BY <1>1, <1>3 DEF LeafInv, Ordered!TypeOK, Ordered!BPlusTreeAssumption

LEMMA LeafInsert ==
    ASSUME Ordered!BPlusTreeAssumption, LeafInv, NEW k \in Key, NEW v \in Item,
           Ordered!Insert(k, v)
    PROVE  LeafInv'
  <1> DEFINE i == Ordered!Index(k)
             e == [key |-> k, val |-> v]
             n == Len(leaf)
  <1>1. /\ leaf \in Seq(Entry) /\ n \in Nat /\ DOMAIN leaf = 1..n
        /\ Key \subseteq Int /\ \A j \in 1..n : leaf[j].key \in Int
        /\ leafCapacity \in 0..MaxCapacity /\ MaxCapacity \in Nat /\ n <= leafCapacity
        /\ DOMAIN held \subseteq Key /\ \A x \in DOMAIN held : held[x] \in Item
    BY LeafTypes
  <1>2. Sorted(leaf) /\ Holds(leaf, held) /\ Ordered!TypeOK /\ split = FALSE
    BY DEF LeafInv, Ordered!Insert, Ordered!TypeOK
  <1>3. /\ held' = [x \in DOMAIN held \cup {k} |-> IF x = k THEN v ELSE held[x]]
        /\ leafCapacity' = leafCapacity
    BY DEF Ordered!Insert
  <1>4. /\ DOMAIN held' = DOMAIN held \cup {k} /\ held'[k] = v
        /\ \A x \in DOMAIN held : x # k => held'[x] = held[x]
    BY <1>3
  <1>5. DOMAIN held' \subseteq Key /\ \A x \in DOMAIN held' : held'[x] \in Item
    BY <1>1, <1>4
  <1>6. e \in Entry /\ e.key = k /\ e.val = v /\ k \in Int
    BY <1>1 DEF Entry
  <1> HIDE DEF e
  <1>7. ASSUME leaf' \in Seq(Entry), Len(leaf') <= leafCapacity, split' \in BOOLEAN,
               ~split' => Sorted(leaf') /\ Holds(leaf', held')
        PROVE  LeafInv'
    BY <1>1, <1>3, <1>5, <1>7 DEF LeafInv, Ordered!TypeOK, Entry
  <1>8. CASE /\ Ordered!IsThere(k)
             /\ leaf' = [leaf EXCEPT ![i].val = v]
             /\ split' = split
    <2>1. i \in 1..n /\ leaf[i].key = k
      BY <1>2, <1>8, ThereIs
    <2> HIDE DEF i
    <2>2. leaf[i] \in Entry
      BY <1>1, <2>1
    <2>3. leaf' = [leaf EXCEPT ![i] = e]
      <3>1. [leaf[i] EXCEPT !.val = v] = e
        BY <2>1, <2>2 DEF Entry, e
      <3>2. leaf' = [leaf EXCEPT ![i] = [leaf[i] EXCEPT !.val = v]]
        BY <1>1, <1>8, <2>1
      <3> QED BY <3>1, <3>2
    <2>4. leaf' \in Seq(Entry) /\ Len(leaf') = n /\ DOMAIN leaf' = 1..n
      BY <1>1, <1>6, <2>1, <2>3
    <2>5. leaf'[i] = e /\ \A j \in 1..n : j # i => leaf'[j] = leaf[j]
      BY <1>1, <2>1, <2>3
    <2>6. \A j \in 1..n : leaf'[j].key = leaf[j].key
      BY <1>6, <2>1, <2>5
    <2>7. Sorted(leaf')
      BY <1>1, <1>2, <2>4, <2>6 DEF Sorted
    <2>8. \A j \in 1..n : j # i => leaf[j].key # k
      <3>1. \A j \in 1..n : j # i => j < i \/ i < j
        BY <2>1
      <3>2. \A j, h \in 1..n : j < h => leaf[j].key < leaf[h].key
        BY <1>1, <1>2 DEF Sorted
      <3> QED BY <1>1, <2>1, <3>1, <3>2
    <2>9. ASSUME NEW j \in 1..n
          PROVE  leaf'[j].key \in DOMAIN held' /\ leaf'[j].val = held'[leaf'[j].key]
      <3>1. CASE j = i
        BY <1>4, <1>6, <2>5, <3>1
      <3>2. CASE j # i
        <4>1. leaf'[j] = leaf[j] /\ leaf[j].key # k
          BY <2>5, <2>8, <3>2
        <4>2. leaf[j].key \in DOMAIN held /\ leaf[j].val = held[leaf[j].key]
          BY <1>1, <1>2 DEF Holds
        <4> QED BY <1>4, <4>1, <4>2
      <3> QED BY <3>1, <3>2
    <2>10. ASSUME NEW x \in DOMAIN held' PROVE \E j \in 1..n : leaf'[j].key = x
      <3>1. CASE x = k
        BY <2>1, <2>6, <3>1
      <3>2. CASE x # k
        <4>1. PICK j \in 1..n : leaf[j].key = x
          BY <1>1, <1>2, <1>4, <3>2 DEF Holds
        <4> QED BY <2>6, <4>1
      <3> QED BY <3>1, <3>2
    <2>11. Holds(leaf', held')
      BY <2>4, <2>9, <2>10 DEF Holds
    <2> QED BY <1>1, <1>2, <1>7, <1>8, <2>4, <2>7, <2>11
  <1>9. CASE /\ ~Ordered!IsThere(k) /\ n < leafCapacity
             /\ leaf' = InsertAt(leaf, i, e)
             /\ split' = split
    <2>1. /\ i \in 1..(n + 1)
          /\ \A j \in 1..n : leaf[j].key # k /\ (j < i => leaf[j].key < k)
                             /\ (j >= i => k < leaf[j].key)
      <3>1. i \in 1..(n + 1)
        BY <1>2, IndexIs
      <3>2. \A j \in 1..n : leaf[j].key # k /\ (j < i => leaf[j].key < k)
                            /\ (j >= i => k < leaf[j].key)
        BY <1>2, <1>9, ThereIs
      <3> QED BY <3>1, <3>2
    <2> HIDE DEF i
    <2>2. /\ leaf' \in Seq(Entry) /\ Len(leaf') = n + 1 /\ leaf'[i] = e
          /\ \A j \in 1..n : (j < i => leaf'[j] = leaf[j]) /\ (j >= i => leaf'[j + 1] = leaf[j])
      BY <1>1, <1>6, <1>9, <2>1, InsertAtShifts
    <2> DEFINE From(j) == IF j < i THEN j ELSE j - 1
    <2>3. DOMAIN leaf' = 1..(n + 1)
      BY <2>2
    <2> HIDE DEF n
    <2>4. ASSUME NEW j \in 1..(n + 1), j # i
          PROVE  From(j) \in 1..n /\ leaf'[j] = leaf[From(j)]
                 /\ (j < i => From(j) < i) /\ (j > i => From(j) >= i)
      <3>1. CASE j < i
        BY <1>1, <2>1, <2>2, <3>1
      <3>2. CASE j > i
        <4>1. j - 1 \in 1..n /\ j - 1 >= i /\ (j - 1) + 1 = j /\ From(j) = j - 1
          BY <1>1, <2>1, <3>2
        <4> QED BY <2>1, <2>2, <3>2, <4>1
      <3> QED BY <1>1, <2>1, <2>4, <3>1, <3>2
    <2>5. ASSUME NEW j \in 1..n
          PROVE  \E h \in 1..(n + 1) : h # i /\ leaf'[h] = leaf[j]
      <3>1. CASE j < i
        BY <1>1, <2>1, <2>2, <3>1
      <3>2. CASE ~(j < i)
        <4>1. j + 1 \in 1..(n + 1) /\ j + 1 # i /\ j >= i
          BY <1>1, <2>1, <3>2
        <4> QED BY <2>2, <4>1
      <3> QED BY <3>1, <3>2
    <2>6. ASSUME NEW a \in 1..(n + 1), NEW b \in 1..(n + 1), a < b
          PROVE  leaf'[a].key < leaf'[b].key
      <3>1. \A j, h \in 1..n : j < h => leaf[j].key < leaf[h].key
        BY <1>1, <1>2 DEF Sorted, n
      <3>2. CASE a = i
        <4>1. b # i /\ b > i
          BY <1>1, <2>1, <2>6, <3>2
        <4>2. From(b) \in 1..n /\ leaf'[b] = leaf[From(b)] /\ From(b) >= i
          BY <2>4, <4>1
        <4> QED BY <1>6, <2>1, <2>2, <3>2, <4>2
      <3>3. CASE b = i
        <4>1. a # i /\ a < i
          BY <1>1, <2>1, <2>6, <3>3
        <4>2. From(a) \in 1..n /\ leaf'[a] = leaf[From(a)] /\ From(a) < i
          BY <2>4, <4>1
        <4> QED BY <1>6, <2>1, <2>2, <3>3, <4>2
      <3>4. CASE a # i /\ b # i
        <4>1. From(a) \in 1..n /\ leaf'[a] = leaf[From(a)] /\ From(b) \in 1..n
              /\ leaf'[b] = leaf[From(b)]
          BY <2>4, <3>4
        <4>2. From(a) < From(b)
          BY <1>1, <2>1, <2>6, <3>4
        <4> QED BY <3>1, <4>1, <4>2
      <3> QED BY <3>2, <3>3, <3>4
    <2>7. Sorted(leaf')
      BY <2>3, <2>6 DEF Sorted
    <2> HIDE DEF From
    <2>8. ASSUME NEW j \in 1..(n + 1)
          PROVE  leaf'[j].key \in DOMAIN held' /\ leaf'[j].val = held'[leaf'[j].key]
      <3>1. CASE j = i
        BY <1>4, <1>6, <2>2, <3>1
      <3>2. CASE j # i
        <4>1. From(j) \in 1..n /\ leaf'[j] = leaf[From(j)]
          BY <2>4, <3>2
        <4>2. leaf[From(j)].key # k
          BY <2>1, <4>1
        <4>3. /\ leaf[From(j)].key \in DOMAIN held
              /\ leaf[From(j)].val = held[leaf[From(j)].key]
          BY <1>1, <1>2, <4>1 DEF Holds
        <4> QED BY <1>4, <4>1, <4>2, <4>3
      <3> QED BY <3>1, <3>2
    <2>9. ASSUME NEW x \in DOMAIN held' PROVE \E j \in 1..(n + 1) : leaf'[j].key = x
      <3>1. CASE x = k
        BY <1>6, <2>1, <2>2, <3>1
      <3>2. CASE x # k
        <4>1. PICK j \in 1..n : leaf[j].key = x
          BY <1>1, <1>2, <1>4, <3>2 DEF Holds
        <4> QED BY <2>5, <4>1
      <3> QED BY <3>1, <3>2
    <2>10. Holds(leaf', held')
      BY <2>3, <2>8, <2>9 DEF Holds
    <2>11. Len(leaf') <= leafCapacity
      BY <1>1, <1>9, <2>2
    <2> QED BY <1>2, <1>7, <1>9, <2>2, <2>7, <2>10, <2>11
  <1>10. CASE split' = TRUE /\ leaf' = leaf
    BY <1>1, <1>7, <1>10
  <1> QED BY <1>8, <1>9, <1>10 DEF Ordered!Insert, Ordered!InsertAt, InsertAt, e

LEMMA LeafDelete ==
    ASSUME Ordered!BPlusTreeAssumption, LeafInv, NEW k \in Key, Ordered!Delete(k)
    PROVE  LeafInv'
  <1> DEFINE i == Ordered!Index(k)
             n == Len(leaf)
             From(j) == IF j < i THEN j ELSE j + 1
  <1>1. /\ leaf \in Seq(Entry) /\ n \in Nat /\ DOMAIN leaf = 1..n
        /\ Key \subseteq Int /\ \A j \in 1..n : leaf[j].key \in Int
        /\ leafCapacity \in 0..MaxCapacity /\ MaxCapacity \in Nat /\ n <= leafCapacity
        /\ DOMAIN held \subseteq Key /\ \A x \in DOMAIN held : held[x] \in Item
    BY LeafTypes
  <1>2. Sorted(leaf) /\ Holds(leaf, held) /\ Ordered!TypeOK /\ split = FALSE
    BY DEF LeafInv, Ordered!Delete, Ordered!TypeOK
  <1>3. /\ held' = [x \in DOMAIN held \ {k} |-> held[x]]
        /\ leafCapacity' = leafCapacity /\ split' = FALSE
        /\ leaf' = RemoveAt(leaf, i)
    BY <1>2 DEF Ordered!Delete, Ordered!RemoveAt, RemoveAt
  <1>4. DOMAIN held' = DOMAIN held \ {k} /\ \A x \in DOMAIN held : x # k => held'[x] = held[x]
    BY <1>3
  <1>5. i \in 1..n /\ leaf[i].key = k
    BY SMTT(30), <1>2, ThereIs DEF Ordered!Delete
  <1> HIDE DEF i
  <1>6. /\ leaf' \in Seq(Entry) /\ Len(leaf') = n - 1
        /\ \A j \in 1..(n - 1) :
              (j < i => leaf'[j] = leaf[j]) /\ (j >= i => leaf'[j] = leaf[j + 1])
    BY ZenonT(60), <1>1, <1>3, <1>5, RemoveAtSkips
  <1>7. DOMAIN leaf' = 1..(n - 1)
    BY <1>6
  <1> HIDE DEF n
  <1>8. \A j \in 1..(n - 1) : From(j) \in 1..n /\ From(j) # i /\ leaf'[j] = leaf[From(j)]
    BY <1>1, <1>5, <1>6
  <1>9. \A j, h \in 1..(n - 1) : j < h => From(j) < From(h)
    BY <1>1, <1>5
  <1>10. \A j \in 1..n : j # i => \E h \in 1..(n - 1) : From(h) = j
    <2> SUFFICES ASSUME NEW j \in 1..n, j # i PROVE \E h \in 1..(n - 1) : From(h) = j
      OBVIOUS
    <2>1. CASE j < i
      <3>1. j \in 1..(n - 1) /\ From(j) = j
        BY <1>1, <1>5, <2>1
      <3> QED BY <3>1
    <2>2. CASE j > i
      <3>1. j - 1 \in 1..(n - 1) /\ From(j - 1) = j
        BY <1>1, <1>5, <2>2
      <3> QED BY <3>1
    <2> QED BY <1>1, <1>5, <2>1, <2>2
  <1> HIDE DEF From
  <1>11. \A j, h \in 1..n : j < h => leaf[j].key < leaf[h].key
    BY <1>1, <1>2 DEF Sorted
  <1>12. \A j \in 1..n : j # i => leaf[j].key # k
    <2>1. \A j \in 1..n : j # i => j < i \/ i < j
      BY <1>5
    <2> QED BY <1>1, <1>5, <1>11, <2>1
  <1>13. Sorted(leaf')
    <2> SUFFICES ASSUME NEW a \in 1..(n - 1), NEW b \in 1..(n - 1), a < b
                 PROVE  leaf'[a].key < leaf'[b].key
      BY <1>7 DEF Sorted
    <2>1. From(a) < From(b)
      BY <1>9
    <2> QED BY <1>8, <1>11, <2>1
  <1>14. Holds(leaf', held')
    <2>1. ASSUME NEW j \in 1..(n - 1)
          PROVE  leaf'[j].key \in DOMAIN held' /\ leaf'[j].val = held'[leaf'[j].key]
      <3>1. From(j) \in 1..n /\ leaf'[j] = leaf[From(j)] /\ leaf[From(j)].key # k
        BY <1>8, <1>12
      <3>2. leaf[From(j)].key \in DOMAIN held /\ leaf[From(j)].val = held[leaf[From(j)].key]
        BY <1>1, <1>2, <3>1 DEF Holds
      <3> QED BY <1>4, <3>1, <3>2
    <2>2. ASSUME NEW x \in DOMAIN held' PROVE \E j \in 1..(n - 1) : leaf'[j].key = x
      <3>1. PICK j \in 1..n : leaf[j].key = x
        BY <1>1, <1>2, <1>4 DEF Holds
      <3>2. j # i
        BY <1>4, <1>5, <3>1
      <3>3. PICK h \in 1..(n - 1) : From(h) = j
        BY <1>10, <3>2
      <3> QED BY <1>8, <3>1, <3>3
    <2> QED BY <1>7, <2>1, <2>2 DEF Holds
  <1>15. Len(leaf') <= leafCapacity
    BY <1>1, <1>6
  <1> QED BY <1>1, <1>3, <1>4, <1>6, <1>13, <1>14, <1>15 DEF LeafInv, Ordered!TypeOK, Entry

LEMMA LeafStep ==
    ASSUME Ordered!BPlusTreeAssumption, LeafInv, [Ordered!Next]_leafVars
    PROVE  LeafInv'
  <1>1. CASE UNCHANGED leafVars
    BY <1>1 DEF leafVars, LeafInv, Ordered!TypeOK, Sorted, Holds
  <1> QED BY <1>1, LeafInsert, LeafDelete DEF Ordered!Next

LEMMA LeafInit ==
    ASSUME Ordered!BPlusTreeAssumption, Ordered!Init
    PROVE  LeafInv
  <1>1. leaf = <<>> /\ split = FALSE /\ held = <<>> /\ leafCapacity \in 0..MaxCapacity
    BY DEF Ordered!Init
  <1>2. DOMAIN leaf = {} /\ DOMAIN held = {} /\ Len(leaf) = 0
    BY <1>1
  <1>3. Len(leaf) <= leafCapacity
    BY <1>1, <1>2 DEF Ordered!BPlusTreeAssumption
  <1>4. Sorted(leaf) /\ Holds(leaf, held)
    BY <1>2 DEF Sorted, Holds
  <1>5. leaf \in Seq(Entry)
    BY <1>1
  <1>6. Ordered!TypeOK
    BY <1>1, <1>2, <1>3, <1>5 DEF Ordered!TypeOK, Entry
  <1> QED BY <1>4, <1>6 DEF LeafInv

LEMMA LeafHolds ==
    ASSUME Ordered!BPlusTreeAssumption, LeafInv
    PROVE  Ordered!TypeOK /\ Ordered!LeafAnswersLast
  <1> DEFINE n == Len(leaf)
  <1>1. Ordered!TypeOK
    BY DEF LeafInv
  <1> SUFFICES ASSUME ~split PROVE Ordered!LeafAnswersLast
    BY <1>1 DEF Ordered!LeafAnswersLast
  <1>2. Sorted(leaf) /\ Holds(leaf, held)
    BY DEF LeafInv
  <1>3. /\ leaf \in Seq(Entry) /\ n \in Nat /\ DOMAIN leaf = 1..n
        /\ Key \subseteq Int /\ \A j \in 1..n : leaf[j].key \in Int
        /\ DOMAIN held \subseteq Key
    BY LeafTypes
  <1>4. ASSUME NEW k \in Key
        PROVE  Ordered!Find(k) = IF k \in DOMAIN held THEN {held[k]} ELSE {}
    <2> DEFINE i == Ordered!Index(k)
    <2>1. /\ Ordered!IsThere(k) => i \in 1..n /\ leaf[i].key = k
          /\ ~Ordered!IsThere(k) => \A j \in 1..n : leaf[j].key # k
      BY <1>1, <1>2, ThereIs
    <2>2. Ordered!Find(k) = IF Ordered!IsThere(k) THEN {leaf[i].val} ELSE {}
      BY DEF Ordered!Find
    <2> HIDE DEF i, n
    <2>3. CASE Ordered!IsThere(k)
      <3>1. k \in DOMAIN held /\ leaf[i].val = held[k]
        BY <1>2, <1>3, <2>1, <2>3 DEF Holds
      <3> QED BY <2>2, <2>3, <3>1
    <2>4. CASE ~Ordered!IsThere(k)
      <3>1. k \notin DOMAIN held
        BY <1>2, <1>3, <2>1, <2>4 DEF Holds
      <3> QED BY <2>2, <2>4, <3>1
    <2> QED BY <2>3, <2>4
  <1>5. ASSUME NEW from \in Key, NEW to \in Key
        PROVE  Ordered!RangeQuery(from, to)
               = {[key |-> k, val |-> held[k]] : k \in {x \in DOMAIN held : from <= x /\ x <= to}}
    <2> DEFINE I == {j \in 1..n : from <= leaf[j].key /\ \A h \in 1..j : leaf[h].key <= to}
               R == {leaf[j] : j \in I}
               K == {x \in DOMAIN held : from <= x /\ x <= to}
               W == {[key |-> k, val |-> held[k]] : k \in K}
    <2>1. Ordered!RangeQuery(from, to) = R
      BY <1>3 DEF Ordered!RangeQuery
    <2> HIDE DEF n
    <2>2. \A j \in 1..n : /\ leaf[j] = [key |-> leaf[j].key, val |-> leaf[j].val]
                          /\ leaf[j].key \in DOMAIN held /\ leaf[j].val = held[leaf[j].key]
      <3>1. \A j \in 1..n : leaf[j] \in Entry
        BY <1>3 DEF n
      <3>2. \A j \in 1..n : leaf[j] = [key |-> leaf[j].key, val |-> leaf[j].val]
        BY <3>1 DEF Entry
      <3> QED BY <1>2, <1>3, <3>2 DEF Holds
    <2>3. \A j \in 1..n : j \in I <=> from <= leaf[j].key /\ leaf[j].key <= to
      <3> SUFFICES ASSUME NEW j \in 1..n, leaf[j].key <= to, NEW h \in 1..j
                   PROVE  leaf[h].key <= to
        BY <1>3
      <3>1. h \in 1..n /\ (h = j \/ h < j)
        BY <1>3
      <3>2. h = j \/ leaf[h].key < leaf[j].key
        BY <1>2, <1>3, <3>1 DEF Sorted
      <3>3. leaf[h].key \in Int /\ leaf[j].key \in Int /\ to \in Int
        BY <1>3, <3>1
      <3> QED BY <3>2, <3>3
    <2>4. I \subseteq 1..n
      OBVIOUS
    <2> HIDE DEF I
    <2>5. ASSUME NEW j \in I PROVE leaf[j] \in W
      <3>1. leaf[j].key \in K
        BY <2>2, <2>3, <2>4
      <3> QED BY <2>2, <2>4, <3>1
    <2>6. ASSUME NEW k \in K PROVE [key |-> k, val |-> held[k]] \in R
      <3>1. PICK j \in 1..n : leaf[j].key = k
        BY <1>2, <1>3 DEF Holds
      <3>2. j \in I
        BY <2>3, <3>1
      <3>3. leaf[j] = [key |-> k, val |-> held[k]]
        BY <2>2, <3>1
      <3> QED BY <3>2, <3>3
    <2> HIDE DEF K
    <2>7. R = W
      BY <2>5, <2>6
    <2> QED BY <2>1, <2>7 DEF K
  <1>6. \A i, j \in DOMAIN leaf : i < j => leaf[i].key < leaf[j].key
    BY <1>2 DEF Sorted
  <1> QED BY <1>4, <1>5, <1>6 DEF Ordered!LeafAnswersLast

-----------------------------------------------------------------------------
(* The indexes together.                                                      *)

IndexInv == HashInv /\ BloomInv /\ BitmapInv /\ LeafInv

LEMMA IndexConstants ==
    /\ BucketsFit /\ Bloom!BloomAssumption /\ Bitmaps!BitmapAssumption
    /\ Ordered!BPlusTreeAssumption
  BY IndexAssumption DEF BucketsFit, Hashed!HashAssumption

LEMMA IndexBegins ==
    ASSUME IndexInit
    PROVE  IndexInv
  <1>1. Hashed!Init /\ Bloom!Init /\ Bitmaps!Init /\ Ordered!Init
    BY DEF IndexInit
  <1> QED BY <1>1, IndexConstants, HashInit, BloomInit, BitmapInit, LeafInit DEF IndexInv

LEMMA IndexSteps ==
    ASSUME IndexInv, [IndexNext]_indexVars
    PROVE  IndexInv'
  <1>1. /\ [Hashed!Next]_hashVars /\ [Bloom!Next]_bloomVars
        /\ [Bitmaps!Next]_bitmapVars /\ [Ordered!Next]_leafVars
    BY DEF IndexNext, indexVars
  <1>2. HashInv'
    BY <1>1, IndexConstants, HashStep DEF IndexInv
  <1>3. BloomInv'
    BY <1>1, IndexConstants, BloomStep DEF IndexInv
  <1>4. BitmapInv'
    BY <1>1, IndexConstants, BitmapStep DEF IndexInv
  <1>5. LeafInv'
    BY <1>1, IndexConstants, LeafStep DEF IndexInv
  <1> QED BY <1>2, <1>3, <1>4, <1>5 DEF IndexInv

LEMMA IndexAnswers ==
    ASSUME IndexInv
    PROVE  IndexTypeOK /\ IndexesComplete
  <1>1. Hashed!TypeOK /\ Hashed!AnswersLast
    BY IndexConstants, HashHolds DEF IndexInv
  <1>2. Bloom!TypeOK /\ Bloom!NoFalseNegative
    BY IndexConstants, BloomHolds DEF IndexInv
  <1>3. Bitmaps!TypeOK /\ Bitmaps!QueriesExact /\ Bitmaps!OperationsExact
    BY IndexConstants, BitmapHolds DEF IndexInv
  <1>4. Ordered!TypeOK /\ Ordered!LeafAnswersLast
    BY IndexConstants, LeafHolds DEF IndexInv
  <1> QED BY <1>1, <1>2, <1>3, <1>4 DEF IndexTypeOK, IndexesComplete

\* The state of the hash index, the Bloom filter, the bitmap index and the leaf of
\* the B+ tree is of its type (hash_index.c, bloom_filter.c, bitmap_index.c,
\* b_plus_tree.c).  What the R tree keeps of its shape is TreeStaysSound.
THEOREM IndexTypes == IndexSpec => []IndexTypeOK
  <1>1. IndexInit => IndexInv
    BY IndexBegins
  <1>2. IndexInv /\ [IndexNext]_indexVars => IndexInv'
    BY IndexSteps
  <1>3. IndexInv => IndexTypeOK
    BY IndexAnswers
  <1> QED BY <1>1, <1>2, <1>3, PTL DEF IndexSpec

\* Each of the four answers with what was put into it and was not taken out, for any
\* keys, hash functions, sizes and histories (hash_index.c:95-189,
\* bloom_filter.c:76-181, bitmap_index.c:38-311, b_plus_tree.c:335-530).
THEOREM IndexCompleteness == IndexSpec => []IndexesComplete
  <1>1. IndexInit => IndexInv
    BY IndexBegins
  <1>2. IndexInv /\ [IndexNext]_indexVars => IndexInv'
    BY IndexSteps
  <1>3. IndexInv => IndexesComplete
    BY IndexAnswers
  <1> QED BY <1>1, <1>2, <1>3, PTL DEF IndexSpec

-----------------------------------------------------------------------------
(* Boxes.                                                                     *)

FinBox == {b \in SUBSET Int : IsFiniteSet(b)}

\* The least box with two finite ones is finite.
LEMMA ExtendedFits ==
    ASSUME NEW a \in FinBox, NEW b \in FinBox
    PROVE  Boxed!Extended(a, b) \in FinBox
  <1> DEFINE c == a \cup b
  <1>1. c \in SUBSET Int /\ IsFiniteSet(c)
    BY FS_Union DEF FinBox
  <1>2. CASE c = {}
    <2>1. Boxed!Extended(a, b) = {}
      BY <1>2 DEF Boxed!Extended
    <2> QED BY <2>1, FS_EmptySet DEF FinBox
  <1>3. CASE c # {}
    <2> DEFINE l == CHOOSE x \in c : \A y \in c : x <= y
               g == CHOOSE x \in c : \A y \in c : x >= y
    <2>1. l \in c /\ g \in c
      <3> HIDE DEF c
      <3> QED BY <1>1, <1>3, FiniteBounds
    <2>2. Boxed!Extended(a, b) = l..g
      BY <1>3 DEF Boxed!Extended, Boxed!Min, Boxed!Max
    <2> HIDE DEF l, g
    <2>3. l \in Int /\ g \in Int
      BY <1>1, <2>1
    <2>4. IsFiniteSet(l..g) /\ l..g \in SUBSET Int
      BY <2>3, FS_Interval
    <2> QED BY <2>2, <2>4 DEF FinBox
  <1> QED BY <1>2, <1>3

\* The box of entries that have boxes.
HaveBoxes(entries) == \A i \in DOMAIN entries : entries[i].box \in FinBox

LEMMA HullFits ==
    ASSUME NEW E, NEW entries \in Seq(E), HaveBoxes(entries)
    PROVE  Boxed!Hull(entries) \in FinBox
  <1> DEFINE B == {e.box : e \in ToSet(entries)}
             n == Len(entries)
             f == [i \in 1..n |-> entries[i].box]
  <1>1. DOMAIN entries = 1..n /\ n \in Nat
    OBVIOUS
  <1>2. B = {entries[i].box : i \in 1..n}
    BY <1>1 DEF ToSet
  <1>3. f \in Surjection(1..n, B)
    BY <1>2 DEF Surjection
  <1>4. IsFiniteSet(1..n)
    BY <1>1, FS_Interval
  <1>5. IsFiniteSet(B)
    <2> HIDE DEF f, B, n
    <2> QED BY <1>3, <1>4, FS_Surjection
  <1>6. \A b \in B : b \in FinBox
    BY <1>1, <1>2 DEF HaveBoxes
  <1>7. UNION B \in FinBox
    <2> HIDE DEF B
    <2>1. \A b \in B : IsFiniteSet(b) /\ b \in SUBSET Int
      BY <1>6 DEF FinBox
    <2>2. IsFiniteSet(UNION B)
      BY <1>5, <2>1, FS_UNION
    <2> QED BY <2>1, <2>2 DEF FinBox
  <1>8. {} \in FinBox
    BY FS_EmptySet DEF FinBox
  <1>9. Boxed!Hull(entries) = Boxed!Extended({}, UNION B)
    BY DEF Boxed!Hull, Boxed!ToSet, ToSet
  <1> HIDE DEF B
  <1> QED BY <1>7, <1>8, <1>9, ExtendedFits

\* A child is chosen.
LEMMA ChosenIs ==
    ASSUME NEW E, NEW entries \in Seq(E), entries # <<>>, HaveBoxes(entries), NEW box \in FinBox
    PROVE  Boxed!Chosen(entries, box) \in DOMAIN entries
  <1> DEFINE n == Len(entries)
             Growth(i) == Boxed!Area(Boxed!Extended(entries[i].box, box))
                          - Boxed!Area(entries[i].box)
             g == [i \in 1..n |-> Growth(i)]
             S == {i \in DOMAIN entries : \A j \in DOMAIN entries : Growth(i) <= Growth(j)}
  <1>1. DOMAIN entries = 1..n /\ n \in Nat \ {0}
    OBVIOUS
  <1>2. ASSUME NEW b \in FinBox
        PROVE  Boxed!Area(b) \in Int
    <2>1. Cardinality(b) \in Nat
      BY FS_CardinalityType DEF FinBox
    <2>2. Boxed!Area(b) = Cardinality(b) - 1
      BY DEF Boxed!Area, Boxed!Cardinality, Cardinality
    <2> QED BY <2>1, <2>2
  <1>3. \A i \in 1..n : Growth(i) \in Int
    <2> TAKE i \in 1..n
    <2>1. entries[i].box \in FinBox
      BY <1>1 DEF HaveBoxes
    <2>2. Boxed!Extended(entries[i].box, box) \in FinBox
      BY <2>1, ExtendedFits
    <2>3. Boxed!Area(Boxed!Extended(entries[i].box, box)) \in Int
          /\ Boxed!Area(entries[i].box) \in Int
      BY <1>2, <2>1, <2>2
    <2> QED BY <2>3
  <1>4. g \in [1..n -> Int]
    BY <1>3
  <1>5. PICK i \in 1..n : \A j \in 1..n : g[i] <= g[j]
    <2> HIDE DEF g, n
    <2> QED BY <1>1, <1>4, LeastValue
  <1>6. i \in S
    <2>1. \A j \in 1..n : g[j] = Growth(j)
      OBVIOUS
    <2> HIDE DEF Growth, g
    <2> QED BY <1>1, <1>5, <2>1
  <1>7. Boxed!Chosen(entries, box) = CHOOSE x \in S : \A y \in S : x <= y
    BY DEF Boxed!Chosen, Boxed!Min
  <1>8. S \in SUBSET Nat /\ S # {} /\ S \subseteq DOMAIN entries
    BY <1>1, <1>6
  <1> HIDE DEF S
  <1> QED BY <1>7, <1>8, LeastNumber

-----------------------------------------------------------------------------
(* Trees.                                                                     *)

Thing == [id : Nat, box : MCBoxes]

Leaves ==
    {t \in [leaf : {TRUE}, box : FinBox, entries : Seq(Thing)] :
        /\ Len(t.entries) <= MaxChildren
        /\ \A i, j \in DOMAIN t.entries : t.entries[i].id = t.entries[j].id => i = j}

\* The trees of one height with the items of each: a leaf, and a node above trees
\* of a lower height that have no item in common.
Lowest == [trees |-> Leaves, items |-> [t \in Leaves |-> ToSet(t.entries)]]
Taller(low) ==
    LET Has(t, i) == low.items[t.entries[i].node]
        trees == {t \in [leaf : {FALSE}, box : FinBox,
                         entries : Seq([node : low.trees, box : FinBox])] :
                     /\ Len(t.entries) \in 1..MaxChildren
                     /\ \A i, j \in DOMAIN t.entries :
                           i # j => Aside(Has(t, i), Has(t, j))}
    IN  [trees |-> trees,
         items |-> [t \in trees |-> UNION {Has(t, i) : i \in DOMAIN t.entries}]]

\* What is said of f holds of the trees of heights up to n.
IsForest(f, n) == f = [h \in 0..n |-> IF h = 0 THEN Lowest ELSE Taller(f[h - 1])]

Forest == CHOOSE f : IsForest(f, MaxInserts)

Trees(h) == Forest[h].trees
Within(h, t) == Forest[h].items[t]

\* The trees of each height are what they are said to be above.
LEMMA ForestIs ==
    ASSUME MaxInserts \in Nat
    PROVE  /\ Forest[0] = Lowest
           /\ \A h \in 1..MaxInserts : Forest[h] = Taller(Forest[h - 1])
  <1> DEFINE n == MaxInserts
             T == {m \in 0..n : \E f : IsForest(f, m)}
  <1>1. 0 \in T
    <2> DEFINE f == [h \in 0..0 |-> Lowest]
    <2>1. f = [h \in 0..0 |-> IF h = 0 THEN Lowest ELSE Taller(f[h - 1])]
      OBVIOUS
    <2> HIDE DEF f
    <2>2. IsForest(f, 0)
      BY <2>1 DEF IsForest
    <2>3. 0 \in 0..n
      OBVIOUS
    <2> QED BY <2>2, <2>3
  <1>2. ASSUME NEW m \in 0..n, m \in T, m # n
        PROVE  m + 1 \in T
    <2>1. PICK f : IsForest(f, m)
      BY <1>2
    <2> DEFINE g == [h \in 0..(m + 1) |-> IF h <= m THEN f[h] ELSE Taller(f[m])]
    <2>2. m \in Nat /\ m + 1 \in 0..n
      BY <1>2
    <2>3. f = [h \in 0..m |-> IF h = 0 THEN Lowest ELSE Taller(f[h - 1])]
      BY <2>1 DEF IsForest
    <2>4. ASSUME NEW h \in 0..(m + 1)
          PROVE  g[h] = IF h = 0 THEN Lowest ELSE Taller(g[h - 1])
      <3>1. CASE h <= m
        <4>1. h \in 0..m /\ (h # 0 => h - 1 \in 0..(m + 1) /\ h - 1 <= m)
          BY <2>2, <3>1
        <4>2. g[h] = f[h] /\ (h # 0 => g[h - 1] = f[h - 1])
          BY <3>1, <4>1
        <4>3. f[h] = IF h = 0 THEN Lowest ELSE Taller(f[h - 1])
          BY <2>3, <4>1
        <4> HIDE DEF g
        <4> QED BY <4>2, <4>3
      <3>2. CASE ~(h <= m)
        <4>1. h = m + 1 /\ h # 0 /\ h - 1 = m /\ m \in 0..(m + 1) /\ m <= m
          BY <2>2, <3>2
        <4>2. g[h] = Taller(f[m]) /\ g[m] = f[m]
          BY <3>2, <4>1
        <4> HIDE DEF g
        <4> QED BY <4>1, <4>2
      <3> QED BY <3>1, <3>2
    <2>5. g = [h \in 0..(m + 1) |-> g[h]]
      OBVIOUS
    <2> HIDE DEF g
    <2>6. g = [h \in 0..(m + 1) |-> IF h = 0 THEN Lowest ELSE Taller(g[h - 1])]
      BY <2>4, <2>5
    <2> QED BY <2>2, <2>6 DEF IsForest
  <1>3. n \in T
    <2>1. n \in 0..n
      OBVIOUS
    <2> HIDE DEF T
    <2> QED BY <1>1, <1>2, <2>1, UpTo
  <1>4. IsForest(Forest, n)
    BY <1>3 DEF Forest
  <1>5. Forest = [h \in 0..n |-> IF h = 0 THEN Lowest ELSE Taller(Forest[h - 1])]
    BY <1>4 DEF IsForest
  <1> HIDE DEF n
  <1>6. 0 \in 0..n /\ \A h \in 1..n : h \in 0..n /\ h # 0
    BY DEF n
  <1> QED BY <1>5, <1>6 DEF n

\* The entries of a node above trees of height h, which are well apart.
Kid(h) == [node : Trees(h), box : FinBox]
Fits(h, e) ==
    /\ e \in Seq(Kid(h))
    /\ \A i, j \in DOMAIN e : i # j => Aside(Within(h, e[i].node), Within(h, e[j].node))
Contents(h, e) == UNION {Within(h, e[i].node) : i \in DOMAIN e}

\* The lowest trees are the leaves.
LEMMA LeafTrees ==
    ASSUME MaxInserts \in Nat
    PROVE  Trees(0) = Leaves /\ \A t \in Leaves : Within(0, t) = ToSet(t.entries)
  BY ForestIs DEF Trees, Within, Lowest

\* The trees that are one higher, taken apart.
LEMMA TallerIs ==
    ASSUME NEW low, NEW up, up = Taller(low)
    PROVE  up.trees = {t \in [leaf : {FALSE}, box : FinBox,
                                 entries : Seq([node : low.trees, box : FinBox])] :
                              /\ Len(t.entries) \in 1..MaxChildren
                              /\ \A i, j \in DOMAIN t.entries :
                                    i # j => Aside(low.items[t.entries[i].node],
                                                   low.items[t.entries[j].node])}
  <1> DEFINE X == {t \in [leaf : {FALSE}, box : FinBox,
                          entries : Seq([node : low.trees, box : FinBox])] :
                       /\ Len(t.entries) \in 1..MaxChildren
                       /\ \A i, j \in DOMAIN t.entries :
                             i # j => Aside(low.items[t.entries[i].node],
                                            low.items[t.entries[j].node])}
             F == [t \in X |-> UNION {low.items[t.entries[i].node] : i \in DOMAIN t.entries}]
  <1>1. up = [trees |-> X, items |-> F]
    BY Zenon DEF Taller
  <1> HIDE DEF X
  <1>2. up.trees = X /\ up.items = F
    <2> HIDE DEF F
    <2> QED BY <1>1
  <1> QED BY <1>2 DEF X

\* The items of the trees that are one higher.
LEMMA TallerItems ==
    ASSUME NEW low, NEW up, up = Taller(low)
    PROVE  \A u \in up.trees : up.items[u] =
              UNION {low.items[u.entries[i].node] : i \in DOMAIN u.entries}
  <1> DEFINE X == {t \in [leaf : {FALSE}, box : FinBox,
                          entries : Seq([node : low.trees, box : FinBox])] :
                       /\ Len(t.entries) \in 1..MaxChildren
                       /\ \A i, j \in DOMAIN t.entries :
                             i # j => Aside(low.items[t.entries[i].node],
                                            low.items[t.entries[j].node])}
             F == [t \in X |-> UNION {low.items[t.entries[i].node] : i \in DOMAIN t.entries}]
  <1>1. up = [trees |-> X, items |-> F]
    BY Zenon DEF Taller
  <1> HIDE DEF X
  <1>2. up.trees = X /\ up.items = F
    <2> HIDE DEF F
    <2> QED BY <1>1
  <1>3. \A u \in X : F[u] = UNION {low.items[u.entries[i].node] : i \in DOMAIN u.entries}
    BY Zenon
  <1> HIDE DEF F
  <1> QED BY <1>2, <1>3, Zenon

\* A tree that is not a leaf is a node above trees of the height below.
LEMMA InnerTrees ==
    ASSUME MaxInserts \in Nat, NEW h \in 1..MaxInserts
    PROVE  \A t : t \in Trees(h) <=>
                     /\ t \in [leaf : {FALSE}, box : FinBox, entries : Seq(Kid(h - 1))]
                     /\ Len(t.entries) \in 1..MaxChildren
                     /\ Fits(h - 1, t.entries)
  <1>1. Forest[h] = Taller(Forest[h - 1])
    BY ForestIs
  <1>2. Trees(h) = {t \in [leaf : {FALSE}, box : FinBox, entries : Seq(Kid(h - 1))] :
                      /\ Len(t.entries) \in 1..MaxChildren
                      /\ \A i, j \in DOMAIN t.entries : i # j =>
                            Aside(Within(h - 1, t.entries[i].node),
                                  Within(h - 1, t.entries[j].node))}
    BY <1>1, TallerIs DEF Trees, Within, Kid
  <1>3. \A t \in [leaf : {FALSE}, box : FinBox, entries : Seq(Kid(h - 1))] :
           t.entries \in Seq(Kid(h - 1))
    OBVIOUS
  <1> QED BY <1>2, <1>3 DEF Fits

\* It has what its entries have.
LEMMA InnerItems ==
    ASSUME MaxInserts \in Nat, NEW h \in 1..MaxInserts, NEW t \in Trees(h)
    PROVE  Within(h, t) = Contents(h - 1, t.entries)
  <1>1. Forest[h] = Taller(Forest[h - 1])
    BY ForestIs
  <1>2. t \in Forest[h].trees
    BY DEF Trees
  <1>3. Forest[h].items[t] =
           UNION {Forest[h - 1].items[t.entries[i].node] : i \in DOMAIN t.entries}
    <2> DEFINE up == Forest[h]
               low == Forest[h - 1]
    <2>1. up = Taller(low) /\ t \in up.trees
      BY <1>1, <1>2
    <2> HIDE DEF up, low
    <2>2. \A u \in up.trees :
             up.items[u] = UNION {low.items[u.entries[i].node] : i \in DOMAIN u.entries}
      BY <2>1, TallerItems, Zenon
    <2>3. up.items[t] = UNION {low.items[t.entries[i].node] : i \in DOMAIN t.entries}
      BY <2>1, <2>2
    <2> QED BY <2>3 DEF up, low
  <1> QED BY <1>3 DEF Within, Contents

\* A node with children.
LEMMA NodeIs ==
    ASSUME MaxInserts \in Nat, NEW h \in 1..MaxInserts, NEW b \in FinBox, NEW e,
           Fits(h - 1, e), Len(e) \in 1..MaxChildren,
           NEW t, t = [leaf |-> FALSE, box |-> b, entries |-> e]
    PROVE  t \in Trees(h) /\ Within(h, t) = Contents(h - 1, e)
  <1>1. t \in [leaf : {FALSE}, box : FinBox, entries : Seq(Kid(h - 1))]
    BY DEF Fits
  <1>2. t \in Trees(h)
    BY <1>1, InnerTrees
  <1> QED BY <1>2, InnerItems

\* A node with the box of its children.
LEMMA InnerIs ==
    ASSUME MaxInserts \in Nat, NEW h \in 1..MaxInserts, NEW e,
           Fits(h - 1, e), Len(e) \in 1..MaxChildren
    PROVE  Boxed!Inner(e) \in Trees(h) /\ Within(h, Boxed!Inner(e)) = Contents(h - 1, e)
  <1>1. e \in Seq(Kid(h - 1))
    BY DEF Fits
  <1>2. HaveBoxes(e)
    <2>1. \A i \in DOMAIN e : e[i] \in Kid(h - 1)
      BY <1>1
    <2> QED BY <2>1 DEF HaveBoxes, Kid
  <1>3. Boxed!Hull(e) \in FinBox
    BY <1>1, <1>2, HullFits
  <1>4. Boxed!Inner(e) = [leaf |-> FALSE, box |-> Boxed!Hull(e), entries |-> e]
    BY DEF Boxed!Inner
  <1> QED BY <1>3, <1>4, NodeIs

\* Trees have items, and nodes have boxes.
LEMMA TreesHave ==
    ASSUME MaxInserts \in Nat, NEW h \in 0..MaxInserts, NEW t \in Trees(h)
    PROVE  /\ Within(h, t) \in SUBSET Thing
           /\ t.box \in FinBox /\ t.leaf = (h = 0) /\ Len(t.entries) <= MaxChildren
  <1> DEFINE T == {m \in 0..h : \A u \in Trees(m) : Within(m, u) \in SUBSET Thing}
  <1>1. 0 \in T
    <2>1. \A u \in Leaves : ToSet(u.entries) \in SUBSET Thing
      BY DEF Leaves, ToSet
    <2> QED BY <2>1, LeafTrees
  <1>2. ASSUME NEW m \in 0..h, m \in T, m # h
        PROVE  m + 1 \in T
    <2>1. m + 1 \in 1..MaxInserts /\ (m + 1) - 1 = m /\ m + 1 \in 0..h
      BY <1>2
    <2>2. ASSUME NEW u \in Trees(m + 1)
          PROVE  Within(m + 1, u) \in SUBSET Thing
      <3>1. Within(m + 1, u) = Contents(m, u.entries)
        BY <2>1, <2>2, InnerItems
      <3>2. u.entries \in Seq(Kid(m))
        BY <2>1, <2>2, InnerTrees DEF Fits
      <3>3. \A i \in DOMAIN u.entries : u.entries[i] \in Kid(m)
        BY <3>2
      <3>4. \A i \in DOMAIN u.entries : u.entries[i].node \in Trees(m)
        BY <3>3 DEF Kid
      <3> QED BY <1>2, <3>1, <3>4 DEF Contents
    <2> QED BY <2>1, <2>2
  <1>3. h \in T
    <2>1. h \in 0..h /\ h \in Nat
      OBVIOUS
    <2> HIDE DEF T
    <2> QED BY <1>1, <1>2, <2>1, UpTo
  <1>4. CASE h = 0
    BY <1>3, <1>4, LeafTrees DEF Leaves
  <1>5. CASE h # 0
    <2>1. h \in 1..MaxInserts
      BY <1>5
    <2>2. /\ t \in [leaf : {FALSE}, box : FinBox, entries : Seq(Kid(h - 1))]
          /\ Len(t.entries) \in 1..MaxChildren
      BY <2>1, InnerTrees
    <2>3. t.box \in FinBox /\ t.leaf = FALSE
      BY <2>2
    <2>4. Len(t.entries) <= MaxChildren
      BY <2>2
    <2> QED BY <1>3, <1>5, <2>3, <2>4
  <1> QED BY <1>4, <1>5

-----------------------------------------------------------------------------
(* An insertion, node by node.                                                *)

Single == [x \in Thing |-> {x}]
Of(h) == [k \in Kid(h) |-> Within(h, k.node)]

\* What is known of the constants.
LEMMA TreeConstants ==
    /\ MaxInserts \in Nat /\ MaxChildren \in Nat /\ MaxChildren >= 2
    /\ Boxed!Half \in 1..(MaxChildren - 1) /\ MCBoxes \in SUBSET FinBox
  <1>1. /\ MaxInserts \in Nat /\ MaxChildren \in Nat /\ MaxChildren >= 2
        /\ \A b \in MCBoxes : IsFiniteSet(b) /\ b \subseteq Int
    BY IndexAssumption DEF Boxed!RTreeAssumption, Boxed!IsFiniteSet, IsFiniteSet
  <1>2. Boxed!Half \in 1..(MaxChildren - 1)
    BY <1>1 DEF Boxed!Half
  <1> QED BY <1>1, <1>2 DEF FinBox

\* Entries that fit are spread.
LEMMA KidsAre ==
    ASSUME NEW h, NEW e \in Seq(Kid(h))
    PROVE  (Fits(h, e) <=> Spread(e, Of(h))) /\ Contents(h, e) = Covered(e, Of(h))
  <1> DEFINE c == Of(h)
  <1>1. \A i \in DOMAIN e : e[i] \in Kid(h)
    OBVIOUS
  <1>2. \A i \in DOMAIN e : c[e[i]] = Within(h, e[i].node)
    BY <1>1 DEF Of
  <1> HIDE DEF c
  <1>3. Fits(h, e) <=> Spread(e, c)
    BY <1>2 DEF Fits, Spread
  <1>4. Contents(h, e) = Covered(e, c)
    BY <1>2 DEF Contents, Covered
  <1> QED BY <1>3, <1>4 DEF c

\* Items with different ids are spread.
LEMMA ItemsAre ==
    ASSUME NEW e \in Seq(Thing)
    PROVE  /\ (\A i, j \in DOMAIN e : e[i].id = e[j].id => i = j) <=> Spread(e, Single)
           /\ Covered(e, Single) = ToSet(e)
  <1>1. \A i \in DOMAIN e : e[i] \in Thing
    OBVIOUS
  <1>2. \A i \in DOMAIN e : Single[e[i]] = {e[i]}
    BY <1>1 DEF Single
  <1>3. (\A i, j \in DOMAIN e : e[i].id = e[j].id => i = j) <=> Spread(e, Single)
    BY <1>2 DEF Spread, Aside
  <1>4. Covered(e, Single) = ToSet(e)
    BY <1>2 DEF Covered, ToSet
  <1> QED BY <1>3, <1>4

\* The leaf with some items.
LEMMA LeafIs ==
    ASSUME NEW e \in Seq(Thing), Spread(e, Single), Len(e) <= MaxChildren
    PROVE  /\ Boxed!Leaf(e) \in Trees(0) /\ Within(0, Boxed!Leaf(e)) = Covered(e, Single)
           /\ Boxed!Leaf(e).leaf
  <1>1. HaveBoxes(e)
    <2>1. \A i \in DOMAIN e : e[i] \in Thing
      OBVIOUS
    <2> QED BY <2>1, TreeConstants DEF HaveBoxes, Thing
  <1>2. Boxed!Hull(e) \in FinBox
    BY <1>1, HullFits
  <1> DEFINE l == Boxed!Leaf(e)
  <1>3. l = [leaf |-> TRUE, box |-> Boxed!Hull(e), entries |-> e]
    BY DEF Boxed!Leaf
  <1> HIDE DEF l
  <1>4. l \in [leaf : {TRUE}, box : FinBox, entries : Seq(Thing)] /\ l.entries = e
    BY <1>2, <1>3
  <1>5. l \in Leaves
    BY <1>4, ItemsAre DEF Leaves
  <1>6. l \in Trees(0) /\ Within(0, l) = ToSet(e)
    BY <1>4, <1>5, LeafTrees, TreeConstants
  <1>7. l.leaf
    BY <1>3
  <1> QED BY <1>6, <1>7, ItemsAre DEF l

\* What an insertion of an item into the tree node of height h, which had the
\* items in C, may come to: all of it or, when it fails, a part.
Placed(o, C, h, item) ==
    /\ o.ok \in BOOLEAN /\ o.node \in Trees(h)
    /\ ~o.ok => o.split = <<>> /\ Within(h, o.node) \subseteq C \cup {item}
    /\ o.ok /\ o.split = <<>> => Within(h, o.node) = C \cup {item}
    /\ o.split # <<>> =>
          \E s \in Trees(h) : /\ o.split = <<s>>
                              /\ Aside(Within(h, o.node), Within(h, s))
                              /\ Within(h, o.node) \cup Within(h, s) = C \cup {item}

\* An insertion that succeeded without a split.
LEMMA PlacedWhole ==
    ASSUME NEW h, NEW C, NEW item, NEW n \in Trees(h), Within(h, n) = C \cup {item},
           NEW o, o = Boxed!Outcome(TRUE, n, <<>>)
    PROVE  Placed(o, C, h, item)
  <1>1. o.ok = TRUE /\ o.node = n /\ o.split = <<>>
    BY DEF Boxed!Outcome
  <1> QED BY <1>1 DEF Placed

\* One that failed.
LEMMA PlacedFailed ==
    ASSUME NEW h, NEW C, NEW item, NEW n \in Trees(h), Within(h, n) \subseteq C \cup {item},
           NEW o, o = Boxed!Outcome(FALSE, n, <<>>)
    PROVE  Placed(o, C, h, item)
  <1>1. o.ok = FALSE /\ o.node = n /\ o.split = <<>>
    BY DEF Boxed!Outcome
  <1> QED BY <1>1 DEF Placed

\* One that split the node.
LEMMA PlacedSplit ==
    ASSUME NEW h, NEW C, NEW item, NEW n \in Trees(h), NEW s \in Trees(h),
           Aside(Within(h, n), Within(h, s)), Within(h, n) \cup Within(h, s) = C \cup {item},
           NEW o, o = Boxed!Outcome(TRUE, n, <<s>>)
    PROVE  Placed(o, C, h, item)
  <1>1. o.ok = TRUE /\ o.node = n /\ o.split = <<s>>
    BY DEF Boxed!Outcome
  <1>2. <<s>> # <<>>
    OBVIOUS
  <1> QED BY <1>1, <1>2 DEF Placed

\* Into a leaf.
LEMMA LeafOutcomes ==
    ASSUME NEW node \in Trees(0), NEW item \in Thing, Aside(Within(0, node), {item}),
           NEW o \in Boxed!InLeaf(node, item)
    PROVE  Placed(o, Within(0, node), 0, item)
  <1> DEFINE e == node.entries
             C == Within(0, node)
             p == Boxed!Kept(e)
             q == Boxed!Moved(e)
             m == Boxed!Half
  <1>1. node \in Leaves
    BY LeafTrees, TreeConstants
  <1>2. e \in Seq(Thing) /\ Len(e) <= MaxChildren /\ Spread(e, Single)
    <2>1. /\ e \in Seq(Thing) /\ Len(e) <= MaxChildren
          /\ \A i, j \in DOMAIN e : e[i].id = e[j].id => i = j
      BY <1>1 DEF Leaves
    <2> HIDE DEF e
    <2> QED BY <2>1, ItemsAre
  <1>3. C = Covered(e, Single)
    BY <1>1, <1>2, LeafTrees, TreeConstants, ItemsAre
  <1>4. Single[item] = {item}
    BY DEF Single
  <1>5. \/ /\ Len(e) < MaxChildren
           /\ \/ o = Boxed!Outcome(TRUE, Boxed!Leaf(Append(e, item)), <<>>)
              \/ o = Boxed!Outcome(FALSE, node, <<>>)
        \/ /\ ~(Len(e) < MaxChildren)
           /\ \/ o = Boxed!Outcome(TRUE, Boxed!Leaf(Append(p, item)), <<Boxed!Leaf(q)>>)
              \/ o = Boxed!Outcome(FALSE, node, <<>>)
              \/ o = Boxed!Outcome(FALSE, Boxed!Leaf(p), <<>>)
    BY DEF Boxed!InLeaf
  <1>6. p = SubSeq(e, 1, m) /\ q = SubSeq(e, m + 1, Len(e))
    BY DEF Boxed!Kept, Boxed!Moved
  <1>7. Len(e) \in Nat /\ m \in 1..(MaxChildren - 1) /\ MaxChildren \in Nat
    BY <1>2, TreeConstants
  <1> HIDE DEF e, C, p, q, m
  <1>8. CASE o = Boxed!Outcome(FALSE, node, <<>>)
    <2>1. C \subseteq C \cup {item}
      OBVIOUS
    <2> QED BY <1>8, <2>1, PlacedFailed DEF C
  <1>9. CASE Len(e) < MaxChildren /\ o = Boxed!Outcome(TRUE, Boxed!Leaf(Append(e, item)), <<>>)
    <2> DEFINE r == Append(e, item)
    <2>1. Aside(Covered(e, Single), Single[item])
      BY <1>3, <1>4 DEF C
    <2>2. /\ r \in Seq(Thing) /\ Len(r) = Len(e) + 1 /\ Spread(r, Single)
          /\ Covered(r, Single) = Covered(e, Single) \cup Single[item]
      BY <1>2, <2>1, EntryAdded
    <2> HIDE DEF r
    <2>3. Len(r) <= MaxChildren
      BY <1>7, <1>9, <2>2
    <2>4. Boxed!Leaf(r) \in Trees(0) /\ Within(0, Boxed!Leaf(r)) = C \cup {item}
      BY <1>3, <1>4, <2>2, <2>3, LeafIs
    <2>5. o = Boxed!Outcome(TRUE, Boxed!Leaf(r), <<>>)
      BY <1>9 DEF r
    <2> QED BY <2>4, <2>5, PlacedWhole DEF C
  <1>10. CASE ~(Len(e) < MaxChildren) /\ o # Boxed!Outcome(FALSE, node, <<>>)
    <2>1. m \in 0..Len(e) /\ Len(e) - m <= MaxChildren /\ m + 1 <= MaxChildren
          /\ m <= MaxChildren
      BY <1>2, <1>7, <1>10
    <2>2. /\ p \in Seq(Thing) /\ Len(p) = m /\ Spread(p, Single)
          /\ q \in Seq(Thing) /\ Len(q) = Len(e) - m /\ Spread(q, Single)
          /\ Covered(p, Single) \cup Covered(q, Single) = Covered(e, Single)
          /\ Aside(Covered(p, Single), Covered(q, Single))
      <3> DEFINE P == SubSeq(e, 1, m)
                 Q == SubSeq(e, m + 1, Len(e))
      <3>1. /\ P \in Seq(Thing) /\ Len(P) = m /\ Spread(P, Single)
            /\ Q \in Seq(Thing) /\ Len(Q) = Len(e) - m /\ Spread(Q, Single)
            /\ Covered(P, Single) \cup Covered(Q, Single) = Covered(e, Single)
            /\ Aside(Covered(P, Single), Covered(Q, Single))
        BY <1>2, <2>1, EntriesCut
      <3> HIDE DEF P, Q
      <3>2. p = P /\ q = Q
        BY <1>6 DEF P, Q
      <3> QED BY <3>1, <3>2
    <2>3. /\ Boxed!Leaf(q) \in Trees(0)
          /\ Within(0, Boxed!Leaf(q)) = Covered(q, Single)
      BY <2>1, <2>2, LeafIs
    <2>4. Aside(Covered(p, Single), {item}) /\ Aside({item}, Covered(q, Single))
      BY <1>3, <2>2 DEF Aside, C
    <2>5. CASE o = Boxed!Outcome(FALSE, Boxed!Leaf(p), <<>>)
      <3>1. Boxed!Leaf(p) \in Trees(0) /\ Within(0, Boxed!Leaf(p)) = Covered(p, Single)
        BY <2>1, <2>2, LeafIs
      <3>2. Within(0, Boxed!Leaf(p)) \subseteq C \cup {item}
        BY <1>3, <2>2, <3>1
      <3> QED BY <2>5, <3>1, <3>2, PlacedFailed DEF C
    <2>6. CASE o = Boxed!Outcome(TRUE, Boxed!Leaf(Append(p, item)), <<Boxed!Leaf(q)>>)
      <3> DEFINE r == Append(p, item)
      <3>1. Aside(Covered(p, Single), Single[item])
        BY <1>4, <2>4
      <3>2. /\ r \in Seq(Thing) /\ Len(r) = m + 1 /\ Spread(r, Single)
            /\ Covered(r, Single) = Covered(p, Single) \cup {item}
        <4>1. p \in Seq(Thing) /\ Spread(p, Single) /\ Len(p) = m
          BY <2>2
        <4>2. /\ r \in Seq(Thing) /\ Len(r) = Len(p) + 1 /\ Spread(r, Single)
              /\ Covered(r, Single) = Covered(p, Single) \cup Single[item]
          BY <3>1, <4>1, EntryAdded
        <4> HIDE DEF r
        <4> QED BY <1>4, <4>1, <4>2
      <3>3. o = Boxed!Outcome(TRUE, Boxed!Leaf(r), <<Boxed!Leaf(q)>>)
        BY <2>6
      <3> HIDE DEF r
      <3>4. Len(r) <= MaxChildren
        BY <2>1, <3>2
      <3>5. Boxed!Leaf(r) \in Trees(0) /\ Within(0, Boxed!Leaf(r)) = Covered(r, Single)
        BY <3>2, <3>4, LeafIs
      <3>6. Aside(Within(0, Boxed!Leaf(r)), Within(0, Boxed!Leaf(q)))
        BY <2>2, <2>3, <2>4, <3>2, <3>5 DEF Aside
      <3>7. Within(0, Boxed!Leaf(r)) \cup Within(0, Boxed!Leaf(q)) = C \cup {item}
        BY <1>3, <2>2, <2>3, <3>2, <3>5
      <3> QED BY <2>3, <3>3, <3>5, <3>6, <3>7, PlacedSplit DEF C
    <2> QED BY <1>5, <1>10, <2>5, <2>6
  <1> QED BY <1>5, <1>8, <1>9, <1>10

\* What an inner node is made of.
LEMMA InnerParts ==
    ASSUME NEW h \in 1..MaxInserts, NEW node \in Trees(h)
    PROVE  /\ node \in [leaf : {FALSE}, box : FinBox, entries : Seq(Kid(h - 1))]
           /\ node.box \in FinBox /\ node.entries \in Seq(Kid(h - 1))
           /\ Len(node.entries) \in 1..MaxChildren /\ Spread(node.entries, Of(h - 1))
           /\ Within(h, node) = Covered(node.entries, Of(h - 1))
  <1>1. /\ node \in [leaf : {FALSE}, box : FinBox, entries : Seq(Kid(h - 1))]
        /\ Len(node.entries) \in 1..MaxChildren
        /\ Fits(h - 1, node.entries)
    BY InnerTrees, TreeConstants
  <1>2. /\ node.box \in FinBox /\ node.entries \in Seq(Kid(h - 1))
    BY <1>1
  <1>3. Within(h, node) = Contents(h - 1, node.entries)
    BY InnerItems, TreeConstants
  <1> QED BY <1>1, <1>2, <1>3, KidsAre

\* What is made of entries is a node.
LEMMA InnerMade ==
    ASSUME NEW h \in 1..MaxInserts, NEW b \in FinBox, NEW e \in Seq(Kid(h - 1)),
           Len(e) \in 1..MaxChildren, Spread(e, Of(h - 1)),
           NEW n, n = [leaf |-> FALSE, box |-> b, entries |-> e] \/ n = Boxed!Inner(e)
    PROVE  n \in Trees(h) /\ Within(h, n) = Covered(e, Of(h - 1))
  <1>1. Fits(h - 1, e) /\ Contents(h - 1, e) = Covered(e, Of(h - 1))
    BY KidsAre
  <1>2. CASE n = [leaf |-> FALSE, box |-> b, entries |-> e]
    BY <1>1, <1>2, NodeIs, TreeConstants
  <1>3. CASE n = Boxed!Inner(e)
    BY <1>1, <1>3, InnerIs, TreeConstants
  <1> QED BY <1>2, <1>3

\* A child has the items of its node.
LEMMA KidHas ==
    ASSUME NEW h, NEW n \in Trees(h), NEW b \in FinBox,
           NEW k, k = [node |-> n, box |-> b]
    PROVE  k \in Kid(h) /\ Of(h)[k] = Within(h, n)
  <1>1. k \in Kid(h) /\ k.node = n
    BY DEF Kid
  <1> QED BY <1>1 DEF Of

\* Trees have boxes.
LEMMA BoxIs ==
    ASSUME NEW h \in 0..MaxInserts, NEW n \in Trees(h)
    PROVE  n.box \in FinBox
  BY TreesHave, TreeConstants

\* Into an inner node, by the outcome for one of its children.
LEMMA InnerOutcomes ==
    ASSUME NEW h \in 1..MaxInserts, NEW node \in Trees(h), NEW i \in DOMAIN node.entries,
           NEW item \in Thing, Aside(Within(h, node), {item}),
           NEW o, Placed(o, Within(h - 1, node.entries[i].node), h - 1, item),
           NEW r \in Boxed!AfterChild(node, i, o)
    PROVE  Placed(r, Within(h, node), h, item)
  <1> DEFINE g == h - 1
             e == node.entries
             c == Of(g)
             C == Within(h, node)
             rest == But(e, c, i)
             old == c[e[i]]
             k == [node |-> o.node, box |-> e[i].box]
             entries == [e EXCEPT ![i] = k]
             same == [leaf |-> FALSE, box |-> node.box, entries |-> entries]
             new == o.split[1]
             child == [node |-> new, box |-> new.box]
             more == [leaf |-> FALSE, box |-> Boxed!Extended(node.box, new.box),
                      entries |-> Append(entries, child)]
             p == Boxed!Kept(entries)
             q == Boxed!Moved(entries)
             stays == [leaf |-> FALSE, box |-> Boxed!Extended(Boxed!Hull(p), new.box),
                      entries |-> Append(p, child)]
             k2 == [node |-> o.node, box |-> o.node.box]
             entries2 == [e EXCEPT ![i] = k2]
  <1>1. /\ node \in [leaf : {FALSE}, box : FinBox, entries : Seq(Kid(g))]
        /\ node.box \in FinBox /\ e \in Seq(Kid(g)) /\ Len(e) \in 1..MaxChildren
        /\ Spread(e, c) /\ C = Covered(e, c)
    BY InnerParts
  <1>2. e[i] \in Kid(g)
    BY <1>1
  <1>3. /\ e[i] = [node |-> e[i].node, box |-> e[i].box]
        /\ e[i].node \in Trees(g) /\ e[i].box \in FinBox
    BY <1>2 DEF Kid
  <1>4. old = Within(g, e[i].node)
    BY <1>2 DEF Of
  <1>5. [e[i] EXCEPT !.node = o.node] = k
    BY <1>3
  <1>6. [node.entries EXCEPT ![i].node = o.node] = entries
    <2>1. [node.entries EXCEPT ![i].node = o.node]
            = [e EXCEPT ![i] = [e[i] EXCEPT !.node = o.node]]
      OBVIOUS
    <2> HIDE DEF k, e
    <2> QED BY <1>5, <2>1
  <1>7. [node EXCEPT !.entries = entries] = same
    <2> HIDE DEF entries, e, g
    <2> DEFINE N == [leaf : {FALSE}, box : FinBox, entries : Seq(Kid(g)) \cup {entries}]
               m == [node EXCEPT !.entries = entries]
    <2>1. m \in N /\ m.leaf = FALSE /\ m.box = node.box /\ m.entries = entries
      BY <1>1
    <2> HIDE DEF m
    <2>2. m = [leaf |-> m.leaf, box |-> m.box, entries |-> m.entries]
      BY <2>1
    <2>3. m = same
      BY <2>1, <2>2
    <2> QED BY <2>3 DEF m
  <1>8. [entries EXCEPT ![i].box = o.node.box] = entries2
    BY <1>1
  <1>9. [same EXCEPT !.entries = Append(@, Boxed!Child(new)), !.box = Boxed!Extended(@, new.box)]
          = more
    <2>1. same.entries = entries /\ same.box = node.box /\ Boxed!Child(new) = child
      <3> HIDE DEF entries, new
      <3> QED BY DEF Boxed!Child
    <2> DEFINE f == Append(entries, child)
               d == Boxed!Extended(node.box, new.box)
    <2>2. same \in [leaf : {FALSE}, box : {node.box, d}, entries : {entries, f}]
      <3> HIDE DEF entries, f, d
      <3> QED OBVIOUS
    <2> DEFINE N == [leaf : {FALSE}, box : {node.box, d}, entries : {entries, f}]
               m == [same EXCEPT !.entries = f]
               z == [m EXCEPT !.box = d]
    <2>3. m \in N /\ m.leaf = FALSE /\ m.entries = f
      <3> HIDE DEF entries, f, d
      <3> QED BY <2>2
    <2>4. [same EXCEPT !.entries = f, !.box = d] = [leaf |-> FALSE, box |-> d, entries |-> f]
      <3> HIDE DEF entries, f, d, same
      <3>1. [same EXCEPT !.entries = f, !.box = d] = z
        BY <2>2
      <3> HIDE DEF m
      <3>2. z \in N /\ z.leaf = FALSE /\ z.box = d /\ z.entries = f
        BY <2>3
      <3> HIDE DEF z
      <3>3. z = [leaf |-> z.leaf, box |-> z.box, entries |-> z.entries]
        BY <3>2
      <3> QED BY <3>1, <3>2, <3>3
    <2>5. more = [leaf |-> FALSE, box |-> d, entries |-> f]
      OBVIOUS
    <2> HIDE DEF more, same
    <2>6. [same EXCEPT !.entries = Append(@, Boxed!Child(new)), !.box = Boxed!Extended(@, new.box)]
            = [same EXCEPT !.entries = f, !.box = d]
      <3> HIDE DEF child, entries, new
      <3> QED BY <2>1
    <2> HIDE DEF f, d
    <2> QED BY <2>4, <2>5, <2>6
  <1>10. [Boxed!Inner(p) EXCEPT !.entries = Append(@, Boxed!Child(new)),
                                !.box = Boxed!Extended(@, new.box)] = stays
    <2> DEFINE w == Boxed!Inner(p)
    <2>1. w = [leaf |-> FALSE, box |-> Boxed!Hull(p), entries |-> p]
      BY DEF Boxed!Inner
    <2>2. Boxed!Child(new) = child
      BY DEF Boxed!Child
    <2>3. w.entries = p /\ w.box = Boxed!Hull(p)
      <3> HIDE DEF p, w
      <3> QED BY <2>1
    <2> DEFINE f == Append(p, child)
               d == Boxed!Extended(Boxed!Hull(p), new.box)
    <2>4. w \in [leaf : {FALSE}, box : {Boxed!Hull(p), d}, entries : {p, f}] /\ w.leaf = FALSE
      <3> HIDE DEF p, f, d, w
      <3> QED BY <2>1
    <2> DEFINE N == [leaf : {FALSE}, box : {Boxed!Hull(p), d}, entries : {p, f}]
               m == [w EXCEPT !.entries = f]
               z == [m EXCEPT !.box = d]
    <2>5. [w EXCEPT !.entries = f, !.box = d] = [leaf |-> FALSE, box |-> d, entries |-> f]
      <3> HIDE DEF p, f, d, w
      <3>1. m \in N /\ m.leaf = FALSE /\ m.entries = f
        BY <2>4
      <3>2. [w EXCEPT !.entries = f, !.box = d] = z
        BY <2>4
      <3> HIDE DEF m
      <3>3. z \in N /\ z.leaf = FALSE /\ z.box = d /\ z.entries = f
        BY <3>1
      <3> HIDE DEF z
      <3>4. z = [leaf |-> z.leaf, box |-> z.box, entries |-> z.entries]
        BY <3>3
      <3> QED BY <3>2, <3>3, <3>4
    <2>6. stays = [leaf |-> FALSE, box |-> d, entries |-> f]
      OBVIOUS
    <2> HIDE DEF stays, w
    <2>7. [w EXCEPT !.entries = Append(@, Boxed!Child(new)), !.box = Boxed!Extended(@, new.box)]
            = [w EXCEPT !.entries = f, !.box = d]
      <3> HIDE DEF child, p, new
      <3> QED BY <2>2, <2>3
    <2> HIDE DEF f, d
    <2>8. [w EXCEPT !.entries = Append(@, Boxed!Child(new)), !.box = Boxed!Extended(@, new.box)]
            = stays
      BY <2>5, <2>6, <2>7
    <2> QED BY <2>8 DEF w
  <1>11. \/ ~o.ok /\ r = Boxed!Outcome(FALSE, same, <<>>)
         \/ o.ok /\ o.split = <<>> /\ r = Boxed!Outcome(TRUE, Boxed!Inner(entries2), <<>>)
         \/ o.ok /\ o.split # <<>> /\ Len(entries) < MaxChildren
            /\ r = Boxed!Outcome(TRUE, more, <<>>)
         \/ o.ok /\ o.split # <<>> /\ ~(Len(entries) < MaxChildren)
            /\ \/ r = Boxed!Outcome(TRUE, stays, <<Boxed!Inner(q)>>)
               \/ r = Boxed!Outcome(FALSE, same, <<>>)
    <2> HIDE DEF same, more, stays, entries2, entries, p, q, new
    <2> QED BY <1>6, <1>7, <1>8, <1>9, <1>10 DEF Boxed!AfterChild, p, q, new
  <1>12. /\ o.ok \in BOOLEAN /\ o.node \in Trees(g)
         /\ ~o.ok => o.split = <<>> /\ Within(g, o.node) \subseteq old \cup {item}
         /\ o.ok /\ o.split = <<>> => Within(g, o.node) = old \cup {item}
         /\ o.split # <<>> =>
               /\ new \in Trees(g) /\ Aside(Within(g, o.node), Within(g, new))
               /\ Within(g, o.node) \cup Within(g, new) = old \cup {item}
    <2>1. Placed(o, old, g, item)
      BY <1>4
    <2>2. ASSUME NEW s, o.split = <<s>>
          PROVE  new = s
      BY <2>2
    <2> HIDE DEF new, old, g
    <2> QED BY <2>1, <2>2 DEF Placed
  <1>13. g \in 0..MaxInserts
    BY TreeConstants
  <1> HIDE DEF e, c, C, rest, old, g, entries, new
  <1>14. /\ C = rest \cup old /\ Aside(rest, old)
    <2>1. Covered(e, c) = But(e, c, i) \cup c[e[i]] /\ Aside(But(e, c, i), c[e[i]])
      BY <1>1, ButOne DEF e
    <2> QED BY <1>1, <2>1 DEF rest, old
  <1>15. Aside(rest, {item}) /\ Within(g, o.node) \subseteq old \cup {item}
    <2>1. Aside(rest, {item})
      BY <1>14 DEF Aside, C
    <2>2. Within(g, o.node) \subseteq old \cup {item}
      BY <1>12
    <2> QED BY <2>1, <2>2
  <1>16. Aside(rest, old \cup {item})
    BY <1>14, <1>15 DEF Aside
  <1>17. k \in Kid(g) /\ c[k] = Within(g, o.node)
    BY <1>3, <1>12, KidHas DEF c
  <1>18. Aside(rest, c[k])
    BY <1>15, <1>16, <1>17 DEF Aside
  <1>19. /\ entries \in Seq(Kid(g)) /\ Len(entries) = Len(e) /\ Spread(entries, c)
         /\ Covered(entries, c) = rest \cup Within(g, o.node)
    <2> HIDE DEF k
    <2> DEFINE f == [e EXCEPT ![i] = k]
    <2>1. /\ e \in Seq(Kid(g)) /\ Spread(e, c) /\ k \in Kid(g)
          /\ i \in DOMAIN e /\ Aside(But(e, c, i), c[k])
      BY <1>1, <1>17, <1>18 DEF e, rest
    <2>2. f \in Seq(Kid(g)) /\ Len(f) = Len(e) /\ IsPut(f, e, i, k)
      BY <2>1 DEF IsPut
    <2>3. entries = f
      BY DEF entries
    <2> HIDE DEF f
    <2>4. Spread(f, c) /\ Covered(f, c) = But(e, c, i) \cup c[k]
      BY <2>1, <2>2, EntryPut
    <2> QED BY <1>17, <2>2, <2>3, <2>4 DEF rest
  <1>20. same \in Trees(h) /\ Within(h, same) = rest \cup Within(g, o.node)
    <2>1. same \in Trees(h) /\ Within(h, same) = Covered(entries, c)
      BY <1>1, <1>19, InnerMade DEF c, g
    <2> QED BY <1>19, <2>1
  <1>21. CASE r = Boxed!Outcome(FALSE, same, <<>>)
    <2>1. Within(h, same) \subseteq C \cup {item}
      BY <1>14, <1>15, <1>20
    <2> HIDE DEF same
    <2> QED BY <1>20, <1>21, <2>1, PlacedFailed DEF C
  <1>22. CASE o.ok /\ o.split = <<>> /\ r = Boxed!Outcome(TRUE, Boxed!Inner(entries2), <<>>)
    <2>1. k2 \in Kid(g) /\ c[k2] = Within(g, o.node)
      BY <1>12, <1>13, BoxIs, KidHas DEF c
    <2>2. /\ entries2 \in Seq(Kid(g)) /\ Len(entries2) = Len(e) /\ Spread(entries2, c)
          /\ Covered(entries2, c) = rest \cup Within(g, o.node)
      <3> HIDE DEF k2
      <3>1. /\ e \in Seq(Kid(g)) /\ Spread(e, c) /\ k2 \in Kid(g)
            /\ i \in DOMAIN e /\ Aside(But(e, c, i), c[k2])
        BY <1>1, <1>17, <1>18, <2>1 DEF e, rest
      <3>2. entries2 \in Seq(Kid(g)) /\ Len(entries2) = Len(e) /\ IsPut(entries2, e, i, k2)
        BY <3>1 DEF IsPut
      <3> HIDE DEF entries2
      <3>3. Spread(entries2, c) /\ Covered(entries2, c) = But(e, c, i) \cup c[k2]
        BY <3>1, <3>2, EntryPut
      <3> QED BY <2>1, <3>2, <3>3 DEF rest
    <2> HIDE DEF entries2
    <2>3. /\ Boxed!Inner(entries2) \in Trees(h)
          /\ Within(h, Boxed!Inner(entries2)) = Covered(entries2, c)
      BY <1>1, <2>2, InnerMade DEF c, g
    <2>4. Within(h, Boxed!Inner(entries2)) = C \cup {item}
      BY <1>12, <1>14, <1>22, <2>2, <2>3
    <2> QED BY <1>22, <2>3, <2>4, PlacedWhole DEF C
  <1>23. CASE o.ok /\ o.split # <<>>
    <2>1. /\ new \in Trees(g) /\ Aside(Within(g, o.node), Within(g, new))
          /\ Within(g, o.node) \cup Within(g, new) = old \cup {item}
      BY <1>12, <1>23
    <2>2. new.box \in FinBox
      BY <1>13, <2>1, BoxIs
    <2>3. child \in Kid(g) /\ c[child] = Within(g, new)
      BY <2>1, <2>2, KidHas DEF c
    <2>4. Aside(Covered(entries, c), c[child])
      BY <1>16, <1>19, <2>1, <2>3 DEF Aside
    <2>5. Covered(entries, c) \cup c[child] = C \cup {item}
      BY <1>14, <1>19, <2>1, <2>3
    <2> HIDE DEF child
    <2>6. CASE Len(entries) < MaxChildren /\ r = Boxed!Outcome(TRUE, more, <<>>)
      <3> DEFINE f == Append(entries, child)
                 b == Boxed!Extended(node.box, new.box)
      <3>1. /\ f \in Seq(Kid(g)) /\ Len(f) = Len(entries) + 1 /\ Spread(f, c)
            /\ Covered(f, c) = Covered(entries, c) \cup c[child]
        <4>1. /\ entries \in Seq(Kid(g)) /\ Spread(entries, c) /\ child \in Kid(g)
              /\ Aside(Covered(entries, c), c[child])
          BY <1>19, <2>3, <2>4
        <4> QED BY <4>1, EntryAdded
      <3>2. b \in FinBox
        BY <1>1, <2>2, ExtendedFits
      <3>3. more = [leaf |-> FALSE, box |-> b, entries |-> f]
        OBVIOUS
      <3> HIDE DEF f, b, more
      <3>4. Len(f) \in 1..MaxChildren
        BY <1>1, <1>19, <2>6, <3>1, TreeConstants
      <3>5. more \in Trees(h) /\ Within(h, more) = Covered(f, c)
        BY <3>1, <3>2, <3>3, <3>4, InnerMade DEF c, g
      <3>6. Within(h, more) = C \cup {item}
        BY <2>5, <3>1, <3>5
      <3> QED BY <2>6, <3>5, <3>6, PlacedWhole DEF C
    <2>7. CASE /\ ~(Len(entries) < MaxChildren)
               /\ r = Boxed!Outcome(TRUE, stays, <<Boxed!Inner(q)>>)
      <3> DEFINE m == Boxed!Half
                 P == SubSeq(entries, 1, m)
                 Q == SubSeq(entries, m + 1, Len(entries))
                 f == Append(p, child)
                 b == Boxed!Extended(Boxed!Hull(p), new.box)
      <3>1. p = P /\ q = Q
        BY DEF Boxed!Kept, Boxed!Moved
      <3>2. m \in 0..Len(entries) /\ m + 1 \in 1..MaxChildren /\ m >= 1
            /\ Len(entries) - m \in 1..MaxChildren
        BY <1>1, <1>19, <2>7, TreeConstants
      <3> HIDE DEF p, q, m
      <3>3. /\ P \in Seq(Kid(g)) /\ Len(P) = m /\ Spread(P, c)
            /\ Q \in Seq(Kid(g)) /\ Len(Q) = Len(entries) - m /\ Spread(Q, c)
            /\ Covered(P, c) \cup Covered(Q, c) = Covered(entries, c)
            /\ Aside(Covered(P, c), Covered(Q, c))
        <4>1. /\ entries \in Seq(Kid(g)) /\ Spread(entries, c)
              /\ m \in 0..Len(entries)
          BY <1>19, <3>2
        <4> QED BY <4>1, EntriesCut
      <3> HIDE DEF P, Q
      <3>4. Aside(Covered(p, c), c[child]) /\ Aside(Covered(q, c), c[child])
        BY <2>4, <3>1, <3>3 DEF Aside
      <3>5. /\ f \in Seq(Kid(g)) /\ Len(f) = m + 1 /\ Spread(f, c)
            /\ Covered(f, c) = Covered(p, c) \cup c[child]
        <4>1. p \in Seq(Kid(g)) /\ Spread(p, c) /\ Len(p) = m
          BY <3>1, <3>3
        <4>2. /\ f \in Seq(Kid(g)) /\ Len(f) = Len(p) + 1 /\ Spread(f, c)
              /\ Covered(f, c) = Covered(p, c) \cup c[child]
          BY <2>3, <3>4, <4>1, EntryAdded
        <4> HIDE DEF f
        <4> QED BY <4>1, <4>2
      <3>6. b \in FinBox
        <4>1. HaveBoxes(p) /\ p \in Seq(Kid(g))
          <5>1. p \in Seq(Kid(g))
            BY <3>1, <3>3
          <5>2. \A j \in DOMAIN p : p[j] \in Kid(g)
            BY <5>1
          <5> QED BY <5>1, <5>2 DEF HaveBoxes, Kid
        <4>2. Boxed!Hull(p) \in FinBox
          BY <4>1, HullFits
        <4> QED BY <2>2, <4>2, ExtendedFits
      <3>7. stays = [leaf |-> FALSE, box |-> b, entries |-> f]
        OBVIOUS
      <3> HIDE DEF f, b, stays
      <3>8. stays \in Trees(h) /\ Within(h, stays) = Covered(f, c)
        BY <3>2, <3>5, <3>6, <3>7, InnerMade DEF c, g
      <3>9. /\ Boxed!Inner(q) \in Trees(h)
            /\ Within(h, Boxed!Inner(q)) = Covered(q, c)
        BY <1>1, <3>1, <3>2, <3>3, InnerMade DEF c, g
      <3>10. Aside(Within(h, stays), Within(h, Boxed!Inner(q)))
        BY <3>1, <3>3, <3>4, <3>5, <3>8, <3>9 DEF Aside
      <3>11. Within(h, stays) \cup Within(h, Boxed!Inner(q)) = C \cup {item}
        BY <2>5, <3>1, <3>3, <3>5, <3>8, <3>9
      <3> QED BY <2>7, <3>8, <3>9, <3>10, <3>11, PlacedSplit DEF C
    <2> HIDE DEF same, more, stays, entries2, p, q, k
    <2> QED BY <1>11, <1>21, <1>23, <2>6, <2>7
  <1> HIDE DEF same, more, stays, entries2, p, q, k
  <1> QED BY <1>11, <1>21, <1>22, <1>23 DEF C

-----------------------------------------------------------------------------
(* The way down, and the way back.                                            *)

\* The root is a tree of the height that is stays.
Rooted ==
    height \in 1..(MaxInserts + 1) /\ root \in Trees(height - 1)

\* The child that a box goes to.
Toward(n, box) == n.entries[Boxed!Chosen(n.entries, box)].node

\* It is a tree of the height below, and has no more items.
LEMMA TowardIs ==
    ASSUME NEW h \in 1..MaxInserts, NEW n \in Trees(h), NEW box \in FinBox
    PROVE  /\ Boxed!Chosen(n.entries, box) \in DOMAIN n.entries
           /\ Toward(n, box) \in Trees(h - 1)
           /\ Within(h - 1, Toward(n, box)) \subseteq Within(h, n)
  <1> DEFINE e == n.entries
             i == Boxed!Chosen(e, box)
  <1>1. /\ e \in Seq(Kid(h - 1)) /\ Len(e) \in 1..MaxChildren
        /\ Within(h, n) = Covered(e, Of(h - 1))
    BY InnerParts
  <1>2. \A j \in DOMAIN e : e[j] \in Kid(h - 1)
    BY <1>1
  <1>3. HaveBoxes(e) /\ e # <<>>
    BY <1>1, <1>2 DEF HaveBoxes, Kid
  <1>4. i \in DOMAIN e
    BY <1>1, <1>3, ChosenIs
  <1> HIDE DEF i
  <1>5. e[i] \in Kid(h - 1)
    BY <1>2, <1>4
  <1>6. e[i].node \in Trees(h - 1)
    BY <1>5 DEF Kid
  <1>7. Of(h - 1)[e[i]] = Within(h - 1, e[i].node)
    BY <1>5 DEF Of
  <1>8. Within(h - 1, e[i].node) \subseteq Within(h, n)
    <2> HIDE DEF e
    <2> QED BY <1>1, <1>4, <1>7 DEF Covered
  <1> QED BY <1>4, <1>6, <1>8 DEF i, Toward

\* On the way down are ever lower trees.
IsWay(w, box) ==
    /\ DOMAIN w = 0..(height - 1) /\ w[0] = root
    /\ \A d \in 1..(height - 1) : w[d] = Toward(w[d - 1], box)
    /\ \A d \in 0..(height - 1) : /\ w[d] \in Trees((height - 1) - d)
                                  /\ Within((height - 1) - d, w[d]) \subseteq Within(height - 1, root)

\* The nodes on the way down are such.
LEMMA WayIs ==
    ASSUME Rooted, NEW box \in FinBox
    PROVE  IsWay(Boxed!Way(box), box)
  <1> DEFINE H == height - 1
             D == UNION {Trees(h) : h \in 0..H}
             Next1(n) == IF n.leaf THEN n ELSE Toward(n, box)
             step == [i \in 1..H |-> [n \in D |-> Next1(n)]]
             w == Boxed!Way(box)
  <1>1. H \in 0..MaxInserts /\ H \in Nat /\ root \in Trees(H) /\ root \in D
    BY TreeConstants DEF Rooted
  <1>2. ASSUME NEW h \in 0..H, NEW n \in Trees(h)
        PROVE  /\ Next1(n) \in D
               /\ h # 0 => ~n.leaf
    <2>1. h \in 0..MaxInserts
      BY <1>1, TreeConstants
    <2>2. n.leaf = (h = 0)
      BY <2>1, TreesHave, TreeConstants
    <2>3. CASE h = 0
      BY <2>2, <2>3
    <2>4. CASE h # 0
      <3>1. h \in 1..MaxInserts /\ h - 1 \in 0..H
        BY <1>1, <2>1, <2>4
      <3>2. Toward(n, box) \in Trees(h - 1)
        BY <3>1, TowardIs
      <3>3. Toward(n, box) \in D
        BY <3>1, <3>2
      <3> QED BY <2>2, <2>4, <3>3
    <2> QED BY <2>3, <2>4
  <1>3. \A n \in D : Next1(n) \in D
    <2> TAKE n \in D
    <2>1. PICK h \in 0..H : n \in Trees(h)
      OBVIOUS
    <2> HIDE DEF Next1, D
    <2> QED BY <1>2, <2>1
  <1> HIDE DEF H, D
  <1>4. IsStep(step, H, D)
    <2> HIDE DEF Next1
    <2> QED BY <1>3 DEF IsStep
  <1>5. PICK f : IsFold(f, root, step, H, D)
    <2> HIDE DEF step
    <2> QED BY <1>1, <1>4, Recursion
  <1>6. /\ f \in [0..H -> D] /\ f[0] = root
        /\ \A d \in 1..H : f[d] = Next1(f[d - 1])
    <2>1. f \in [0..H -> D] /\ f[0] = root /\ \A d \in 1..H : f[d] = step[d][f[d - 1]]
      <3> HIDE DEF step
      <3> QED BY <1>5 DEF IsFold
    <2>2. \A d \in 1..H : d - 1 \in 0..H
      BY <1>1
    <2>3. \A d \in 1..H, n \in D : step[d][n] = Next1(n)
      <3> HIDE DEF Next1
      <3> QED OBVIOUS
    <2> HIDE DEF step, Next1
    <2> QED BY <2>1, <2>2, <2>3
  <1> DEFINE Body(g, d) == IF d = 0 THEN root ELSE Next1(g[d - 1])
             F == CHOOSE g : g = [d \in 0..H |-> Body(g, d)]
  <1>7. f = [d \in 0..H |-> Body(f, d)]
    <2>1. \A d \in 0..H : f[d] = Body(f, d)
      <3> HIDE DEF Next1
      <3> QED BY <1>1, <1>6
    <2> HIDE DEF Body
    <2> QED BY <1>6, <2>1
  <1>8. F = [d \in 0..H |-> Body(F, d)]
    <2> HIDE DEF Body
    <2> QED BY <1>7
  <1>9. w = F
    BY Zenon DEF Boxed!Way, Toward, H
  <1> HIDE DEF F, w
  <1>10. DOMAIN w = 0..H /\ w[0] = root /\ \A d \in 1..H : w[d] = Next1(w[d - 1])
    <2>1. DOMAIN w = 0..H /\ \A d \in 0..H : w[d] = Body(w, d)
      <3> HIDE DEF Body
      <3> QED BY <1>8, <1>9
    <2> HIDE DEF Next1
    <2> QED BY <1>1, <2>1
  <1> DEFINE Right(d) == w[d] \in Trees(H - d) /\ Within(H - d, w[d]) \subseteq Within(H, root)
             T == {d \in 0..H : Right(d)}
  <1>11. 0 \in T
    BY <1>1, <1>10
  <1>12. ASSUME NEW d \in 0..H, d \in T, d # H
         PROVE  d + 1 \in T /\ w[d + 1] = Toward(w[d], box)
    <2>1. H - d \in 1..MaxInserts /\ H - d \in 0..H /\ (H - d) - 1 = H - (d + 1)
          /\ d + 1 \in 1..H /\ (d + 1) - 1 = d /\ H - d # 0 /\ d + 1 \in 0..H
      BY <1>1, <1>12, TreeConstants
    <2>2. w[d] \in Trees(H - d) /\ Within(H - d, w[d]) \subseteq Within(H, root)
      BY <1>12
    <2>3. ~w[d].leaf
      BY <1>2, <2>1, <2>2 DEF H
    <2>4. w[d + 1] = Toward(w[d], box)
      BY <1>10, <2>1, <2>3
    <2>5. /\ Toward(w[d], box) \in Trees(H - (d + 1))
          /\ Within(H - (d + 1), Toward(w[d], box)) \subseteq Within(H - d, w[d])
      BY <2>1, <2>2, TowardIs
    <2>6. Right(d + 1)
      BY <2>2, <2>4, <2>5
    <2> HIDE DEF Right
    <2> QED BY <2>1, <2>4, <2>6
  <1>13. \A d \in 0..H : d \in T
    <2> HIDE DEF T
    <2> QED BY <1>1, <1>11, <1>12, UpTo
  <1>14. \A d \in 1..H : w[d] = Toward(w[d - 1], box)
    <2> TAKE d \in 1..H
    <2>1. d - 1 \in 0..H /\ d - 1 # H /\ (d - 1) + 1 = d
      BY <1>1
    <2> HIDE DEF T
    <2> QED BY <1>12, <1>13, <2>1
  <1>15. \A d \in 0..H : Right(d)
    BY <1>13
  <1> QED BY <1>10, <1>14, <1>15 DEF IsWay, H, w

\* The outcomes at a node u above the leaf, by those for its child on the way.
AtNode(way, last, item, outcomes, u) ==
    UNION {Boxed!AfterChild(way[last - u], Boxed!Chosen(way[last - u].entries, item.box), o) :
           o \in outcomes}

IsBack(f, way, last, item, n) ==
    f = [u \in 0..n |-> IF u = 0 THEN Boxed!InLeaf(way[last], item)
                        ELSE AtNode(way, last, item, f[u - 1], u)]

\* The outcomes on the way back are defined.
LEMMA BackExists ==
    ASSUME NEW way, NEW n \in Nat, NEW item
    PROVE  \E f : IsBack(f, way, n, item, n)
  <1> DEFINE T == {m \in 0..n : \E f : IsBack(f, way, n, item, m)}
             base == Boxed!InLeaf(way[n], item)
             Next1(s, u) == AtNode(way, n, item, s, u)
  <1>1. 0 \in T
    <2> DEFINE f == [u \in 0..0 |-> base]
    <2>1. f = [u \in 0..0 |-> IF u = 0 THEN base ELSE Next1(f[u - 1], u)]
      <3> HIDE DEF base, Next1
      <3> QED OBVIOUS
    <2> HIDE DEF f
    <2>2. IsBack(f, way, n, item, 0)
      BY <2>1 DEF IsBack
    <2> QED BY <2>2
  <1>2. ASSUME NEW m \in 0..n, m \in T, m # n
        PROVE  m + 1 \in T
    <2>1. PICK f : IsBack(f, way, n, item, m)
      BY <1>2
    <2> DEFINE g == [u \in 0..(m + 1) |-> IF u <= m THEN f[u] ELSE Next1(f[m], m + 1)]
    <2>2. m \in Nat /\ m + 1 \in 0..n
      BY <1>2
    <2>3. f = [u \in 0..m |-> IF u = 0 THEN base ELSE Next1(f[u - 1], u)]
      BY <2>1 DEF IsBack
    <2> HIDE DEF base, Next1, T
    <2>4. ASSUME NEW u \in 0..(m + 1)
          PROVE  g[u] = IF u = 0 THEN base ELSE Next1(g[u - 1], u)
      <3>1. CASE u <= m
        <4>1. u \in 0..m /\ (u # 0 => u - 1 \in 0..(m + 1) /\ u - 1 <= m)
          BY <2>2, <3>1
        <4>2. g[u] = f[u] /\ (u # 0 => g[u - 1] = f[u - 1])
          BY <3>1, <4>1
        <4>3. f[u] = IF u = 0 THEN base ELSE Next1(f[u - 1], u)
          BY <2>3, <4>1
        <4> HIDE DEF g
        <4> QED BY <4>2, <4>3
      <3>2. CASE ~(u <= m)
        <4>1. u = m + 1 /\ u # 0 /\ u - 1 = m /\ m \in 0..(m + 1) /\ m <= m
          BY <2>2, <3>2
        <4>2. g[u] = Next1(f[m], m + 1) /\ g[m] = f[m]
          BY <3>2, <4>1
        <4> HIDE DEF g
        <4> QED BY <4>1, <4>2
      <3> QED BY <3>1, <3>2
    <2>5. g = [u \in 0..(m + 1) |-> g[u]]
      OBVIOUS
    <2> HIDE DEF g
    <2>6. g = [u \in 0..(m + 1) |-> IF u = 0 THEN base ELSE Next1(g[u - 1], u)]
      BY <2>4, <2>5
    <2>7. IsBack(g, way, n, item, m + 1)
      BY <2>6 DEF IsBack, base, Next1
    <2> QED BY <2>2, <2>7 DEF T
  <1>3. n \in T
    <2>1. n \in 0..n
      OBVIOUS
    <2> HIDE DEF T
    <2> QED BY <1>1, <1>2, <2>1, UpTo
  <1> QED BY <1>3

\* What an insertion comes to.
LEMMA InsertedPlaced ==
    ASSUME Rooted, NEW item \in Thing, Aside(Within(height - 1, root), {item}),
           NEW o \in Boxed!Inserted(item)
    PROVE  Placed(o, Within(height - 1, root), height - 1, item)
  <1> DEFINE H == height - 1
             box == item.box
             way == Boxed!Way(box)
             IsLeafAt(d) == way[d].leaf /\ \A e \in 0..(d - 1) : ~way[e].leaf
             last == CHOOSE d \in DOMAIN way : IsLeafAt(d)
  <1>1. H \in 0..MaxInserts /\ H \in Nat /\ box \in FinBox
    BY TreeConstants DEF Rooted, Thing
  <1>2. IsWay(way, box)
    BY <1>1, WayIs
  <1> HIDE DEF way, box
  <1>3. /\ DOMAIN way = 0..H /\ way[0] = root
        /\ \A d \in 1..H : way[d] = Toward(way[d - 1], box)
        /\ \A d \in 0..H : /\ way[d] \in Trees(H - d)
                           /\ Within(H - d, way[d]) \subseteq Within(H, root)
    BY <1>2 DEF IsWay
  <1> HIDE DEF H
  <1>4. \A d \in 0..H : (d = H => way[d].leaf) /\ (d # H => ~way[d].leaf)
    <2> TAKE d \in 0..H
    <2>1. H - d \in 0..MaxInserts /\ (H - d = 0 <=> d = H)
      BY <1>1, TreeConstants
    <2>2. way[d].leaf = (H - d = 0)
      BY <1>3, <2>1, TreesHave, TreeConstants
    <2> QED BY <2>1, <2>2
  <1>5. last = H
    <2>1. H \in DOMAIN way /\ IsLeafAt(H)
      <3>1. \A e \in 0..(H - 1) : e \in 0..H /\ e # H
        BY <1>1
      <3>2. H \in 0..H
        BY <1>1
      <3>3. \A e \in 0..(H - 1) : ~way[e].leaf
        BY <1>4, <3>1
      <3> QED BY <1>3, <1>4, <3>2, <3>3
    <2>2. last \in DOMAIN way /\ IsLeafAt(last)
      <3> HIDE DEF IsLeafAt
      <3> QED BY <2>1
    <2> HIDE DEF last
    <2>3. last \in 0..H /\ way[last].leaf
      BY <1>3, <2>2
    <2> QED BY <1>4, <2>3
  <1> DEFINE F == CHOOSE f : IsBack(f, way, last, item, last)
  <1>6. Boxed!Inserted(item) = F[last]
    BY Zenon DEF Boxed!Inserted, IsBack, AtNode, way, box
  <1>7. IsBack(F, way, H, item, H) /\ Boxed!Inserted(item) = F[H]
    <2> HIDE DEF last
    <2>1. \E f : IsBack(f, way, last, item, last)
      BY <1>1, <1>5, BackExists
    <2>2. IsBack(F, way, last, item, last)
      BY <2>1
    <2> HIDE DEF F
    <2> QED BY <1>5, <1>6, <2>2
  <1> HIDE DEF F, last
  <1>8. /\ F[0] = Boxed!InLeaf(way[H], item)
        /\ \A u \in 1..H : F[u] = AtNode(way, H, item, F[u - 1], u)
    <2>1. \A u \in 0..H : F[u] = IF u = 0 THEN Boxed!InLeaf(way[H], item)
                                 ELSE AtNode(way, H, item, F[u - 1], u)
      BY <1>7 DEF IsBack
    <2>2. 0 \in 0..H /\ \A u \in 1..H : u \in 0..H /\ u # 0
      BY <1>1
    <2> QED BY <2>1, <2>2
  <1>9. ASSUME NEW d \in 0..H
        PROVE  Aside(Within(H - d, way[d]), {item})
    <2>1. Within(H - d, way[d]) \subseteq Within(H, root)
      BY <1>3
    <2> QED BY <2>1 DEF Aside, H
  <1> DEFINE Right(u) == \A r \in F[u] : Placed(r, Within(u, way[H - u]), u, item)
             T == {u \in 0..H : Right(u)}
  <1>10. 0 \in T
    <2>1. H - 0 = H /\ H - H = 0 /\ H \in 0..H /\ 0 \in 0..H
      BY <1>1
    <2>2. way[H] \in Trees(0) /\ Aside(Within(0, way[H]), {item})
      BY <1>3, <1>9, <2>1
    <2>3. \A r \in F[0] : Placed(r, Within(0, way[H]), 0, item)
      BY <1>8, <2>2, LeafOutcomes
    <2> QED BY <2>1, <2>3
  <1>11. ASSUME NEW m \in 0..H, m \in T, m # H
         PROVE  m + 1 \in T
    <2> DEFINE u == m + 1
               d == H - u
               node == way[d]
               i == Boxed!Chosen(node.entries, box)
    <2>1. /\ u \in 1..H /\ u \in 1..MaxInserts /\ u - 1 = m /\ u \in 0..H
          /\ d \in 0..H /\ H - d = u /\ d + 1 \in 1..H /\ (d + 1) - 1 = d /\ H - m = d + 1
      BY <1>1, <1>11, TreeConstants
    <2>2. node \in Trees(u) /\ Aside(Within(u, node), {item})
      BY <1>3, <1>9, <2>1
    <2> HIDE DEF u, d
    <2>3. way[H - m] = node.entries[i].node
      BY <1>3, <2>1 DEF Toward
    <2>4. i \in DOMAIN node.entries
      BY <1>1, <2>1, <2>2, TowardIs
    <2>5. \A o1 \in F[m] : Placed(o1, Within(u - 1, node.entries[i].node), u - 1, item)
      BY <1>11, <2>1, <2>3
    <2>6. ASSUME NEW r \in F[u]
          PROVE  Placed(r, Within(u, way[H - u]), u, item)
      <3>1. r \in AtNode(way, H, item, F[m], u)
        BY <1>8, <2>1, <2>6
      <3>2. PICK o1 \in F[m] : r \in Boxed!AfterChild(node, i, o1)
        BY <3>1 DEF AtNode, box, d
      <3> HIDE DEF node, i
      <3>3. Placed(r, Within(u, node), u, item)
        BY <2>1, <2>2, <2>4, <2>5, <3>2, InnerOutcomes
      <3> QED BY <3>3 DEF node, d
    <2>7. u \in T
      BY <2>1, <2>6
    <2> QED BY <2>7 DEF u
  <1>12. H \in T
    <2>1. H \in 0..H
      BY <1>1
    <2> HIDE DEF T
    <2> QED BY <1>1, <1>10, <1>11, <2>1, UpTo
  <1>13. Placed(o, Within(H, way[0]), H, item)
    <2>1. H - H = 0
      BY <1>1
    <2> QED BY <1>7, <1>12, <2>1
  <1> QED BY <1>3, <1>13 DEF H

-----------------------------------------------------------------------------
(* The levels of the tree.                                                    *)

\* The items of the trees of height h.
ItemsAt(h) == [t \in Trees(h) |-> Within(h, t)]

\* The nodes below some.
Down(above) == FlattenSeq([i \in DOMAIN above |-> Boxed!Below(above[i])])

\* What is below trees of the same height has their items.
LEMMA DownIs ==
    ASSUME NEW h \in 1..MaxInserts, NEW s \in Seq(Trees(h)), Spread(s, ItemsAt(h))
    PROVE  /\ Down(s) \in Seq(Trees(h - 1)) /\ Spread(Down(s), ItemsAt(h - 1))
           /\ Covered(Down(s), ItemsAt(h - 1)) = Covered(s, ItemsAt(h))
  <1> DEFINE g == h - 1
             c == ItemsAt(g)
             below == [i \in DOMAIN s |-> Boxed!Below(s[i])]
  <1>1. \A i \in DOMAIN s : s[i] \in Trees(h)
    OBVIOUS
  <1>2. ASSUME NEW n \in Trees(h)
        PROVE  /\ Boxed!Below(n) \in Seq(Trees(g)) /\ Spread(Boxed!Below(n), c)
               /\ Covered(Boxed!Below(n), c) = Within(h, n)
    <2> DEFINE e == n.entries
               b == [i \in DOMAIN e |-> e[i].node]
    <2>1. /\ e \in Seq(Kid(g)) /\ Spread(e, Of(g)) /\ Within(h, n) = Covered(e, Of(g))
      BY InnerParts
    <2>2. ~n.leaf
      BY InnerParts
    <2>3. Boxed!Below(n) = b
      BY <2>2 DEF Boxed!Below
    <2> HIDE DEF e, g
    <2>4. \A i \in DOMAIN e : e[i] \in Kid(g)
      BY <2>1
    <2>5. \A i \in DOMAIN e : e[i].node \in Trees(g)
      BY <2>4 DEF Kid
    <2>6. b \in Seq(Trees(g)) /\ DOMAIN b = DOMAIN e
      BY <2>1, <2>5
    <2>7. \A i \in DOMAIN e : c[b[i]] = Of(g)[e[i]]
      <3> TAKE i \in DOMAIN e
      <3>1. b[i] = e[i].node /\ e[i] \in Kid(g) /\ e[i].node \in Trees(g)
        BY <2>4, <2>5
      <3> QED BY <3>1 DEF ItemsAt, Of
    <2> HIDE DEF b, c
    <2>8. Spread(b, c)
      BY <2>1, <2>6, <2>7 DEF Spread
    <2>9. Covered(b, c) = Covered(e, Of(g))
      BY <2>6, <2>7 DEF Covered
    <2> QED BY <2>1, <2>3, <2>6, <2>8, <2>9
  <1> HIDE DEF g, c
  <1>3. \A i \in DOMAIN s : /\ Boxed!Below(s[i]) \in Seq(Trees(g))
                            /\ Spread(Boxed!Below(s[i]), c)
                            /\ Covered(Boxed!Below(s[i]), c) = ItemsAt(h)[s[i]]
    BY <1>1, <1>2 DEF ItemsAt
  <1>4. /\ below \in Seq(Seq(Trees(g))) /\ DOMAIN below = DOMAIN s
        /\ \A i \in DOMAIN s : Spread(below[i], c) /\ Covered(below[i], c) = ItemsAt(h)[s[i]]
    <2>1. below \in Seq(Seq(Trees(g)))
      BY <1>3
    <2> QED BY <1>3, <2>1
  <1> HIDE DEF below
  <1>5. \A k, l \in DOMAIN below : k # l => Aside(Covered(below[k], c), Covered(below[l], c))
    BY <1>4 DEF Spread
  <1>6. /\ FlattenSeq(below) \in Seq(Trees(g)) /\ Spread(FlattenSeq(below), c)
        /\ Covered(FlattenSeq(below), c) = UNION {Covered(below[k], c) : k \in DOMAIN below}
    BY <1>4, <1>5, FlattenSpread
  <1>7. UNION {Covered(below[k], c) : k \in DOMAIN below} = Covered(s, ItemsAt(h))
    <2>1. \A k \in DOMAIN s : Covered(below[k], c) = ItemsAt(h)[s[k]]
      BY <1>4
    <2>2. DOMAIN below = DOMAIN s
      BY <1>4
    <2>3. UNION {Covered(below[k], c) : k \in DOMAIN s} = UNION {ItemsAt(h)[s[k]] : k \in DOMAIN s}
      BY <2>1
    <2> QED BY <2>2, <2>3 DEF Covered
  <1> QED BY <1>6, <1>7 DEF Down, below, g, c

IsLevels(f, n) == f = [d \in 0..n |-> IF d = 0 THEN <<root>> ELSE Down(f[d - 1])]

\* The levels are defined.
LEMMA LevelsExist ==
    ASSUME NEW n \in Nat
    PROVE  \E f : IsLevels(f, n)
  <1> DEFINE T == {m \in 0..n : \E f : IsLevels(f, m)}
  <1>1. 0 \in T
    <2> DEFINE f == [d \in 0..0 |-> <<root>>]
    <2>1. f = [d \in 0..0 |-> IF d = 0 THEN <<root>> ELSE Down(f[d - 1])]
      OBVIOUS
    <2> HIDE DEF f
    <2>2. IsLevels(f, 0)
      BY <2>1 DEF IsLevels
    <2> QED BY <2>2
  <1>2. ASSUME NEW m \in 0..n, m \in T, m # n
        PROVE  m + 1 \in T
    <2>1. PICK f : IsLevels(f, m)
      BY <1>2
    <2> DEFINE g == [d \in 0..(m + 1) |-> IF d <= m THEN f[d] ELSE Down(f[m])]
    <2>2. m \in Nat /\ m + 1 \in 0..n
      BY <1>2
    <2>3. f = [d \in 0..m |-> IF d = 0 THEN <<root>> ELSE Down(f[d - 1])]
      BY <2>1 DEF IsLevels
    <2> HIDE DEF T
    <2>4. ASSUME NEW d \in 0..(m + 1)
          PROVE  g[d] = IF d = 0 THEN <<root>> ELSE Down(g[d - 1])
      <3>1. CASE d <= m
        <4>1. d \in 0..m /\ (d # 0 => d - 1 \in 0..(m + 1) /\ d - 1 <= m)
          BY <2>2, <3>1
        <4>2. g[d] = f[d] /\ (d # 0 => g[d - 1] = f[d - 1])
          BY <3>1, <4>1
        <4>3. f[d] = IF d = 0 THEN <<root>> ELSE Down(f[d - 1])
          BY <2>3, <4>1
        <4> HIDE DEF g
        <4> QED BY <4>2, <4>3
      <3>2. CASE ~(d <= m)
        <4>1. d = m + 1 /\ d # 0 /\ d - 1 = m /\ m \in 0..(m + 1) /\ m <= m
          BY <2>2, <3>2
        <4>2. g[d] = Down(f[m]) /\ g[m] = f[m]
          BY <3>2, <4>1
        <4> HIDE DEF g
        <4> QED BY <4>1, <4>2
      <3> QED BY <3>1, <3>2
    <2>5. g = [d \in 0..(m + 1) |-> g[d]]
      OBVIOUS
    <2> HIDE DEF g
    <2>6. g = [d \in 0..(m + 1) |-> IF d = 0 THEN <<root>> ELSE Down(g[d - 1])]
      BY <2>4, <2>5
    <2>7. IsLevels(g, m + 1)
      BY <2>6 DEF IsLevels
    <2> QED BY <2>2, <2>7 DEF T
  <1>3. n \in T
    <2>1. n \in 0..n
      OBVIOUS
    <2> HIDE DEF T
    <2> QED BY <1>1, <1>2, <2>1, UpTo
  <1> QED BY <1>3

\* A level has nodes of one height, which together have the items of the root.
LEMMA LevelIs ==
    ASSUME Rooted
    PROVE  \A d \in 0..(height - 1) :
              /\ Boxed!Level[d] \in Seq(Trees((height - 1) - d))
              /\ Spread(Boxed!Level[d], ItemsAt((height - 1) - d))
              /\ Covered(Boxed!Level[d], ItemsAt((height - 1) - d)) = Within(height - 1, root)
  <1> DEFINE H == height - 1
             L == Boxed!Level
  <1>1. H \in Nat /\ H \in 0..MaxInserts /\ root \in Trees(H)
    BY TreeConstants DEF Rooted
  <1>2. L = CHOOSE f : IsLevels(f, H)
    BY Zenon DEF Boxed!Level, IsLevels, Down, Boxed!FlattenSeq, FlattenSeq
  <1>3. IsLevels(L, H)
    <2> HIDE DEF L, H
    <2> QED BY <1>1, <1>2, LevelsExist
  <1> HIDE DEF L, H
  <1>4. L[0] = <<root>> /\ \A d \in 1..H : L[d] = Down(L[d - 1])
    <2>1. \A d \in 0..H : L[d] = IF d = 0 THEN <<root>> ELSE Down(L[d - 1])
      BY <1>3 DEF IsLevels
    <2>2. 0 \in 0..H /\ \A d \in 1..H : d \in 0..H /\ d # 0
      BY <1>1
    <2> QED BY <2>1, <2>2
  <1> DEFINE Right(d) == /\ L[d] \in Seq(Trees(H - d)) /\ Spread(L[d], ItemsAt(H - d))
                         /\ Covered(L[d], ItemsAt(H - d)) = Within(H, root)
             T == {d \in 0..H : Right(d)}
  <1>5. 0 \in T
    <2> DEFINE s == <<root>>
               c == ItemsAt(H)
    <2>1. s \in Seq(Trees(H)) /\ DOMAIN s = {1} /\ s[1] = root
      BY <1>1
    <2>2. c[root] = Within(H, root)
      BY <1>1 DEF ItemsAt
    <2> HIDE DEF s, c
    <2>3. Spread(s, c)
      BY <2>1 DEF Spread
    <2>4. Covered(s, c) = Within(H, root)
      BY <2>1, <2>2 DEF Covered
    <2>5. H - 0 = H /\ 0 \in 0..H
      BY <1>1
    <2>6. L[0] = s
      BY <1>4 DEF s
    <2> QED BY <2>1, <2>3, <2>4, <2>5, <2>6 DEF c
  <1>6. ASSUME NEW d \in 0..H, d \in T, d # H
        PROVE  d + 1 \in T
    <2>1. H - d \in 1..MaxInserts /\ (H - d) - 1 = H - (d + 1) /\ d + 1 \in 1..H
          /\ d + 1 \in 0..H /\ (d + 1) - 1 = d
      BY <1>1, <1>6, TreeConstants
    <2>2. /\ L[d] \in Seq(Trees(H - d)) /\ Spread(L[d], ItemsAt(H - d))
          /\ Covered(L[d], ItemsAt(H - d)) = Within(H, root)
      BY <1>6
    <2>3. L[d + 1] = Down(L[d])
      BY <1>4, <2>1
    <2>4. Right(d + 1)
      BY <2>1, <2>2, <2>3, DownIs
    <2> HIDE DEF Right
    <2> QED BY <2>1, <2>4
  <1>7. \A d \in 0..H : d \in T
    <2> HIDE DEF T
    <2> QED BY <1>1, <1>5, <1>6, UpTo
  <1>8. \A d \in 0..H : Right(d)
    BY <1>7
  <1> QED BY <1>8 DEF H, L

\* The lowest level has the items of the root, each once.
LEMMA ItemsOf ==
    ASSUME Rooted
    PROVE  /\ Boxed!Items \in Seq(Thing) /\ Spread(Boxed!Items, Single)
           /\ ToSet(Boxed!Items) = Within(height - 1, root)
  <1> DEFINE H == height - 1
             lowest == Boxed!Level[H]
             s == [i \in DOMAIN lowest |-> lowest[i].entries]
  <1>1. H \in Nat /\ H \in 0..H /\ H - H = 0
    BY TreeConstants DEF Rooted
  <1>2. /\ lowest \in Seq(Trees(0)) /\ Spread(lowest, ItemsAt(0))
        /\ Covered(lowest, ItemsAt(0)) = Within(H, root)
    BY <1>1, LevelIs
  <1>3. Boxed!Items = FlattenSeq(s)
    BY DEF Boxed!Items, Boxed!FlattenSeq, FlattenSeq
  <1> HIDE DEF lowest, H
  <1>4. \A i \in DOMAIN lowest : lowest[i] \in Trees(0)
    BY <1>2
  <1>5. ASSUME NEW t \in Trees(0)
        PROVE  /\ t.entries \in Seq(Thing) /\ Spread(t.entries, Single)
               /\ Covered(t.entries, Single) = ItemsAt(0)[t]
    <2>1. t \in Leaves /\ Within(0, t) = ToSet(t.entries)
      BY LeafTrees, TreeConstants
    <2>2. /\ t.entries \in Seq(Thing)
          /\ \A i, j \in DOMAIN t.entries : t.entries[i].id = t.entries[j].id => i = j
      BY <2>1 DEF Leaves
    <2>3. ItemsAt(0)[t] = Within(0, t)
      BY DEF ItemsAt
    <2> QED BY <2>1, <2>2, <2>3, ItemsAre
  <1>6. /\ s \in Seq(Seq(Thing)) /\ DOMAIN s = DOMAIN lowest
        /\ \A i \in DOMAIN lowest : Spread(s[i], Single) /\ Covered(s[i], Single) = ItemsAt(0)[lowest[i]]
    <2>1. \A i \in DOMAIN lowest : lowest[i].entries \in Seq(Thing)
      BY <1>4, <1>5
    <2>2. s \in Seq(Seq(Thing))
      BY <1>2, <2>1
    <2> QED BY <1>4, <1>5, <2>2
  <1> HIDE DEF s
  <1>7. \A k, l \in DOMAIN s : k # l => Aside(Covered(s[k], Single), Covered(s[l], Single))
    BY <1>2, <1>6 DEF Spread
  <1>8. /\ FlattenSeq(s) \in Seq(Thing) /\ Spread(FlattenSeq(s), Single)
        /\ Covered(FlattenSeq(s), Single) = UNION {Covered(s[k], Single) : k \in DOMAIN s}
    BY <1>6, <1>7, FlattenSpread
  <1>9. UNION {Covered(s[k], Single) : k \in DOMAIN s} = Covered(lowest, ItemsAt(0))
    <2>1. \A k \in DOMAIN lowest : Covered(s[k], Single) = ItemsAt(0)[lowest[k]]
      BY <1>6
    <2>2. UNION {Covered(s[k], Single) : k \in DOMAIN lowest}
            = UNION {ItemsAt(0)[lowest[k]] : k \in DOMAIN lowest}
      BY <2>1
    <2> QED BY <1>6, <2>2 DEF Covered
  <1>10. ToSet(FlattenSeq(s)) = Within(H, root)
    BY <1>2, <1>8, <1>9, ItemsAre
  <1> QED BY <1>3, <1>8, <1>10 DEF H

-----------------------------------------------------------------------------
(* The invariant.                                                             *)

\* The tree is a tree.  What is in it was inserted before, and without failures
\* all that was inserted is; it is counted.
TreeInv ==
    /\ tried \in 0..MaxInserts /\ height \in 1..(tried + 1) /\ root \in Trees(height - 1)
    /\ failed \in BOOLEAN /\ present \in SUBSET Thing
    /\ IsFiniteSet(present) /\ Cardinality(present) = boxCount
    /\ \A x \in present \cup Within(height - 1, root) : x.id < tried
    /\ ~failed => Within(height - 1, root) = present

\* The invariant has the root.
LEMMA TreeRooted ==
    ASSUME TreeInv
    PROVE  Rooted
  BY TreeConstants DEF TreeInv, Rooted

\* The invariant has what is to hold of the tree.
LEMMA TreeHolds ==
    ASSUME TreeInv
    PROVE  Boxed!TreeSound
  <1> DEFINE H == height - 1
             L == Boxed!Level
             s == Boxed!Items
  <1>1. Rooted
    BY TreeRooted
  <1>2. H \in 0..MaxInserts /\ H \in Nat
    BY <1>1, TreeConstants DEF Rooted
  <1>3. \A d \in 0..H : L[d] \in Seq(Trees(H - d))
    BY <1>1, LevelIs
  <1> HIDE DEF H, L
  <1>4. ASSUME NEW d \in 0..H, NEW node \in ToSet(L[d])
        PROVE  /\ node.leaf <=> d = H
               /\ Len(node.entries) <= MaxChildren
               /\ ~node.leaf => Len(node.entries) > 0
    <2>1. H - d \in 0..MaxInserts /\ (H - d = 0 <=> d = H)
      BY <1>2, TreeConstants
    <2>2. \A i \in DOMAIN L[d] : L[d][i] \in Trees(H - d)
      BY <1>3
    <2>3. node \in Trees(H - d)
      BY <2>2 DEF ToSet
    <2>4. node.leaf = (H - d = 0) /\ Len(node.entries) <= MaxChildren
      BY <2>1, <2>3, TreesHave, TreeConstants
    <2>5. ASSUME d # H
          PROVE  Len(node.entries) > 0
      <3>1. H - d \in 1..MaxInserts
        BY <2>1, <2>5
      <3>2. Len(node.entries) \in 1..MaxChildren
        BY <2>3, <3>1, InnerParts
      <3> QED BY <3>2, TreeConstants
    <2> QED BY <2>1, <2>4, <2>5
  <1>5. s \in Seq(Thing) /\ Spread(s, Single) /\ ToSet(s) = Within(H, root)
    BY <1>1, ItemsOf DEF H
  <1>6. \A i, j \in DOMAIN s : s[i].id = s[j].id => i = j
    BY <1>5, ItemsAre
  <1>7. ASSUME ~failed
        PROVE  ToSet(s) = present /\ boxCount = Len(s)
    <2>1. ToSet(s) = present
      BY <1>5, <1>7 DEF TreeInv, H
    <2>2. Cardinality(ToSet(s)) = Len(s)
      BY <1>5, <1>6, LengthIs
    <2> QED BY <2>1, <2>2 DEF TreeInv
  <1> HIDE DEF s
  <1>8. \A d \in 0..(height - 1) : \A node \in ToSet(Boxed!Level[d]) :
           /\ node.leaf <=> d = height - 1
           /\ Len(node.entries) <= MaxChildren
           /\ ~node.leaf => Len(node.entries) > 0
    BY <1>4 DEF H, L
  <1> QED BY <1>6, <1>7, <1>8 DEF Boxed!TreeSound, Boxed!ToSet, ToSet, s

\* It holds of the empty tree.
LEMMA TreeBegins ==
    ASSUME Boxed!Init
    PROVE  TreeInv
  <1> DEFINE e == <<>>
  <1>1. e \in Seq(Thing) /\ Len(e) = 0 /\ DOMAIN e = {}
    OBVIOUS
  <1>2. root = Boxed!Leaf(e) /\ height = 1 /\ boxCount = 0 /\ tried = 0 /\ failed = FALSE
        /\ present = {}
    BY DEF Boxed!Init
  <1> HIDE DEF e
  <1>3. Spread(e, Single) /\ Covered(e, Single) = {}
    BY <1>1 DEF Spread, Covered
  <1>4. root \in Trees(0) /\ Within(0, root) = {}
    <2>1. Len(e) <= MaxChildren
      BY <1>1, TreeConstants
    <2>2. Boxed!Leaf(e) \in Trees(0) /\ Within(0, Boxed!Leaf(e)) = Covered(e, Single)
      BY <1>1, <1>3, <2>1, LeafIs
    <2> QED BY <1>2, <1>3, <2>2
  <1>5. IsFiniteSet(present) /\ Cardinality(present) = 0
    BY <1>2, FS_EmptySet
  <1>6. height - 1 = 0 /\ tried \in 0..MaxInserts /\ height \in 1..(tried + 1)
    BY <1>2, TreeConstants
  <1>7. Within(height - 1, root) = {} /\ root \in Trees(height - 1)
    BY <1>4, <1>6
  <1>8. present \in SUBSET Thing /\ failed \in BOOLEAN /\ Cardinality(present) = boxCount
    BY <1>2, <1>5
  <1> QED BY <1>2, <1>5, <1>6, <1>7, <1>8 DEF TreeInv

\* It holds as long as the tree is not touched.
LEMMA TreeKept ==
    ASSUME TreeInv, UNCHANGED boxVars
    PROVE  TreeInv'
  BY DEF TreeInv, boxVars

LEMMA TreeStep ==
    ASSUME TreeInv, Boxed!Next
    PROVE  TreeInv'
  <1> DEFINE H == height - 1
             C == Within(H, root)
  <1>1. PICK box \in MCBoxes : Boxed!Insert(box)
    BY DEF Boxed!Next
  <1> DEFINE item == [id |-> tried, box |-> box]
  <1>2. tried < MaxInserts /\ tried' = tried + 1
    BY <1>1 DEF Boxed!Insert
  <1>3. PICK o \in Boxed!Inserted(item) :
          \/ /\ o.ok
             /\ root' = IF o.split = <<>> THEN o.node
                        ELSE Boxed!Inner(<<Boxed!Child(o.node), Boxed!Child(o.split[1])>>)
             /\ height' = height + Len(o.split)
             /\ boxCount' = boxCount + 1
             /\ present' = present \cup {item}
             /\ UNCHANGED failed
          \/ /\ ~o.ok \/ o.split # <<>>
             /\ root' = o.node
             /\ failed' = TRUE
             /\ UNCHANGED <<height, boxCount, present>>
    BY <1>1 DEF Boxed!Insert
  <1>4. /\ tried \in Nat /\ MaxInserts \in Nat /\ height \in 1..(tried + 1)
        /\ root \in Trees(H) /\ H \in 0..MaxInserts /\ H \in Nat /\ H <= tried
        /\ failed \in BOOLEAN /\ present \in SUBSET Thing
        /\ IsFiniteSet(present) /\ Cardinality(present) = boxCount
        /\ (~failed => C = present)
    BY TreeConstants DEF TreeInv
  <1>5. /\ \A x \in present : x.id < tried
        /\ \A x \in C : x.id < tried
    BY DEF TreeInv
  <1>6. item \in Thing /\ item.id = tried
    BY <1>4 DEF Thing
  <1> HIDE DEF item
  <1>7. Aside(C, {item}) /\ item \notin present
    <2>1. \A x \in C : x.id # item.id
      BY <1>4, <1>5, <1>6, TreesHave, TreeConstants DEF Thing
    <2>2. item \notin present
      BY <1>4, <1>5, <1>6
    <2> QED BY <2>1, <2>2 DEF Aside
  <1>8. Placed(o, C, H, item)
    BY <1>3, <1>6, <1>7, TreeRooted, InsertedPlaced
  <1>9. tried' \in 0..MaxInserts /\ tried' \in Nat /\ tried' = tried + 1
    BY <1>2, <1>4
  <1> HIDE DEF H, C
  <1>10. \A x \in present \cup C \cup {item} : x.id < tried'
    <2>1. /\ \A x \in present \cup C : x \in Thing
      BY <1>4, TreesHave, TreeConstants DEF C
    <2>2. \A x \in present \cup C : x.id \in Nat
      BY <2>1 DEF Thing
    <2> QED BY <1>4, <1>5, <1>6, <1>9, <2>2
  <1>11. IsFiniteSet(present \cup {item}) /\ Cardinality(present \cup {item}) = boxCount + 1
    BY <1>4, <1>7, OneMore
  <1>12. o.node \in Trees(H) /\ o.ok \in BOOLEAN
    BY <1>8 DEF Placed
  <1>13. height' = height => height' \in 1..(tried' + 1) /\ height' - 1 = H
    BY <1>4, <1>9 DEF H
  <1>14. CASE /\ o.ok /\ o.split = <<>> /\ root' = o.node /\ height' = height + Len(o.split)
              /\ boxCount' = boxCount + 1 /\ present' = present \cup {item} /\ UNCHANGED failed
    <2>1. Within(H, o.node) = C \cup {item}
      BY <1>8, <1>14 DEF Placed
    <2>2. height' = height
      BY <1>4, <1>14
    <2>3. height' - 1 = H /\ height' \in 1..(tried' + 1)
      BY <1>13, <2>2
    <2>4. Within(height' - 1, root') = C \cup {item} /\ root' \in Trees(height' - 1)
      BY <1>12, <1>14, <2>1, <2>3
    <2>5. present' \in SUBSET Thing /\ failed' \in BOOLEAN
      BY <1>4, <1>6, <1>14
    <2>6. IsFiniteSet(present') /\ Cardinality(present') = boxCount'
      BY <1>11, <1>14
    <2>7. ~failed' => Within(height' - 1, root') = present'
      BY <1>4, <1>14, <2>4
    <2>8. \A x \in present' \cup Within(height' - 1, root') : x.id < tried'
      BY <1>10, <1>14, <2>4
    <2> QED BY <1>9, <2>3, <2>4, <2>5, <2>6, <2>7, <2>8 DEF TreeInv
  <1>15. CASE /\ o.ok /\ o.split # <<>>
              /\ root' = Boxed!Inner(<<Boxed!Child(o.node), Boxed!Child(o.split[1])>>)
              /\ height' = height + Len(o.split)
              /\ boxCount' = boxCount + 1 /\ present' = present \cup {item} /\ UNCHANGED failed
    <2>1. PICK s \in Trees(H) : /\ o.split = <<s>>
                                /\ Aside(Within(H, o.node), Within(H, s))
                                /\ Within(H, o.node) \cup Within(H, s) = C \cup {item}
      BY <1>8, <1>15 DEF Placed
    <2> DEFINE a == [node |-> o.node, box |-> o.node.box]
               b == [node |-> s, box |-> s.box]
               e == <<a, b>>
               c == Of(H)
               h == H + 1
    <2>2. o.split[1] = s /\ Len(o.split) = 1
      BY <2>1
    <2>3. height' = height + 1
      BY <1>15, <2>2
    <2>4. h \in 1..MaxInserts /\ h - 1 = H /\ height' - 1 = h /\ height' \in 1..(tried' + 1)
      BY <1>2, <1>4, <1>9, <2>3 DEF H
    <2>5. root' = Boxed!Inner(e)
      BY <1>15, <2>2 DEF Boxed!Child
    <2>6. o.node.box \in FinBox /\ s.box \in FinBox
      BY <1>4, <1>12, BoxIs
    <2>7. a \in Kid(H) /\ c[a] = Within(H, o.node)
      BY <1>12, <2>6, KidHas
    <2>8. b \in Kid(H) /\ c[b] = Within(H, s)
      BY <2>6, KidHas
    <2> HIDE DEF a, b, c, h
    <2>9. e \in Seq(Kid(H)) /\ Len(e) = 2 /\ DOMAIN e = 1..2 /\ e[1] = a /\ e[2] = b
      BY <2>7, <2>8
    <2> HIDE DEF e
    <2>10. Aside(c[a], c[b]) /\ Aside(c[b], c[a])
      BY <2>1, <2>7, <2>8 DEF Aside
    <2>11. Spread(e, c)
      <3>1. ASSUME NEW i \in DOMAIN e, NEW j \in DOMAIN e, i # j
            PROVE  Aside(c[e[i]], c[e[j]])
        <4>1. (i = 1 /\ j = 2) \/ (i = 2 /\ j = 1)
          BY <2>9, <3>1
        <4> QED BY <2>9, <2>10, <4>1
      <3> QED BY <3>1 DEF Spread
    <2>12. Covered(e, c) = C \cup {item}
      <3>1. Covered(e, c) = c[e[1]] \cup c[e[2]]
        <4>1. ASSUME NEW x \in Covered(e, c)
              PROVE  x \in c[e[1]] \cup c[e[2]]
          <5>1. PICK i \in DOMAIN e : x \in c[e[i]]
            BY <4>1 DEF Covered
          <5>2. i = 1 \/ i = 2
            BY <2>9
          <5> QED BY <5>1, <5>2
        <4>2. 1 \in DOMAIN e /\ 2 \in DOMAIN e
          BY <2>9
        <4>3. ASSUME NEW x \in c[e[1]] \cup c[e[2]]
              PROVE  x \in Covered(e, c)
          BY <4>2, <4>3 DEF Covered
        <4> QED BY <4>1, <4>3
      <3> QED BY <2>1, <2>7, <2>8, <2>9, <3>1
    <2>13. Len(e) \in 1..MaxChildren
      BY <2>9, TreeConstants
    <2>14. Boxed!Inner(e) \in Trees(h) /\ Within(h, Boxed!Inner(e)) = Covered(e, c)
      BY <2>4, <2>6, <2>9, <2>11, <2>13, InnerMade DEF c
    <2>15. root' \in Trees(height' - 1) /\ Within(height' - 1, root') = C \cup {item}
      BY <2>4, <2>5, <2>12, <2>14
    <2>16. present' \in SUBSET Thing /\ failed' \in BOOLEAN
      BY <1>4, <1>6, <1>15
    <2>17. IsFiniteSet(present') /\ Cardinality(present') = boxCount'
      BY <1>11, <1>15
    <2>18. ~failed' => Within(height' - 1, root') = present'
      BY <1>4, <1>15, <2>15
    <2>19. \A x \in present' \cup Within(height' - 1, root') : x.id < tried'
      BY <1>10, <1>15, <2>15
    <2> QED BY <1>9, <2>4, <2>15, <2>16, <2>17, <2>18, <2>19 DEF TreeInv
  <1>16. CASE /\ ~o.ok \/ o.split # <<>>
              /\ root' = o.node /\ failed' = TRUE /\ UNCHANGED <<height, boxCount, present>>
    <2>1. Within(H, o.node) \subseteq C \cup {item}
      <3>1. CASE ~o.ok
        BY <1>8, <3>1 DEF Placed
      <3>2. CASE o.split # <<>>
        BY <1>8, <3>2 DEF Placed
      <3> QED BY <1>16, <3>1, <3>2
    <2>2. height' - 1 = H /\ height' \in 1..(tried' + 1)
      BY <1>13, <1>16
    <2>3. root' \in Trees(height' - 1) /\ Within(height' - 1, root') \subseteq C \cup {item}
      BY <1>12, <1>16, <2>1, <2>2
    <2>4. /\ present' \in SUBSET Thing /\ failed' \in BOOLEAN
          /\ IsFiniteSet(present') /\ Cardinality(present') = boxCount'
      BY <1>4, <1>16
    <2>5. \A x \in present' \cup Within(height' - 1, root') : x.id < tried'
      BY <1>10, <1>16, <2>3
    <2> QED BY <1>9, <1>16, <2>2, <2>3, <2>4, <2>5 DEF TreeInv
  <1> QED BY <1>3, <1>14, <1>15, <1>16

\* So does every step of an index.
LEMMA TreeNext ==
    ASSUME TreeInv, [IndexNext]_indexVars
    PROVE  TreeInv'
  <1>1. Boxed!Next \/ UNCHANGED boxVars
    BY DEF IndexNext, indexVars
  <1> QED BY <1>1, TreeStep, TreeKept

=============================================================================
