--------------------------- MODULE StorageProofs ----------------------------
(* Proofs about the memory engine, for every number of rows and sizes of the  *)
(* hash table, and about the storage layer: the engines keep the promise of   *)
(* TableStore, and no step of one of them disturbs another.                   *)
EXTENDS EngineProofs, IndexProofs

-----------------------------------------------------------------------------
(* The chains of the memory engine.                                          *)

\* s are the nodes from n on along nx, to the one without a next.
IsChain(s, n, nx) ==
    /\ s \in Seq(Nat \ {0})
    /\ n = IF s = <<>> THEN 0 ELSE s[1]
    /\ \A i \in 1..Len(s) : nx[s[i]] = IF i = Len(s) THEN 0 ELSE s[i + 1]

\* The chain that is read from n on is the one there is, when it is not longer
\* than there are nodes.
LEMMA ChainIs ==
    ASSUME MemoryRows \in Nat, NEW n, NEW nx, NEW s, IsChain(s, n, nx), Len(s) <= MemoryRows
    PROVE  Memory!Chain(n, nx) = s
  <1> DEFINE m == MemoryRows
             l == Len(s)
             next(so) == IF so = <<>> \/ nx[Last(so)] = 0 THEN so ELSE Append(so, nx[Last(so)])
             base == IF n = 0 THEN <<>> ELSE <<n>>
             Eq(f) == f = [j \in 0..m |-> IF j = 0 THEN base ELSE next(f[j - 1])]
             C == CHOOSE f : Eq(f)
             P(j) == SubSeq(s, 1, IF j + 1 <= l THEN j + 1 ELSE l)
  <1>1. Memory!Chain(n, nx) = C[m]
    BY DEF Memory!Chain, Memory!Last, Last
  <1>2. s \in Seq(Nat \ {0}) /\ l \in Nat /\ m \in Nat /\ \A i \in 1..l : s[i] \in Nat \ {0}
    BY DEF IsChain
  <1>3. P(0) = base
    <2>1. CASE s = <<>>
      <3>1. n = 0 /\ l = 0
        BY <2>1 DEF IsChain
      <3> QED BY <1>2, <2>1, <3>1
    <2>2. CASE s # <<>>
      <3>1. n = s[1] /\ l >= 1 /\ n # 0
        BY <1>2, <2>2 DEF IsChain
      <3>2. SubSeq(s, 1, 1) = <<s[1]>>
        <4> DEFINE a == SubSeq(s, 1, 1)
        <4>1. a \in Seq(Nat \ {0}) /\ Len(a) = 1 /\ a[1] = s[1]
          BY <1>2, <3>1
        <4> HIDE DEF a
        <4>2. \A i \in 1..1 : a[i] = <<s[1]>>[i]
          BY <4>1
        <4>3. a = <<s[1]>>
          BY <4>1, <4>2
        <4> QED BY <4>3 DEF a
      <3> QED BY <1>2, <3>1, <3>2
    <2> QED BY <2>1, <2>2
  <1>4. ASSUME NEW j \in 0..m, j # m PROVE P(j + 1) = next(P(j))
    <2>1. CASE s = <<>>
      <3>1. l = 0 /\ \A k : SubSeq(s, 1, 0) = <<>>
        BY <2>1
      <3>2. P(j) = <<>> /\ P(j + 1) = <<>>
        BY <1>2, <1>4, <3>1
      <3> QED BY <3>2
    <2>2. CASE s # <<>>
      <3> DEFINE k == IF j + 1 <= l THEN j + 1 ELSE l
                 p == SubSeq(s, 1, k)
      <3>1. k \in 1..l /\ P(j) = p
        BY <1>2, <1>4, <2>2
      <3>2. p \in Seq(Nat \ {0}) /\ Len(p) = k /\ \A i \in 1..k : p[i] = s[i]
        BY <1>2, <3>1
      <3>3. Last(p) = s[k] /\ p # <<>>
        BY SMTT(30), <1>2, <3>1, <3>2 DEF Last
      <3>4. nx[s[k]] = IF k = l THEN 0 ELSE s[k + 1]
        BY Zenon, <3>1 DEF IsChain
      <3>5. CASE k = l
        <4>1. next(p) = p
          BY <3>3, <3>4, <3>5
        <4>2. P(j + 1) = SubSeq(s, 1, l)
          BY <1>2, <1>4, <3>5
        <4> HIDE DEF P, next
        <4> QED BY <3>1, <3>5, <4>1, <4>2
      <3>6. CASE k # l
        <4>1. k + 1 \in 1..l /\ k = j + 1 /\ (j + 1) + 1 = k + 1
          BY <1>2, <1>4, <3>1, <3>6
        <4>2. s[k + 1] # 0 /\ s[k + 1] \in Nat \ {0}
          BY <1>2, <4>1
        <4>3. next(p) = Append(p, s[k + 1])
          BY <3>3, <3>4, <3>6, <4>2
        <4>4. P(j + 1) = SubSeq(s, 1, k + 1)
          BY <1>2, <4>1
        <4>5. SubSeq(s, 1, k + 1) = Append(p, s[k + 1])
          <5> DEFINE a == SubSeq(s, 1, k + 1)
                     b == Append(p, s[k + 1])
          <5>1. a \in Seq(Nat \ {0}) /\ Len(a) = k + 1 /\ \A i \in 1..(k + 1) : a[i] = s[i]
            BY <1>2, <4>1
          <5>2. b \in Seq(Nat \ {0}) /\ Len(b) = k + 1 /\ b[k + 1] = s[k + 1]
                /\ \A i \in 1..k : b[i] = p[i]
            BY <3>2, <4>2
          <5> HIDE DEF a, b, p
          <5>3. \A i \in 1..(k + 1) : a[i] = b[i]
            <6> SUFFICES ASSUME NEW i \in 1..(k + 1) PROVE a[i] = b[i]
              OBVIOUS
            <6>1. i \in 1..k \/ i = k + 1
              BY <3>1
            <6> QED BY Zenon, <3>2, <5>1, <5>2, <6>1
          <5>4. a = b
            BY SMTT(30), <5>1, <5>2, <5>3
          <5> QED BY <5>4 DEF a, b
        <4> HIDE DEF P, next
        <4> QED BY Zenon, <3>1, <4>3, <4>4, <4>5
      <3> QED BY <3>5, <3>6
    <2> QED BY <2>1, <2>2
  <1> HIDE DEF P
  <1> DEFINE g == [j \in 0..m |-> P(j)]
  <1>5. Eq(g)
    <2> DEFINE h == [j \in 0..m |-> IF j = 0 THEN base ELSE next(g[j - 1])]
    <2>1. ASSUME NEW j \in 0..m PROVE g[j] = h[j]
      <3>1. CASE j = 0
        BY <1>3, <3>1
      <3>2. CASE j # 0
        <4>1. j - 1 \in 0..m /\ j - 1 # m /\ (j - 1) + 1 = j
          BY <1>2, <3>2
        <4>2. P((j - 1) + 1) = next(P(j - 1))
          BY Zenon, <1>4, <4>1
        <4>3. h[j] = next(g[j - 1]) /\ g[j - 1] = P(j - 1) /\ g[j] = P(j)
          BY <3>2, <4>1
        <4> HIDE DEF g, h, next
        <4> QED BY <4>1, <4>2, <4>3
      <3> QED BY Zenon, <3>1, <3>2
    <2>2. g = [j \in 0..m |-> g[j]] /\ h = [j \in 0..m |-> h[j]]
      OBVIOUS
    <2> HIDE DEF g, h
    <2>3. g = h
      BY SMTT(30), <2>1, <2>2
    <2> QED BY Zenon, <2>3 DEF h
  <1>6. Eq(C)
    BY Zenon, <1>5
  <1> HIDE DEF C
  <1>7. C[0] = base /\ \A j \in 0..m : j # 0 => C[j] = next(C[j - 1])
    <2> DEFINE h == [j \in 0..m |-> IF j = 0 THEN base ELSE next(C[j - 1])]
    <2>1. C = h
      BY Zenon, <1>6
    <2>2. h[0] = base /\ \A j \in 0..m : j # 0 => h[j] = next(C[j - 1])
      <3> HIDE DEF base, next
      <3> QED BY <1>2
    <2> HIDE DEF h, base, next
    <2> QED BY <2>1, <2>2
  <1> HIDE DEF base, next
  <1> DEFINE T == {j \in 0..m : C[j] = P(j)}
  <1>8. 0 \in T
    BY <1>2, <1>3, <1>7
  <1>9. ASSUME NEW j \in 0..m, j \in T, j # m PROVE j + 1 \in T
    <2>1. j + 1 \in 0..m /\ j + 1 # 0 /\ (j + 1) - 1 = j
      BY <1>2, <1>9
    <2>2. C[j + 1] = next(C[j])
      BY <1>7, <2>1
    <2>3. C[j] = P(j)
      BY <1>9
    <2>4. P(j + 1) = next(P(j))
      BY <1>4, <1>9
    <2> QED BY <2>1, <2>2, <2>3, <2>4
  <1>10. m \in T
    <2> HIDE DEF T
    <2>1. \A j \in 0..m : j \in T
      BY Zenon, <1>2, <1>8, <1>9, UpTo
    <2> QED BY <1>2, <2>1
  <1>11. P(m) = s
    <2>1. P(m) = SubSeq(s, 1, l)
      BY <1>2 DEF P
    <2>2. SubSeq(s, 1, l) = s
      BY <1>2
    <2> QED BY <2>1, <2>2
  <1> QED BY <1>1, <1>10, <1>11

\* One element in front.
LEMMA Prepend ==
    ASSUME NEW E, NEW s \in Seq(E), NEW x \in E
    PROVE  /\ <<x>> \o s \in Seq(E) /\ Len(<<x>> \o s) = Len(s) + 1
           /\ (<<x>> \o s)[1] = x
           /\ \A i \in 1..Len(s) : (<<x>> \o s)[i + 1] = s[i]
           /\ \A i \in 2..(Len(s) + 1) : (<<x>> \o s)[i] = s[i - 1]
           /\ ToSet(<<x>> \o s) = {x} \cup ToSet(s)
  <1> DEFINE p == <<x>> \o s
  <1>1. /\ p \in Seq(E) /\ Len(p) = Len(s) + 1 /\ p[1] = x /\ Len(s) \in Nat
        /\ DOMAIN p = 1..(Len(s) + 1) /\ DOMAIN s = 1..Len(s)
    OBVIOUS
  <1>2. \A i \in 2..(Len(s) + 1) : p[i] = s[i - 1]
    OBVIOUS
  <1> HIDE DEF p
  <1>3. \A i \in 1..Len(s) : p[i + 1] = s[i]
    <2> SUFFICES ASSUME NEW i \in 1..Len(s) PROVE p[i + 1] = s[i]
      OBVIOUS
    <2>1. i + 1 \in 2..(Len(s) + 1) /\ (i + 1) - 1 = i
      BY <1>1
    <2> QED BY <1>2, <2>1
  <1>4. ToSet(p) = {x} \cup ToSet(s)
    <2>1. \A y \in ToSet(p) : y \in {x} \cup ToSet(s)
      <3> SUFFICES ASSUME NEW i \in 1..(Len(s) + 1) PROVE p[i] \in {x} \cup ToSet(s)
        BY <1>1 DEF ToSet
      <3>1. CASE i = 1
        BY <1>1, <3>1
      <3>2. CASE i # 1
        <4>1. i \in 2..(Len(s) + 1) /\ i - 1 \in 1..Len(s)
          BY <1>1, <3>2
        <4> QED BY <1>1, <1>2, <4>1 DEF ToSet
      <3> QED BY <3>1, <3>2
    <2>2. x \in ToSet(p)
      BY <1>1 DEF ToSet
    <2>3. \A y \in ToSet(s) : y \in ToSet(p)
      <3> SUFFICES ASSUME NEW i \in 1..Len(s) PROVE s[i] \in ToSet(p)
        BY <1>1 DEF ToSet
      <3>1. i + 1 \in 1..(Len(s) + 1)
        BY <1>1
      <3> QED BY <1>1, <1>3, <3>1 DEF ToSet
    <2> QED BY <2>1, <2>2, <2>3
  <1> QED BY <1>1, <1>2, <1>3, <1>4 DEF p

-----------------------------------------------------------------------------
(* Nodes put at the head of their bucket.                                     *)

\* Buckets for cap, and links for the nodes 1..m.
Tables(m, cap) ==
    {t \in [head : Seq(0..MemoryRows), nxt : [1..m -> 0..MemoryRows],
            prv : [1..m -> 0..MemoryRows]] : Len(t.head) = cap}

\* s is the chain of bucket h of t, with the nodes of `live' that belong there.
IsBucket(t, live, s, h, cap) ==
    /\ IsChain(s, t.head[h], t.nxt)
    /\ \A i, j \in 1..Len(s) : s[i] = s[j] => i = j
    /\ ToSet(s) = {x \in live : Memory!Bucket(x, cap) = h}
    /\ \A i \in 1..Len(s) : t.prv[s[i]] = IF i = 1 THEN 0 ELSE s[i - 1]

\* S are the chains of t, with the nodes of `live'.
Sound(t, live, S, cap) == \A h \in 1..cap : IsBucket(t, live, S[h], h, cap)

LEMMA BucketRange ==
    ASSUME NEW id \in Nat, NEW cap \in Nat \ {0}
    PROVE  Memory!Bucket(id, cap) \in 1..cap
  <1>1. id % cap \in 0..(cap - 1)
    OBVIOUS
  <1> QED BY <1>1 DEF Memory!Bucket

\* A table stays one.
LEMMA PushType ==
    ASSUME NEW m \in Nat, m <= MemoryRows, MemoryRows \in Nat, NEW cap \in Nat \ {0},
           NEW t \in Tables(m, cap), NEW id \in 1..m
    PROVE  Memory!Push(t, id) \in Tables(m, cap)
  <1> DEFINE h == Memory!Bucket(id, Len(t.head))
             first == t.head[h]
             alone == [t.prv EXCEPT ![id] = 0]
             hd == [t.head EXCEPT ![h] = id]
             nx == [t.nxt EXCEPT ![id] = first]
             pv == IF first = 0 THEN alone ELSE [alone EXCEPT ![first] = id]
  <1>1. Memory!Push(t, id) = [head |-> hd, nxt |-> nx, prv |-> pv]
    BY DEF Memory!Push, Memory!Cap
  <1>2. /\ t.head \in Seq(0..MemoryRows) /\ t.nxt \in [1..m -> 0..MemoryRows]
        /\ t.prv \in [1..m -> 0..MemoryRows] /\ Len(t.head) = cap
    BY DEF Tables
  <1>3. h \in 1..cap /\ id \in 0..MemoryRows /\ 0 \in 0..MemoryRows
    <2>1. id \in Nat /\ id \in 0..MemoryRows /\ 0 \in 0..MemoryRows
      OBVIOUS
    <2>2. Memory!Bucket(id, cap) \in 1..cap
      BY <2>1, BucketRange
    <2> QED BY <1>2, <2>1, <2>2
  <1> HIDE DEF h
  <1>4. first \in 0..MemoryRows
    BY <1>2, <1>3
  <1>5. hd \in Seq(0..MemoryRows) /\ Len(hd) = cap
    BY <1>2, <1>3
  <1>6. nx \in [1..m -> 0..MemoryRows]
    BY <1>2, <1>4
  <1>7. pv \in [1..m -> 0..MemoryRows]
    BY Zenon, <1>2, <1>3
  <1> HIDE DEF hd, nx, pv
  <1> QED BY SMTT(30), <1>1, <1>5, <1>6, <1>7 DEF Tables

\* A node that is put at the head is in front of its chain, and the other chains
\* are as they were.
LEMMA PushSound ==
    ASSUME NEW m \in Nat, m <= MemoryRows, MemoryRows \in Nat, NEW cap \in Nat \ {0},
           NEW t \in Tables(m, cap), NEW live \in SUBSET (1..m), NEW S, Sound(t, live, S, cap),
           NEW id \in 1..m, id \notin live
    PROVE  \E R : Sound(Memory!Push(t, id), live \cup {id}, R, cap)
  <1> DEFINE h == Memory!Bucket(id, cap)
             first == t.head[h]
             alone == [t.prv EXCEPT ![id] = 0]
             hd == [t.head EXCEPT ![h] = id]
             nx == [t.nxt EXCEPT ![id] = first]
             pv == IF first = 0 THEN alone ELSE [alone EXCEPT ![first] = id]
             u == [head |-> hd, nxt |-> nx, prv |-> pv]
             more == live \cup {id}
             R == [g \in 1..cap |-> IF g = h THEN <<id>> \o S[h] ELSE S[g]]
  <1>2. /\ t.head \in Seq(0..MemoryRows) /\ t.nxt \in [1..m -> 0..MemoryRows]
        /\ t.prv \in [1..m -> 0..MemoryRows] /\ Len(t.head) = cap
        /\ DOMAIN t.head = 1..cap
    BY DEF Tables
  <1>1. Memory!Push(t, id) = u
    BY <1>2 DEF Memory!Push, Memory!Cap
  <1>3. h \in 1..cap /\ id # 0
    BY BucketRange
  <1>4. u.head = hd /\ u.nxt = nx /\ u.prv = pv
    OBVIOUS
  <1>5. /\ hd[h] = id /\ \A g \in 1..cap : g # h => hd[g] = t.head[g]
        /\ nx[id] = first /\ \A x \in 1..m : x # id => nx[x] = t.nxt[x]
    BY Zenon, <1>2, <1>3
  <1>6. \A g \in 1..cap : \A i \in 1..Len(S[g]) :
           S[g][i] \in live /\ S[g][i] # id /\ S[g][i] \in 1..m /\ Memory!Bucket(S[g][i], cap) = g
    BY SMTT(30) DEF Sound, IsBucket, IsChain, ToSet
  <1>7. S[h] \in Seq(Nat \ {0}) /\ Len(S[h]) \in Nat
        /\ first = IF S[h] = <<>> THEN 0 ELSE S[h][1]
    BY <1>3 DEF Sound, IsBucket, IsChain
  <1>8. first # 0 => /\ Len(S[h]) >= 1 /\ first = S[h][1] /\ first \in 1..m /\ first # id
                     /\ Memory!Bucket(first, cap) = h
    <2> SUFFICES ASSUME first # 0
                 PROVE  /\ Len(S[h]) >= 1 /\ first = S[h][1] /\ first \in 1..m /\ first # id
                        /\ Memory!Bucket(first, cap) = h
      OBVIOUS
    <2>1. S[h] # <<>> /\ first = S[h][1]
      BY <1>7
    <2>2. 1 \in 1..Len(S[h])
      BY <1>7, <2>1
    <2> QED BY <1>3, <1>6, <1>7, <2>1, <2>2
  <1> HIDE DEF first, h
  <1>9. /\ pv[id] = 0 /\ (first # 0 => pv[first] = id)
        /\ \A x \in 1..m : x # id /\ x # first => pv[x] = t.prv[x]
    <2>1. CASE first = 0
      BY Zenon, <1>2, <2>1
    <2>2. CASE first # 0
      BY Zenon, <1>2, <1>8, <2>2
    <2> QED BY <2>1, <2>2
  <1> HIDE DEF hd, nx, pv, u
  <1>10. ASSUME NEW g \in 1..cap, g # h PROVE IsBucket(u, more, R[g], g, cap)
    <2> DEFINE s == S[g]
    <2>1. R[g] = s
      BY <1>10
    <2>2. IsBucket(t, live, s, g, cap)
      BY DEF Sound
    <2>3. \A i \in 1..Len(s) : s[i] \in 1..m /\ s[i] # id /\ s[i] # first
      <3> SUFFICES ASSUME NEW i \in 1..Len(s) PROVE s[i] \in 1..m /\ s[i] # id /\ s[i] # first
        OBVIOUS
      <3>1. s[i] \in 1..m /\ s[i] # id /\ Memory!Bucket(s[i], cap) = g
        BY <1>6
      <3>2. s[i] # 0
        BY <3>1
      <3>3. ASSUME s[i] = first PROVE FALSE
        <4>1. Memory!Bucket(s[i], cap) = h
          BY <1>8, <3>2, <3>3
        <4> QED BY <1>10, <3>1, <4>1
      <3> QED BY <3>1, <3>3
    <2> HIDE DEF s
    <2>4. IsChain(s, u.head[g], u.nxt)
      <3>1. u.head[g] = t.head[g]
        BY <1>4, <1>5, <1>10
      <3>2. \A i \in 1..Len(s) : u.nxt[s[i]] = t.nxt[s[i]]
        BY <1>4, <1>5, <2>3
      <3> QED BY <2>2, <3>1, <3>2 DEF IsBucket, IsChain
    <2>5. \A i \in 1..Len(s) : u.prv[s[i]] = IF i = 1 THEN 0 ELSE s[i - 1]
      <3>1. \A i \in 1..Len(s) : u.prv[s[i]] = t.prv[s[i]]
        BY <1>4, <1>9, <2>3
      <3> QED BY Zenon, <2>2, <3>1 DEF IsBucket
    <2>6. ToSet(s) = {x \in more : Memory!Bucket(x, cap) = g}
      <3>1. ToSet(s) = {x \in live : Memory!Bucket(x, cap) = g}
        BY <2>2 DEF IsBucket
      <3>2. Memory!Bucket(id, cap) # g
        BY <1>10 DEF h
      <3> QED BY <3>1, <3>2
    <2>7. \A i, j \in 1..Len(s) : s[i] = s[j] => i = j
      BY <2>2 DEF IsBucket
    <2> HIDE DEF R, more
    <2> QED BY <2>1, <2>4, <2>5, <2>6, <2>7 DEF IsBucket
  <1>11. IsBucket(u, more, R[h], h, cap)
    <2> DEFINE s == S[h]
               p == <<id>> \o s
    <2>1. R[h] = p
      BY <1>3
    <2>2. IsBucket(t, live, s, h, cap) /\ IsChain(s, t.head[h], t.nxt)
      BY Zenon, <1>3 DEF Sound, IsBucket
    <2>3. \A i \in 1..Len(s) : s[i] \in 1..m /\ s[i] # id
      BY <1>3, <1>6
    <2>4. s \in Seq(Nat \ {0}) /\ Len(s) \in Nat
      BY <1>7
    <2>5. first = IF s = <<>> THEN 0 ELSE s[1]
      BY <1>7
    <2> HIDE DEF s
    <2>6. /\ p \in Seq(Nat \ {0}) /\ Len(p) = Len(s) + 1 /\ p[1] = id
          /\ \A i \in 1..Len(s) : p[i + 1] = s[i]
          /\ \A i \in 2..(Len(s) + 1) : p[i] = s[i - 1]
          /\ ToSet(p) = {id} \cup ToSet(s)
      <3>1. id \in Nat \ {0}
        OBVIOUS
      <3> QED BY <2>4, <3>1, Prepend
    <2> HIDE DEF p
    <2>7. p # <<>>
      BY <2>4, <2>6
    <2>8. IsChain(p, u.head[h], u.nxt)
      <3>1. u.head[h] = id
        BY <1>4, <1>5
      <3>2. ASSUME NEW i \in 1..Len(p)
            PROVE  u.nxt[p[i]] = IF i = Len(p) THEN 0 ELSE p[i + 1]
        <4>1. CASE i = 1
          <5>1. u.nxt[p[1]] = first
            BY <1>4, <1>5, <2>6
          <5>2. CASE s = <<>>
            BY <2>5, <2>6, <4>1, <5>1, <5>2
          <5>3. CASE s # <<>>
            <6>1. 1 \in 1..Len(s) /\ Len(p) # 1
              BY <2>4, <2>6, <5>3
            <6>2. p[1 + 1] = s[1]
              BY <2>6, <6>1
            <6> QED BY <2>5, <4>1, <5>1, <5>3, <6>1, <6>2
          <5> QED BY <5>2, <5>3
        <4>2. CASE i # 1
          <5> DEFINE j == i - 1
          <5>1. /\ j \in 1..Len(s)
                /\ i \in 2..(Len(s) + 1)
                /\ (i = Len(p) <=> j = Len(s))
                /\ j + 1 = i
            BY <2>4, <2>6, <4>2
          <5>2. p[i] = s[j]
            BY <2>6, <5>1
          <5>3. u.nxt[s[j]] = t.nxt[s[j]]
            BY Zenon, <1>4, <1>5, <2>3, <5>1
          <5>4. t.nxt[s[j]] = IF j = Len(s) THEN 0 ELSE s[j + 1]
            BY Zenon, <2>2, <5>1 DEF IsChain
          <5>5. CASE j = Len(s)
            BY <5>1, <5>2, <5>3, <5>4, <5>5
          <5>6. CASE j # Len(s)
            <6>1. i \in 1..Len(s)
              BY <2>4, <5>1, <5>6
            <6>2. p[i + 1] = s[j + 1]
              BY <2>6, <5>1, <6>1
            <6> QED BY <5>1, <5>2, <5>3, <5>4, <5>6, <6>2
          <5> QED BY <5>5, <5>6
        <4> QED BY <4>1, <4>2
      <3> QED BY <2>6, <2>7, <3>1, <3>2 DEF IsChain
    <2>9. ASSUME NEW i \in 1..Len(p) PROVE u.prv[p[i]] = IF i = 1 THEN 0 ELSE p[i - 1]
      <3>1. CASE i = 1
        BY <1>4, <1>9, <2>6, <3>1
      <3>2. CASE i = 2
        <4>1. 1 \in 1..Len(s) /\ s # <<>> /\ i \in 2..(Len(s) + 1) /\ i - 1 = 1
          BY <2>4, <2>6, <3>2
        <4>2. p[i] = s[1] /\ s[1] = first /\ first # 0
          BY <2>3, <2>5, <2>6, <4>1
        <4> QED BY <1>4, <1>9, <2>6, <3>2, <4>1, <4>2
      <3>3. CASE i # 1 /\ i # 2
        <4> DEFINE j == i - 1
        <4>1. /\ j \in 1..Len(s) /\ j # 1 /\ 1 \in 1..Len(s) /\ i \in 2..(Len(s) + 1)
              /\ j \in 2..(Len(s) + 1) /\ s # <<>>
          BY SMTT(30), <2>4, <2>6, <3>3
        <4>2. p[i] = s[j] /\ p[j] = s[j - 1]
          BY Zenon, <2>6, <4>1
        <4>3. s[j] # s[1]
          BY <2>2, <4>1 DEF IsBucket
        <4>4. s[j] # first
          BY <2>5, <4>1, <4>3
        <4>5. u.prv[s[j]] = t.prv[s[j]]
          BY Zenon, <1>4, <1>9, <2>3, <4>1, <4>4
        <4>6. t.prv[s[j]] = s[j - 1]
          BY Zenon, <2>2, <4>1 DEF IsBucket
        <4> QED BY <3>3, <4>2, <4>5, <4>6
      <3> QED BY <3>1, <3>2, <3>3
    <2>10. ToSet(p) = {x \in more : Memory!Bucket(x, cap) = h}
      <3>1. ToSet(s) = {x \in live : Memory!Bucket(x, cap) = h}
        BY <2>2 DEF IsBucket
      <3> QED BY <2>6, <3>1 DEF h
    <2>11. \A i, j \in 1..Len(p) : p[i] = p[j] => i = j
      <3>1. \A i, j \in 1..Len(s) : s[i] = s[j] => i = j
        BY Zenon, <2>2 DEF IsBucket
      <3>2. \A i \in 2..(Len(s) + 1) : i - 1 \in 1..Len(s) /\ p[i] = s[i - 1] /\ p[i] # p[1]
        <4>1. \A i \in 2..(Len(s) + 1) : i - 1 \in 1..Len(s)
          BY <2>4
        <4> QED BY <2>3, <2>6, <4>1
      <3> SUFFICES ASSUME NEW i \in 1..Len(p), NEW j \in 1..Len(p), p[i] = p[j] PROVE i = j
        OBVIOUS
      <3>3. CASE i = 1 \/ j = 1
        BY <2>4, <2>6, <3>2, <3>3
      <3>4. CASE i # 1 /\ j # 1
        <4>1. i \in 2..(Len(s) + 1) /\ j \in 2..(Len(s) + 1)
          BY <2>4, <2>6, <3>4
        <4>2. /\ i - 1 \in 1..Len(s) /\ p[i] = s[i - 1]
              /\ j - 1 \in 1..Len(s) /\ p[j] = s[j - 1]
          BY Zenon, <3>2, <4>1
        <4>3. s[i - 1] = s[j - 1]
          BY Zenon, <4>2
        <4>4. i - 1 = j - 1
          BY Zenon, <3>1, <4>2, <4>3
        <4> QED BY <4>1, <4>4
      <3> QED BY <3>3, <3>4
    <2> HIDE DEF R, more
    <2> QED BY Zenon, <2>1, <2>8, <2>9, <2>10, <2>11 DEF IsBucket
  <1> HIDE DEF R, more
  <1>12. Sound(u, more, R, cap)
    BY <1>10, <1>11 DEF Sound
  <1> QED BY <1>1, <1>12 DEF more

\* The nodes among the first j of ids.
FirstOf(ids, j) == {ids[i] : i \in 1..j}

\* Nodes that are put one after the other.
LEMMA PushedIs ==
    ASSUME NEW m \in Nat, m <= MemoryRows, MemoryRows \in Nat, NEW cap \in Nat \ {0},
           NEW t \in Tables(m, cap), NEW live \in SUBSET (1..m), NEW S, Sound(t, live, S, cap),
           NEW ids \in Seq(1..m), \A i, j \in 1..Len(ids) : ids[i] = ids[j] => i = j,
           \A i \in 1..Len(ids) : ids[i] \notin live
    PROVE  /\ Memory!Pushed(t, ids) \in Tables(m, cap)
           /\ \E R : Sound(Memory!Pushed(t, ids), live \cup ToSet(ids), R, cap)
  <1> DEFINE n == Len(ids)
             D == Tables(m, cap)
             Eq(f) == f = [i \in 0..n |-> IF i = 0 THEN t ELSE Memory!Push(f[i - 1], ids[i])]
             P == CHOOSE f : Eq(f)
             step == [i \in 1..n |-> [d \in D |-> Memory!Push(d, ids[i])]]
  <1>1. Memory!Pushed(t, ids) = P[n]
    BY DEF Memory!Pushed
  <1>2. n \in Nat /\ \A i \in 1..n : ids[i] \in 1..m
    OBVIOUS
  <1>3. \A d \in D, i \in 1..n : Memory!Push(d, ids[i]) \in D
    BY <1>2, PushType
  <1>4. \E f : Eq(f)
    <2>1. IsStep(step, n, D)
      <3> HIDE DEF D
      <3> QED BY <1>3 DEF IsStep
    <2>2. PICK g : IsFold(g, t, step, n, D)
      <3> HIDE DEF step, D, n
      <3>1. t \in D
        BY DEF D
      <3> QED BY <1>2, <2>1, <3>1, Recursion
    <2>3. g \in [0..n -> D] /\ g[0] = t /\ \A i \in 1..n : g[i] = step[i][g[i - 1]]
      BY <2>2 DEF IsFold
    <2> HIDE DEF D
    <2>4. \A i \in 1..n : g[i] = Memory!Push(g[i - 1], ids[i])
      <3> SUFFICES ASSUME NEW i \in 1..n PROVE g[i] = Memory!Push(g[i - 1], ids[i])
        OBVIOUS
      <3>1. i - 1 \in 0..n
        BY <1>2
      <3>2. g[i - 1] \in D /\ g[i] = step[i][g[i - 1]]
        BY Zenon, <2>3, <3>1
      <3> QED BY <3>2
    <2> DEFINE h == [i \in 0..n |-> IF i = 0 THEN t ELSE Memory!Push(g[i - 1], ids[i])]
    <2>5. ASSUME NEW i \in 0..n PROVE h[i] = g[i]
      <3>1. CASE i = 0
        BY <2>3, <3>1
      <3>2. CASE i # 0
        <4>1. i \in 1..n
          BY <1>2, <3>2
        <4> QED BY <2>4, <3>2, <4>1
      <3> QED BY <3>1, <3>2
    <2>6. h = [i \in 0..n |-> h[i]] /\ g = [i \in 0..n |-> g[i]]
      BY <2>3
    <2> HIDE DEF h
    <2>7. g = h
      BY <2>5, <2>6
    <2>8. Eq(g)
      BY Zenon, <2>7 DEF h
    <2> QED BY Zenon, <2>8
  <1>5. Eq(P)
    BY Zenon, <1>4
  <1> HIDE DEF P
  <1>6. P[0] = t /\ \A i \in 1..n : P[i] = Memory!Push(P[i - 1], ids[i])
    <2> DEFINE h == [i \in 0..n |-> IF i = 0 THEN t ELSE Memory!Push(P[i - 1], ids[i])]
    <2>1. P = h
      BY Zenon, <1>5
    <2>2. h[0] = t /\ \A i \in 1..n : h[i] = Memory!Push(P[i - 1], ids[i])
      BY <1>2
    <2> HIDE DEF h
    <2> QED BY <2>1, <2>2
  <1> DEFINE Good(p, j) == p \in D /\ \E R : Sound(p, live \cup FirstOf(ids, j), R, cap)
             T == {j \in 0..n : Good(P[j], j)}
  <1>7. 0 \in T
    <2>1. FirstOf(ids, 0) = {}
      BY DEF FirstOf
    <2>2. live \cup FirstOf(ids, 0) = live
      BY <2>1
    <2>3. Good(P[0], 0)
      BY Zenon, <1>6, <2>2
    <2> HIDE DEF Good
    <2> QED BY <1>2, <2>3
  <1>8. ASSUME NEW j \in 0..n, j \in T, j # n PROVE j + 1 \in T
    <2>1. j + 1 \in 1..n /\ j + 1 \in 0..n /\ (j + 1) - 1 = j /\ j \in Nat
      BY <1>2, <1>8
    <2> DEFINE x == ids[j + 1]
               L == live \cup FirstOf(ids, j)
    <2>2. P[j + 1] = Memory!Push(P[j], x)
      BY <1>6, <2>1
    <2>3. P[j] \in D
      BY <1>8
    <2>4. PICK R : Sound(P[j], L, R, cap)
      BY Zenon, <1>8
    <2>5. x \in 1..m
      BY <1>2, <2>1
    <2>6. L \in SUBSET (1..m) /\ x \notin L
      <3>1. \A i \in 1..j : i \in 1..n /\ i # j + 1
        BY <1>2, <2>1
      <3> QED BY Zenon, <1>2, <2>1, <3>1 DEF FirstOf
    <2>7. L \cup {x} = live \cup FirstOf(ids, j + 1)
      <3>1. 1..(j + 1) = (1..j) \cup {j + 1}
        BY <2>1
      <3>2. FirstOf(ids, j + 1) = FirstOf(ids, j) \cup {x}
        BY <3>1 DEF FirstOf
      <3> QED BY <3>2
    <2> HIDE DEF x, L
    <2>8. Memory!Push(P[j], x) \in D
      BY <2>3, <2>5, PushType
    <2>9. \E Q : Sound(Memory!Push(P[j], x), L \cup {x}, Q, cap)
      BY Zenon, <2>3, <2>4, <2>5, <2>6, PushSound
    <2>10. Good(P[j + 1], j + 1)
      <3> HIDE DEF D
      <3> QED BY Zenon, <2>2, <2>7, <2>8, <2>9
    <2> HIDE DEF Good
    <2> QED BY <2>1, <2>10
  <1>9. n \in T
    <2> HIDE DEF T
    <2>1. \A j \in 0..n : j \in T
      BY Zenon, <1>2, <1>7, <1>8, UpTo
    <2> QED BY <1>2, <2>1
  <1>10. FirstOf(ids, n) = ToSet(ids)
    BY DEF FirstOf, ToSet
  <1> QED BY Zenon, <1>1, <1>9, <1>10

\* Links that are longer do for the same chains.
LEMMA SoundLonger ==
    ASSUME NEW t, NEW u, NEW live, NEW S, NEW cap, Sound(t, live, S, cap),
           u.head = t.head, \A x \in live : u.nxt[x] = t.nxt[x] /\ u.prv[x] = t.prv[x]
    PROVE  Sound(u, live, S, cap)
  <1> SUFFICES ASSUME NEW h \in 1..cap PROVE IsBucket(u, live, S[h], h, cap)
    BY DEF Sound
  <1>1. IsBucket(t, live, S[h], h, cap)
    BY DEF Sound
  <1>2. \A i \in 1..Len(S[h]) : S[h][i] \in live
    BY <1>1 DEF IsBucket, IsChain, ToSet
  <1> QED BY Zenon, <1>1, <1>2 DEF IsBucket, IsChain

-----------------------------------------------------------------------------
(* Enlargement.                                                               *)

\* The chains of t are as long as they can be read.
LEMMA ChainsRead ==
    ASSUME NEW m \in Nat, m <= MemoryRows, MemoryRows \in Nat, NEW cap \in Nat,
           NEW t, NEW live \in SUBSET (1..m), NEW S, Sound(t, live, S, cap), NEW h \in 1..cap
    PROVE  Memory!Chain(t.head[h], t.nxt) = S[h] /\ Len(S[h]) <= m /\ S[h] \in Seq(1..m)
  <1> DEFINE s == S[h]
  <1>1. IsBucket(t, live, s, h, cap)
    BY DEF Sound
  <1>2. s \in Seq(Nat \ {0}) /\ Len(s) \in Nat
    BY <1>1 DEF IsBucket, IsChain
  <1>3. \A i \in 1..Len(s) : s[i] \in 1..m
    BY <1>1, <1>2 DEF IsBucket, ToSet
  <1> HIDE DEF s
  <1>4. s \in [1..Len(s) -> 1..m] /\ s \in Seq(1..m)
    BY <1>2, <1>3
  <1>5. s \in Injection(1..Len(s), 1..m)
    BY <1>1, <1>4 DEF IsBucket, Injection, IsInjective
  <1>6. /\ IsFiniteSet(1..m) /\ Cardinality(1..m) = m
        /\ IsFiniteSet(1..Len(s)) /\ Cardinality(1..Len(s)) = Len(s)
    <2>1. \A n \in Nat : IsFiniteSet(1..n) /\ Cardinality(1..n) = n
      <3> SUFFICES ASSUME NEW n \in Nat PROVE IsFiniteSet(1..n) /\ Cardinality(1..n) = n
        OBVIOUS
      <3>1. IsFiniteSet(1..n) /\ Cardinality(1..n) = IF 1 > n THEN 0 ELSE n - 1 + 1
        BY FS_Interval
      <3> QED BY <3>1
    <2> QED BY <1>2, <2>1
  <1>7. Cardinality(1..Len(s)) <= Cardinality(1..m)
    BY <1>5, <1>6, FS_Injection
  <1>8. Len(s) <= m
    BY <1>6, <1>7
  <1>9. Len(s) <= MemoryRows
    BY <1>2, <1>8
  <1>10. IsChain(s, t.head[h], t.nxt)
    BY <1>1 DEF IsBucket
  <1>11. Memory!Chain(t.head[h], t.nxt) = s
    BY <1>9, <1>10, ChainIs
  <1> QED BY <1>4, <1>8, <1>11 DEF s

\* The nodes of the chains of the first buckets.
UpToBucket(live, k, cap) == {x \in live : Memory!Bucket(x, cap) <= k}

NowTable == [head |-> head, nxt |-> nxt, prv |-> prv]

\* After the rehashing every node is on the chain of its new bucket.
LEMMA RehashedIs ==
    ASSUME NEW m \in Nat, m <= MemoryRows, MemoryRows \in Nat,
           NEW old \in Nat \ {0}, NEW cap \in Nat \ {0}, NowTable \in Tables(m, old),
           NEW live \in SUBSET (1..m), NEW S, Sound(NowTable, live, S, old)
    PROVE  /\ Memory!Rehashed(cap) \in Tables(m, cap)
           /\ \E R : Sound(Memory!Rehashed(cap), live, R, cap)
  <1> DEFINE E == Seq(1..m)
             Eq(f) == f = [h \in 0..Len(head) |->
                             IF h = 0 THEN <<>> ELSE f[h - 1] \o Memory!Chain(head[h], nxt)]
             O == CHOOSE f : Eq(f)
             t0 == [head |-> Memory!Empty(cap), nxt |-> nxt, prv |-> prv]
             step == [h \in 1..old |-> [s \in E |-> s \o S[h]]]
  <1>1. Memory!Rehashed(cap) = Memory!Pushed(t0, O[Len(head)])
    BY DEF Memory!Rehashed, Memory!Cap
  <1>2. /\ head \in Seq(0..MemoryRows) /\ nxt \in [1..m -> 0..MemoryRows]
        /\ prv \in [1..m -> 0..MemoryRows] /\ Len(head) = old
    BY Zenon DEF NowTable, Tables
  <1>3. NowTable.head = head /\ NowTable.nxt = nxt /\ NowTable.prv = prv
    BY DEF NowTable
  <1>4. \A h \in 1..old : Memory!Chain(head[h], nxt) = S[h] /\ S[h] \in E
    <2> SUFFICES ASSUME NEW h \in 1..old
                 PROVE  Memory!Chain(head[h], nxt) = S[h] /\ S[h] \in E
      OBVIOUS
    <2>1. Memory!Chain(NowTable.head[h], NowTable.nxt) = S[h] /\ S[h] \in Seq(1..m)
      <3>1. old \in Nat
        OBVIOUS
      <3> QED BY <3>1, ChainsRead
    <2> QED BY <1>3, <2>1
  <1>5. \E f : Eq(f)
    <2>1. IsStep(step, old, E) /\ <<>> \in E
      <3>1. \A h \in 1..old, s \in E : s \o S[h] \in E
        BY <1>4
      <3> QED BY <3>1 DEF IsStep
    <2>2. PICK g : IsFold(g, <<>>, step, old, E)
      <3> HIDE DEF step, E
      <3> QED BY <2>1, Recursion
    <2>3. g \in [0..old -> E] /\ g[0] = <<>> /\ \A h \in 1..old : g[h] = step[h][g[h - 1]]
      BY Zenon, <2>2 DEF IsFold
    <2>4. \A h \in 1..old : g[h] = g[h - 1] \o S[h]
      <3> SUFFICES ASSUME NEW h \in 1..old PROVE g[h] = g[h - 1] \o S[h]
        BY Zenon
      <3>1. h - 1 \in 0..old
        OBVIOUS
      <3>2. g[h - 1] \in E /\ g[h] = step[h][g[h - 1]]
        BY Zenon, <2>3, <3>1
      <3> HIDE DEF E
      <3> QED BY Zenon, <3>2
    <2> DEFINE k == [h \in 0..Len(head) |->
                       IF h = 0 THEN <<>> ELSE g[h - 1] \o Memory!Chain(head[h], nxt)]
    <2>5. ASSUME NEW h \in 0..old PROVE k[h] = g[h]
      <3>1. CASE h = 0
        BY <1>2, <2>3, <3>1
      <3>2. CASE h # 0
        <4>1. h \in 1..old
          BY <3>2
        <4>2. k[h] = g[h - 1] \o Memory!Chain(head[h], nxt)
          BY Zenon, <1>2, <3>2
        <4> HIDE DEF k
        <4> QED BY Zenon, <1>4, <2>4, <4>1, <4>2
      <3> QED BY <3>1, <3>2
    <2>6. k = [h \in 0..old |-> k[h]] /\ g = [h \in 0..old |-> g[h]]
      BY <1>2, <2>3
    <2> HIDE DEF k
    <2>7. g = k
      BY <2>5, <2>6
    <2>8. Eq(g)
      BY Zenon, <2>7 DEF k
    <2> QED BY Zenon, <2>8
  <1>6. Eq(O)
    BY Zenon, <1>5
  <1> HIDE DEF O
  <1>7. O[0] = <<>> /\ \A h \in 1..old : O[h] = O[h - 1] \o S[h]
    <2> DEFINE k == [h \in 0..Len(head) |->
                       IF h = 0 THEN <<>> ELSE O[h - 1] \o Memory!Chain(head[h], nxt)]
    <2>1. O = k
      BY Zenon, <1>6
    <2>2. k[0] = <<>> /\ \A h \in 1..old : k[h] = O[h - 1] \o Memory!Chain(head[h], nxt)
      <3>1. k[0] = <<>>
        BY <1>2
      <3>2. ASSUME NEW h \in 1..old PROVE k[h] = O[h - 1] \o Memory!Chain(head[h], nxt)
        <4>1. h \in 0..Len(head) /\ h # 0
          BY <1>2
        <4> QED BY Zenon, <4>1
      <3> QED BY Zenon, <3>1, <3>2
    <2> HIDE DEF k
    <2> QED BY Zenon, <1>4, <2>1, <2>2
  <1> DEFINE Good(s, k) == /\ s \in E /\ ToSet(s) = UpToBucket(live, k, old)
                           /\ \A i, j \in 1..Len(s) : s[i] = s[j] => i = j
             T == {k \in 0..old : Good(O[k], k)}
  <1>8. 0 \in T
    <2>1. UpToBucket(live, 0, old) = {}
      <3>1. \A x \in live : Memory!Bucket(x, old) \in 1..old
        <4>1. \A x \in live : x \in Nat
          OBVIOUS
        <4> QED BY <4>1, BucketRange
      <3>2. \A x \in live : ~(Memory!Bucket(x, old) <= 0)
        BY <3>1
      <3> QED BY Zenon, <3>2 DEF UpToBucket
    <2>2. Good(<<>>, 0)
      BY <2>1 DEF ToSet
    <2> HIDE DEF Good
    <2> QED BY <1>7, <2>2
  <1>9. ASSUME NEW k \in 0..old, k \in T, k # old PROVE k + 1 \in T
    <2>1. k + 1 \in 1..old /\ k + 1 \in 0..old /\ (k + 1) - 1 = k /\ k \in Nat
      BY <1>9
    <2> DEFINE s == O[k]
               q == S[k + 1]
               r == s \o q
    <2>2. O[k + 1] = r
      BY Zenon, <1>7, <2>1
    <2>3. s \in E /\ ToSet(s) = UpToBucket(live, k, old)
          /\ \A i, j \in 1..Len(s) : s[i] = s[j] => i = j
      BY <1>9
    <2>4. q \in E
      BY <1>4, <2>1
    <2>5. /\ ToSet(q) = {x \in live : Memory!Bucket(x, old) = k + 1}
          /\ \A i, j \in 1..Len(q) : q[i] = q[j] => i = j
      BY Zenon, <2>1 DEF Sound, IsBucket
    <2> HIDE DEF s, q
    <2>6. ToSet(r) = ToSet(s) \cup ToSet(q)
      BY <2>3, <2>4, ConcatElements
    <2>7. r \in E /\ Len(r) = Len(s) + Len(q) /\ Len(s) \in Nat /\ Len(q) \in Nat
          /\ (\A i \in 1..Len(s) : r[i] = s[i])
          /\ \A i \in (Len(s) + 1)..(Len(s) + Len(q)) : r[i] = q[i - Len(s)]
      BY <2>3, <2>4
    <2> HIDE DEF r
    <2>8. ToSet(r) = UpToBucket(live, k + 1, old)
      <3>1. \A x \in live : Memory!Bucket(x, old) \in 1..old
        <4>1. \A x \in live : x \in Nat
          OBVIOUS
        <4> QED BY <4>1, BucketRange
      <3>2. \A x \in live : Memory!Bucket(x, old) <= k + 1 <=>
                              Memory!Bucket(x, old) <= k \/ Memory!Bucket(x, old) = k + 1
        BY <2>1, <3>1
      <3> QED BY Zenon, <2>3, <2>5, <2>6, <3>2 DEF UpToBucket
    <2>9. \A i, j \in 1..Len(r) : r[i] = r[j] => i = j
      <3>1. \A a \in 1..Len(s), b \in 1..Len(q) : s[a] # q[b]
        <4> SUFFICES ASSUME NEW a \in 1..Len(s), NEW b \in 1..Len(q), s[a] = q[b] PROVE FALSE
          OBVIOUS
        <4>1. s[a] \in ToSet(s) /\ q[b] \in ToSet(q)
          BY DEF ToSet
        <4>2. Memory!Bucket(s[a], old) <= k /\ Memory!Bucket(q[b], old) = k + 1
          BY <2>3, <2>5, <4>1 DEF UpToBucket
        <4> QED BY <2>1, <4>2
      <3>2. \A i \in 1..Len(r) : \/ i \in 1..Len(s) /\ r[i] = s[i]
                                 \/ i - Len(s) \in 1..Len(q) /\ r[i] = q[i - Len(s)]
        <4> SUFFICES ASSUME NEW i \in 1..Len(r)
                     PROVE  \/ i \in 1..Len(s) /\ r[i] = s[i]
                            \/ i - Len(s) \in 1..Len(q) /\ r[i] = q[i - Len(s)]
          BY Zenon
        <4>1. CASE i <= Len(s)
          BY <2>7, <4>1
        <4>2. CASE i > Len(s)
          <5>1. i \in (Len(s) + 1)..(Len(s) + Len(q)) /\ i - Len(s) \in 1..Len(q)
            BY <2>7, <4>2
          <5> QED BY Zenon, <2>7, <5>1
        <4> QED BY <2>7, <4>1, <4>2
      <3> SUFFICES ASSUME NEW i \in 1..Len(r), NEW j \in 1..Len(r), r[i] = r[j] PROVE i = j
        OBVIOUS
      <3>3. CASE i \in 1..Len(s) /\ r[i] = s[i] /\ j \in 1..Len(s) /\ r[j] = s[j]
        BY Zenon, <2>3, <3>3
      <3>4. CASE /\ i - Len(s) \in 1..Len(q) /\ r[i] = q[i - Len(s)]
                 /\ j - Len(s) \in 1..Len(q) /\ r[j] = q[j - Len(s)]
        <4>1. i - Len(s) = j - Len(s)
          BY Zenon, <2>5, <3>4
        <4> QED BY <2>7, <4>1
      <3> QED BY <3>1, <3>2, <3>3, <3>4
    <2>10. Good(r, k + 1)
      BY <2>7, <2>8, <2>9
    <2> HIDE DEF Good
    <2> QED BY <2>1, <2>2, <2>10
  <1>10. Good(O[old], old)
    <2>1. \A k \in 0..old : k \in T
      <3> HIDE DEF T
      <3> QED BY <1>8, <1>9, UpTo
    <2>2. old \in 0..old
      OBVIOUS
    <2> QED BY Zenon, <2>1, <2>2
  <1> DEFINE ids == O[old]
  <1>11. /\ ids \in Seq(1..m) /\ ToSet(ids) = live
         /\ \A i, j \in 1..Len(ids) : ids[i] = ids[j] => i = j
    <2>1. UpToBucket(live, old, old) = live
      <3>1. \A x \in live : Memory!Bucket(x, old) \in 1..old
        <4>1. \A x \in live : x \in Nat
          OBVIOUS
        <4> QED BY <4>1, BucketRange
      <3>2. \A x \in live : Memory!Bucket(x, old) <= old
        BY <3>1
      <3> QED BY Zenon, <3>2 DEF UpToBucket
    <2> QED BY <1>10, <2>1
  <1> HIDE DEF ids
  <1>12. t0 \in Tables(m, cap)
    <2>1. Memory!Empty(cap) \in Seq(0..MemoryRows) /\ Len(Memory!Empty(cap)) = cap
      BY DEF Memory!Empty
    <2> QED BY <1>2, <2>1 DEF Tables
  <1>13. Sound(t0, {}, [h \in 1..cap |-> <<>>], cap)
    <2> DEFINE none == [h \in 1..cap |-> <<>>]
    <2> SUFFICES ASSUME NEW h \in 1..cap PROVE IsBucket(t0, {}, none[h], h, cap)
      BY DEF Sound
    <2>1. none[h] = <<>> /\ t0.head[h] = 0
      BY DEF Memory!Empty
    <2>2. IsChain(<<>>, 0, t0.nxt)
      BY DEF IsChain
    <2>3. IsBucket(t0, {}, <<>>, h, cap)
      BY <2>1, <2>2 DEF IsBucket, ToSet
    <2> QED BY <2>1, <2>3
  <1> HIDE DEF t0
  <1>14. {} \in SUBSET (1..m) /\ {} \cup ToSet(ids) = live
         /\ \A i \in 1..Len(ids) : ids[i] \notin {}
    BY <1>11
  <1>15. /\ Memory!Pushed(t0, ids) \in Tables(m, cap)
         /\ \E R : Sound(Memory!Pushed(t0, ids), {} \cup ToSet(ids), R, cap)
    BY Zenon, <1>11, <1>12, <1>13, <1>14, PushedIs
  <1> QED BY <1>1, <1>2, <1>14, <1>15 DEF ids

-----------------------------------------------------------------------------
(* The memory engine's invariant.                                             *)

\* row_count and the rows that were never counted are the rows there are, or
\* row_count went round.
CountIs(ct, un, c) == ct + un = c \/ ct + un = c + Wrap

MemoryInv ==
    /\ Memory!TypeOK
    /\ InitCap <= Len(head) /\ uncounted <= nextId - 1
    /\ CountIs(count, uncounted, Cardinality(Memory!Linked))
    /\ \E S : Sound(NowTable, Memory!Linked, S, Len(head))

\* Numbers that go round.
LEMMA Modulo ==
    ASSUME NEW w \in Nat \ {0}, NEW a \in 0..(w - 1)
    PROVE  a % w = a /\ (a + w) % w = a /\ (a - w) % w = a
  OBVIOUS

LEMMA MemoryParts ==
    ASSUME Memory!MemoryAssumption, MemoryInv
    PROVE  /\ MemoryRows \in Nat /\ InitCap \in Nat \ {0} /\ Wrap \in Nat
           /\ Wrap > 4 * (MemoryRows + InitCap) /\ Gone \notin Value
           /\ nextId \in 1..(MemoryRows + 1) /\ nextId - 1 \in Nat /\ nextId - 1 <= MemoryRows
           /\ Len(head) \in Nat \ {0} /\ InitCap <= Len(head)
           /\ count \in 0..(Wrap - 1) /\ uncounted \in Nat /\ uncounted <= nextId - 1
           /\ NowTable \in Tables(nextId - 1, Len(head))
           /\ val \in [1..(nextId - 1) -> Value \cup {Gone}]
           /\ Memory!Linked \in SUBSET (1..(nextId - 1))
           /\ IsFiniteSet(Memory!Linked)
           /\ Cardinality(Memory!Linked) \in Nat
           /\ Cardinality(Memory!Linked) <= nextId - 1
  <1>1. /\ MemoryRows \in Nat /\ InitCap \in Nat \ {0} /\ Wrap \in Nat
        /\ Wrap > 4 * (MemoryRows + InitCap) /\ Gone \notin Value
    BY DEF Memory!MemoryAssumption
  <1>2. /\ nextId \in 1..(MemoryRows + 1) /\ nextId - 1 \in Nat /\ nextId - 1 <= MemoryRows
        /\ InitCap <= Len(head) /\ count \in 0..(Wrap - 1) /\ uncounted <= nextId - 1
        /\ uncounted \in Nat
    BY <1>1 DEF MemoryInv, Memory!TypeOK
  <1>3. /\ head \in Seq(0..MemoryRows)
        /\ nxt \in [1..(nextId - 1) -> 0..MemoryRows] /\ prv \in [1..(nextId - 1) -> 0..MemoryRows]
        /\ val \in [1..(nextId - 1) -> Value \cup {Gone}]
    BY DEF MemoryInv, Memory!TypeOK, Memory!Id
  <1>4. Len(head) \in Nat \ {0}
    <2>1. Len(head) \in Nat
      BY <1>3
    <2> QED BY <1>1, <1>2, <2>1
  <1>5. NowTable \in Tables(nextId - 1, Len(head))
    BY <1>3 DEF NowTable, Tables
  <1>6. Memory!Linked \in SUBSET (1..(nextId - 1))
    BY DEF Memory!Linked, Memory!Id
  <1>7. /\ IsFiniteSet(1..(nextId - 1)) /\ Cardinality(1..(nextId - 1)) = nextId - 1
    <2> DEFINE n == nextId - 1
    <2>1. n \in Nat
      BY <1>2
    <2> HIDE DEF n
    <2>2. IsFiniteSet(1..n) /\ Cardinality(1..n) = IF 1 > n THEN 0 ELSE n - 1 + 1
      BY <2>1, FS_Interval
    <2>3. IsFiniteSet(1..n) /\ Cardinality(1..n) = n
      BY <2>1, <2>2
    <2> QED BY <2>3 DEF n
  <1>8. /\ IsFiniteSet(Memory!Linked)
        /\ Cardinality(Memory!Linked) <= Cardinality(1..(nextId - 1))
    BY Zenon, <1>6, <1>7, FS_Subset
  <1>9. Cardinality(Memory!Linked) \in Nat
    BY <1>8, FS_CardinalityType
  <1>10. Cardinality(Memory!Linked) <= nextId - 1
    BY <1>7, <1>8
  <1> QED BY <1>1, <1>2, <1>3, <1>4, <1>5, <1>6, <1>8, <1>9, <1>10

LEMMA MemoryHolds ==
    ASSUME Memory!MemoryAssumption, MemoryInv
    PROVE  Memory!TypeOK /\ Memory!ChainsSound /\ Memory!CountLaw
  <1> DEFINE m == nextId - 1
             live == Memory!Linked
             cap == Len(head)
  <1>1. /\ MemoryRows \in Nat /\ m \in Nat /\ m <= MemoryRows /\ cap \in Nat
        /\ live \in SUBSET (1..m) /\ head \in Seq(0..MemoryRows) /\ DOMAIN head = 1..cap
    <2>1. head \in Seq(0..MemoryRows)
      BY DEF MemoryInv, Memory!TypeOK
    <2> QED BY <2>1, MemoryParts
  <1>2. PICK S : Sound(NowTable, live, S, cap)
    BY DEF MemoryInv
  <1>3. NowTable.head = head /\ NowTable.nxt = nxt /\ NowTable.prv = prv
    BY DEF NowTable
  <1> HIDE DEF m, live, cap
  <1>4. Memory!ChainsSound
    <2>1. ASSUME NEW h \in 1..cap
          PROVE  /\ ToSet(Memory!Chain(head[h], nxt)) =
                      {id \in live : Memory!Bucket(id, cap) = h}
                 /\ IsInjective(Memory!Chain(head[h], nxt))
                 /\ \A i \in DOMAIN Memory!Chain(head[h], nxt) :
                       prv[Memory!Chain(head[h], nxt)[i]] =
                         IF i = 1 THEN 0 ELSE Memory!Chain(head[h], nxt)[i - 1]
      <3>0. /\ MemoryRows \in Nat /\ m \in Nat /\ m <= MemoryRows /\ cap \in Nat
            /\ live \in SUBSET (1..m)
        BY <1>1
      <3>1. Memory!Chain(NowTable.head[h], NowTable.nxt) = S[h] /\ S[h] \in Seq(1..m)
        <4>1. \A t, Q : Sound(t, live, Q, cap) =>
                          Memory!Chain(t.head[h], t.nxt) = Q[h] /\ Q[h] \in Seq(1..m)
          BY <3>0, ChainsRead
        <4> QED BY <1>2, <4>1
      <3>2. Memory!Chain(head[h], nxt) = S[h]
        BY <1>3, <3>1
      <3>3. IsBucket(NowTable, live, S[h], h, cap)
        BY <1>2 DEF Sound
      <3>4. DOMAIN S[h] = 1..Len(S[h])
        BY <3>1
      <3>5. /\ ToSet(S[h]) = {id \in live : Memory!Bucket(id, cap) = h}
            /\ IsInjective(S[h])
            /\ \A i \in DOMAIN S[h] : prv[S[h][i]] = IF i = 1 THEN 0 ELSE S[h][i - 1]
        BY <1>3, <3>3, <3>4 DEF IsBucket, IsInjective
      <3> QED BY <3>2, <3>5
    <2> QED BY <1>1, <2>1 DEF Memory!ChainsSound, live, cap, Memory!Cap,
            Memory!IsInjective, IsInjective, Memory!ToSet, ToSet
  <1>5. Memory!CountLaw
    <2> DEFINE C == Cardinality(live)
    <2>1. C \in Nat /\ C <= MemoryRows /\ Wrap \in Nat /\ Wrap > 4 * (MemoryRows + InitCap)
          /\ InitCap \in Nat
      BY <1>1, MemoryParts DEF live, m
    <2>2. CountIs(count, uncounted, C)
      BY DEF MemoryInv, live
    <2> HIDE DEF C
    <2>3. C \in 0..(Wrap - 1) /\ Wrap \in Nat \ {0}
      BY <1>1, <2>1
    <2>4. C % Wrap = C /\ (C + Wrap) % Wrap = C
      BY <2>3, Modulo
    <2>5. (count + uncounted) % Wrap = C % Wrap
      BY <2>2, <2>4 DEF CountIs
    <2> QED BY <2>5 DEF C, live, Memory!CountLaw, Memory!Cardinality, Cardinality
  <1> QED BY <1>4, <1>5 DEF MemoryInv

-----------------------------------------------------------------------------
(* Insertion.                                                                 *)

\* Links for k more nodes.
LEMMA MoreLinks ==
    ASSUME NEW m \in Nat, NEW k \in Nat, MemoryRows \in Nat,
           NEW f \in [1..m -> 0..MemoryRows]
    PROVE  /\ f \o [i \in 1..k |-> 0] \in [1..(m + k) -> 0..MemoryRows]
           /\ \A x \in 1..m : (f \o [i \in 1..k |-> 0])[x] = f[x]
  <1> DEFINE z == [i \in 1..k |-> 0]
             g == f \o z
  <1>1. f \in Seq(0..MemoryRows) /\ Len(f) = m
    OBVIOUS
  <1>2. z \in Seq(0..MemoryRows) /\ Len(z) = k
    OBVIOUS
  <1> HIDE DEF z
  <1>3. g \in Seq(0..MemoryRows) /\ Len(g) = m + k /\ \A x \in 1..m : g[x] = f[x]
    <2>1. ASSUME NEW E, f \in Seq(E), z \in Seq(E)
          PROVE  g \in Seq(E) /\ Len(g) = m + k /\ \A x \in 1..m : g[x] = f[x]
      <3>1. /\ g \in Seq(E) /\ Len(g) = Len(f) + Len(z)
            /\ \A j \in 1..Len(f) : g[j] = f[j]
        <4> HIDE DEF z
        <4> QED BY <2>1, ConcatIs
      <3> HIDE DEF g
      <3> QED BY <1>1, <1>2, <3>1
    <2> HIDE DEF g
    <2> QED BY <1>1, <1>2, <2>1
  <1> HIDE DEF g
  <1>4. g \in [1..(m + k) -> 0..MemoryRows]
    BY <1>3
  <1> QED BY Zenon, <1>3, <1>4 DEF g, z

\* What an insertion of `ins' into a table enlarged to `cap' leaves; with `lost'
\* an id is used up besides.
Stored(cap, ins, lost) ==
    /\ nextId' = nextId + Len(ins) + (IF lost THEN 1 ELSE 0)
    /\ nextId' \in 1..(MemoryRows + 1)
    /\ NowTable' \in Tables(nextId' - 1, cap)
    /\ val' \in [1..(nextId' - 1) -> Value \cup {Gone}]
    /\ Memory!Linked' = Memory!Linked \cup (nextId..(nextId + Len(ins) - 1))
    /\ \E S : Sound(NowTable', Memory!Linked', S, cap)

LEMMA StoreIs ==
    ASSUME Memory!MemoryAssumption, MemoryInv, NEW cap \in Nat \ {0}, NEW ins \in Seq(Value),
           NEW lost \in BOOLEAN, Memory!Store(cap, ins, lost)
    PROVE  Stored(cap, ins, lost)
  <1> DEFINE m == nextId - 1
             ids == [i \in 1..Len(ins) |-> nextId + i - 1]
             more == ins \o IF lost THEN <<Gone>> ELSE <<>>
             zeros == [i \in 1..Len(more) |-> 0]
             old == IF cap = Len(head) THEN NowTable ELSE Memory!Rehashed(cap)
             ext == [old EXCEPT !.nxt = @ \o zeros, !.prv = @ \o zeros]
             new == Memory!Pushed(ext, ids)
             m2 == m + Len(more)
             live == Memory!Linked
  <1>1. /\ nextId + Len(more) <= MemoryRows + 1
        /\ head' = new.head /\ nxt' = new.nxt /\ prv' = new.prv
        /\ val' = val \o more
        /\ nextId' = nextId + Len(more)
    BY DEF Memory!Store, NowTable, Memory!Cap
  <1>2. /\ MemoryRows \in Nat
        /\ m \in Nat
        /\ m <= MemoryRows
        /\ nextId \in Nat
        /\ nextId >= 1
        /\ Len(head) \in Nat \ {0} /\ NowTable \in Tables(m, Len(head))
        /\ val \in [1..m -> Value \cup {Gone}] /\ live \in SUBSET (1..m)
        /\ Gone \notin Value
    BY SMTT(30), MemoryParts
  <1>3. /\ more \in Seq(Value \cup {Gone}) /\ Len(more) \in Nat /\ Len(ins) \in Nat
        /\ Len(more) = Len(ins) + (IF lost THEN 1 ELSE 0)
        /\ \A i \in 1..Len(ins) : more[i] = ins[i] /\ more[i] \in Value
        /\ lost => more[Len(ins) + 1] = Gone
    <2>1. CASE lost
      <3>1. more = ins \o <<Gone>>
        BY <2>1
      <3>2. <<Gone>> \in Seq(Value \cup {Gone}) /\ Len(<<Gone>>) = 1 /\ <<Gone>>[1] = Gone
        OBVIOUS
      <3>3. ins \in Seq(Value \cup {Gone}) /\ Len(ins) \in Nat
            /\ \A i \in 1..Len(ins) : ins[i] \in Value
        OBVIOUS
      <3> HIDE DEF more
      <3>4. /\ more \in Seq(Value \cup {Gone}) /\ Len(more) = Len(ins) + 1
            /\ \A i \in 1..Len(ins) : more[i] = ins[i]
            /\ more[Len(ins) + 1] = Gone
        BY <3>1, <3>2, <3>3
      <3> QED BY <2>1, <3>3, <3>4
    <2>2. CASE ~lost
      <3>1. more = ins \o <<>>
        BY <2>2
      <3>2. ins \o <<>> = ins
        OBVIOUS
      <3>3. ins \in Seq(Value \cup {Gone}) /\ Len(ins) \in Nat
            /\ \A i \in 1..Len(ins) : ins[i] \in Value
        OBVIOUS
      <3> HIDE DEF more
      <3> QED BY <2>2, <3>1, <3>2, <3>3
    <2> QED BY <2>1, <2>2
  <1> HIDE DEF more
  <1>4. m2 \in Nat /\ m <= m2 /\ m2 <= MemoryRows /\ nextId' - 1 = m2
    <2>1. nextId' = nextId + Len(more) /\ nextId + Len(more) <= MemoryRows + 1
      BY <1>1
    <2>2. Len(more) \in Nat /\ nextId \in Nat /\ nextId >= 1 /\ MemoryRows \in Nat
      BY <1>2, <1>3
    <2> QED BY <2>1, <2>2
  <1>sizes. /\ m \in Nat /\ m2 \in Nat /\ nextId = m + 1 /\ nextId \in Nat
             /\ Len(ins) \in Nat /\ m + Len(ins) <= m2
    <2>1. nextId \in Nat /\ nextId >= 1
      BY Zenon, <1>2
    <2>2. /\ Len(more) \in Nat /\ Len(ins) \in Nat
          /\ Len(more) = Len(ins) + (IF lost THEN 1 ELSE 0)
      BY Zenon, <1>3
    <2>3. m = nextId - 1 /\ m2 = m + Len(more)
      BY Zenon
    <2> HIDE DEF m, m2
    <2> QED BY <2>1, <2>2, <2>3
  <1>5. old \in Tables(m, cap) /\ \E R : Sound(old, live, R, cap)
    <2>0. PICK S : Sound(NowTable, live, S, Len(head))
      BY DEF MemoryInv
    <2>1. CASE cap = Len(head)
      BY <1>2, <2>0, <2>1
    <2>2. CASE cap # Len(head)
      <3>1. old = Memory!Rehashed(cap)
        BY <2>2
      <3> HIDE DEF m, live, old
      <3>2. /\ Memory!Rehashed(cap) \in Tables(m, cap)
            /\ \E R : Sound(Memory!Rehashed(cap), live, R, cap)
        BY <1>2, <2>0, RehashedIs
      <3> QED BY <3>1, <3>2
    <2> QED BY <2>1, <2>2
  <1>6. PICK R : Sound(old, live, R, cap)
    BY <1>5
  <1> HIDE DEF old
  <1>7. /\ old.head \in Seq(0..MemoryRows) /\ Len(old.head) = cap
        /\ old.nxt \in [1..m -> 0..MemoryRows] /\ old.prv \in [1..m -> 0..MemoryRows]
        /\ old = [head |-> old.head, nxt |-> old.nxt, prv |-> old.prv]
    BY <1>5 DEF Tables
  <1>8. ext = [head |-> old.head, nxt |-> old.nxt \o zeros, prv |-> old.prv \o zeros]
    <2> DEFINE x == old.nxt \o zeros
               y == old.prv \o zeros
    <2>1. ext = [old EXCEPT !.nxt = x, !.prv = y]
      OBVIOUS
    <2> HIDE DEF ext, x, y
    <2>2. ext = [head |-> old.head, nxt |-> x, prv |-> y]
      BY Zenon, <1>7, <2>1
    <2> QED BY <2>2 DEF x, y
  <1>9. /\ old.nxt \o zeros \in [1..m2 -> 0..MemoryRows]
        /\ \A x \in 1..m : (old.nxt \o zeros)[x] = old.nxt[x]
        /\ old.prv \o zeros \in [1..m2 -> 0..MemoryRows]
        /\ \A x \in 1..m : (old.prv \o zeros)[x] = old.prv[x]
    <2>1. m \in Nat /\ Len(more) \in Nat /\ MemoryRows \in Nat
      BY <1>2, <1>3
    <2>2. \A f \in [1..m -> 0..MemoryRows] :
             /\ f \o zeros \in [1..m2 -> 0..MemoryRows]
             /\ \A x \in 1..m : (f \o zeros)[x] = f[x]
      <3> HIDE DEF m
      <3> QED BY Zenon, <2>1, MoreLinks
    <2> HIDE DEF m2, m, zeros
    <2> QED BY Zenon, <1>7, <2>2
  <1> HIDE DEF zeros
  <1>10. ext \in Tables(m2, cap)
    BY Zenon, <1>7, <1>8, <1>9 DEF Tables
  <1>11. Sound(ext, live, R, cap)
    <2>1. /\ ext.head = old.head
          /\ \A x \in live : ext.nxt[x] = old.nxt[x] /\ ext.prv[x] = old.prv[x]
      BY Zenon, <1>2, <1>8, <1>9
    <2> HIDE DEF ext, live
    <2> QED BY <1>6, <2>1, SoundLonger
  <1> HIDE DEF ext
  <1>12. /\ ids \in Seq(1..m2) /\ Len(ids) = Len(ins)
         /\ \A i, j \in 1..Len(ids) : ids[i] = ids[j] => i = j
         /\ \A i \in 1..Len(ids) : ids[i] \notin live
         /\ ToSet(ids) = nextId..(nextId + Len(ins) - 1)
    <2> DEFINE n == Len(ins)
    <2>1. n \in Nat /\ \A i \in 1..n : nextId + i - 1 \in 1..m2 /\ nextId + i - 1 > m
      <3>1. m \in Nat /\ m2 \in Nat /\ nextId = m + 1 /\ n \in Nat /\ m + n <= m2
        BY Zenon, <1>sizes
      <3> HIDE DEF m, m2, n
      <3> QED BY <3>1
    <2>2. ids = [i \in 1..n |-> ids[i]] /\ \A i \in 1..n : ids[i] = nextId + i - 1
      OBVIOUS
    <2> HIDE DEF n, ids
    <2>3. ids \in Seq(1..m2) /\ Len(ids) = n /\ DOMAIN ids = 1..n
      <3>1. \A i \in 1..n : ids[i] \in 1..m2
        BY <2>1, <2>2
      <3>2. ASSUME NEW E, \A i \in 1..n : ids[i] \in E
            PROVE  ids \in Seq(E) /\ Len(ids) = n /\ DOMAIN ids = 1..n
        BY <2>1, <2>2, <3>2
      <3> QED BY Zenon, <3>1, <3>2
    <2>4. \A i \in 1..n : ids[i] \notin live
      <3>1. \A x \in live : x <= m
        BY <1>2
      <3> QED BY SMTT(30), <1>2, <2>1, <2>2, <3>1
    <2>5. \A i, j \in 1..n : ids[i] = ids[j] => i = j
      BY <1>2, <2>2
    <2>6. ToSet(ids) = nextId..(nextId + n - 1)
      <3>1. ASSUME NEW y \in nextId..(nextId + n - 1)
            PROVE  y - nextId + 1 \in 1..n /\ ids[y - nextId + 1] = y
        <4> DEFINE i == y - nextId + 1
        <4>1. i \in 1..n /\ nextId + i - 1 = y
          BY <1>2, <2>1
        <4> HIDE DEF i
        <4>2. ids[i] = y
          BY <2>2, <4>1
        <4> QED BY <4>1, <4>2 DEF i
      <3>2. \A i \in 1..n : ids[i] \in nextId..(nextId + n - 1)
        BY SMTT(30), <1>2, <2>1, <2>2
      <3> QED BY <2>3, <3>1, <3>2 DEF ToSet
    <2> QED BY <2>3, <2>4, <2>5, <2>6 DEF n
  <1> HIDE DEF ids
  <1>13. live \in SUBSET (1..m2)
    BY <1>2, <1>4
  <1>14. /\ new \in Tables(m2, cap)
         /\ \E Q : Sound(new, live \cup ToSet(ids), Q, cap)
    <2> HIDE DEF m2, live
    <2>1. m2 \in Nat /\ m2 <= MemoryRows /\ MemoryRows \in Nat
      BY <1>2, <1>4
    <2> QED BY Zenon, <1>10, <1>11, <1>12, <1>13, <2>1, PushedIs
  <1> HIDE DEF new
  <1>15. NowTable' = [head |-> new.head, nxt |-> new.nxt, prv |-> new.prv]
    BY <1>1 DEF NowTable
  <1>16. NowTable' = new
    BY <1>14, <1>15 DEF Tables
  <1>17. /\ val' \in [1..m2 -> Value \cup {Gone}]
         /\ \A x \in 1..m : val'[x] = val[x]
         /\ \A i \in 1..Len(more) : val'[m + i] = more[i]
    <2>1. m \in Nat /\ val' = val \o more
      BY <1>1, <1>2
    <2>2. val \in Seq(Value \cup {Gone}) /\ Len(val) = m
      BY <1>2
    <2>3. ASSUME NEW E, NEW p \in Seq(E), NEW q \in Seq(E), NEW l \in Nat, Len(p) = l
          PROVE  /\ p \o q \in [1..(l + Len(q)) -> E]
                 /\ \A x \in 1..l : (p \o q)[x] = p[x]
                 /\ \A i \in 1..Len(q) : (p \o q)[l + i] = q[i]
      <3> DEFINE r == p \o q
      <3>1. r \in Seq(E) /\ Len(r) = l + Len(q) /\ Len(q) \in Nat
            /\ \A x \in 1..l : r[x] = p[x]
        BY SMTT(30), <2>3
      <3>2. \A i \in 1..Len(q) : r[l + i] = q[i]
        BY <2>3
      <3> HIDE DEF r
      <3>3. r \in [1..(l + Len(q)) -> E]
        BY <3>1
      <3> QED BY Zenon, <3>1, <3>2, <3>3 DEF r
    <2> HIDE DEF m
    <2>4. more \in Seq(Value \cup {Gone})
      BY <1>3
    <2>5. /\ val \o more \in [1..(m + Len(more)) -> Value \cup {Gone}]
          /\ \A x \in 1..m : (val \o more)[x] = val[x]
          /\ \A i \in 1..Len(more) : (val \o more)[m + i] = more[i]
      BY SMTT(30), <2>1, <2>2, <2>3, <2>4
    <2> QED BY Zenon, <2>1, <2>5
  <1>18. Memory!Linked' = live \cup (nextId..(nextId + Len(ins) - 1))
    <2>1. Memory!Linked' = {x \in 1..m2 : val'[x] # Gone}
      BY <1>4 DEF Memory!Linked, Memory!Id
    <2>2. live = {x \in 1..m : val[x] # Gone}
      BY DEF Memory!Linked, Memory!Id
    <2> HIDE DEF live
    <2>3. ASSUME NEW x \in 1..m2
          PROVE  val'[x] # Gone <=> x \in live \/ x \in nextId..(nextId + Len(ins) - 1)
      <3>1. CASE x <= m
        BY <1>2, <1>17, <2>2, <3>1
      <3>2. CASE x > m
        <4> DEFINE i == x - m
        <4>1. i \in 1..Len(more) /\ m + i = x /\ x \notin live
          BY <1>2, <1>3, <2>2, <3>2
        <4>2. val'[x] = more[i]
          BY <1>17, <4>1
        <4>3. x \in nextId..(nextId + Len(ins) - 1) <=> i <= Len(ins)
          <5>1. nextId \in Nat /\ Len(ins) \in Nat /\ x \in Nat /\ x >= nextId
            BY <1>2, <1>3, <1>4, <3>2
          <5>2. i = x - (nextId - 1)
            OBVIOUS
          <5> HIDE DEF i
          <5> QED BY <5>1, <5>2
        <4> HIDE DEF i
        <4>4. CASE i <= Len(ins)
          <5>1. more[i] \in Value
            BY <1>3, <4>1, <4>4
          <5> QED BY Zenon, <1>2, <4>1, <4>2, <4>3, <4>4, <5>1
        <4>5. CASE ~(i <= Len(ins))
          <5>1. lost /\ i = Len(ins) + 1
            BY <1>3, <4>1, <4>5
          <5>2. i > Len(ins)
            BY <1>3, <5>1
          <5> QED BY <1>3, <4>1, <4>2, <4>3, <5>1, <5>2
        <4> QED BY <4>4, <4>5
      <3> QED BY <1>2, <1>4, <3>1, <3>2
    <2>4. ASSUME NEW x \in live \cup (nextId..(nextId + Len(ins) - 1))
          PROVE  x \in 1..m2
      <3> HIDE DEF m, m2
      <3>1. CASE x \in live
        BY <1>sizes, <2>2, <3>1
      <3>2. CASE x \in nextId..(nextId + Len(ins) - 1)
        BY <1>sizes, <3>2
      <3> QED BY <3>1, <3>2
    <2> HIDE DEF m, m2
    <2> QED BY <2>1, <2>3, <2>4
  <1>19. nextId' \in 1..(MemoryRows + 1)
    BY <1>1, <1>2, <1>3
  <1>20. nextId' = nextId + Len(ins) + (IF lost THEN 1 ELSE 0)
    <2>1. nextId' = nextId + Len(more) /\ nextId \in Nat /\ Len(ins) \in Nat
          /\ Len(more) = Len(ins) + (IF lost THEN 1 ELSE 0)
      BY <1>1, <1>2, <1>3
    <2> HIDE DEF m, m2
    <2> QED BY <2>1
  <1>21. /\ NowTable' \in Tables(nextId' - 1, cap)
         /\ val' \in [1..(nextId' - 1) -> Value \cup {Gone}]
    BY <1>4, <1>14, <1>16, <1>17
  <1>22. \E S : Sound(NowTable', Memory!Linked', S, cap)
    BY <1>12, <1>14, <1>16, <1>18
  <1> QED BY <1>18, <1>19, <1>20, <1>21, <1>22 DEF Stored, live

\* The invariant after an insertion, once its counts are seen to agree.
LEMMA StoredKeeps ==
    ASSUME Memory!MemoryAssumption, MemoryInv, NEW cap \in Nat, InitCap <= cap,
           NEW ins \in Seq(Value), NEW lost \in BOOLEAN, Stored(cap, ins, lost),
           count' \in 0..(Wrap - 1), uncounted' \in Nat, uncounted' <= nextId' - 1,
           \A c \in 0..MemoryRows : CountIs(count, uncounted, c)
                                      => CountIs(count', uncounted', c + Len(ins))
    PROVE  MemoryInv'
  <1> DEFINE live == Memory!Linked
             fresh == nextId..(nextId + Len(ins) - 1)
  <1>1. /\ MemoryRows \in Nat /\ nextId \in Nat /\ nextId >= 1
        /\ live \in SUBSET (1..(nextId - 1)) /\ IsFiniteSet(live) /\ Cardinality(live) \in Nat
    <2>1. MemoryRows \in Nat /\ nextId \in 1..(MemoryRows + 1)
      BY MemoryParts
    <2>2. live \in SUBSET (1..(nextId - 1)) /\ IsFiniteSet(live) /\ Cardinality(live) \in Nat
      BY MemoryParts
    <2> QED BY <2>1, <2>2
  <1>2. Len(ins) \in Nat
    OBVIOUS
  <1>3. nextId' \in 1..(MemoryRows + 1) /\ NowTable' \in Tables(nextId' - 1, cap)
        /\ val' \in [1..(nextId' - 1) -> Value \cup {Gone}] /\ Memory!Linked' = live \cup fresh
        /\ \E S : Sound(NowTable', Memory!Linked', S, cap)
    BY DEF Stored
  <1>4. IsFiniteSet(fresh) /\ Cardinality(fresh) = Len(ins)
    <2> DEFINE a == nextId
               b == nextId + Len(ins) - 1
    <2>1. a \in Int /\ b \in Int
      BY <1>1, <1>2
    <2>2. IsFiniteSet(a..b) /\ Cardinality(a..b) = IF a > b THEN 0 ELSE b - a + 1
      BY Zenon, <2>1, FS_Interval
    <2>3. (IF a > b THEN 0 ELSE b - a + 1) = Len(ins)
      BY <1>1, <1>2
    <2> QED BY <2>2, <2>3
  <1>5. live \cap fresh = {} /\ IsFiniteSet({}) /\ Cardinality({}) = 0
    <2>1. \A x \in live : x < nextId
      BY <1>1
    <2>2. live \cap fresh = {}
      BY <1>1, <2>1
    <2> QED BY <2>2, FS_EmptySet
  <1> HIDE DEF live, fresh
  <1>6. Cardinality(Memory!Linked') = Cardinality(live) + Len(ins)
    <2>1. Cardinality(live \cup fresh) = Cardinality(live) + Cardinality(fresh)
                                           - Cardinality(live \cap fresh)
      BY <1>1, <1>4, FS_Union
    <2>2. /\ Cardinality(live) \in Nat
          /\ Len(ins) \in Nat
          /\ Memory!Linked' = live \cup fresh
          /\ Cardinality(fresh) = Len(ins) /\ Cardinality(live \cap fresh) = 0
      BY Zenon, <1>1, <1>2, <1>3, <1>4, <1>5
    <2>3. Cardinality(live) + Len(ins) - 0 = Cardinality(live) + Len(ins)
      BY <2>2
    <2> QED BY <2>1, <2>2, <2>3
  <1>7. CountIs(count', uncounted', Cardinality(Memory!Linked'))
    <2>1. CountIs(count, uncounted, Cardinality(live))
      BY DEF MemoryInv, live
    <2>2. Cardinality(live) \in 0..MemoryRows
      <3>1. Cardinality(live) <= nextId - 1 /\ nextId - 1 <= MemoryRows
        BY MemoryParts DEF live
      <3> QED BY <1>1, <3>1
    <2>3. CountIs(count', uncounted', Cardinality(live) + Len(ins))
      BY <2>1, <2>2
    <2> QED BY <1>6, <2>3
  <1>8. /\ head' \in Seq(0..MemoryRows) /\ Len(head') = cap
        /\ nxt' \in [1..(nextId' - 1) -> 0..MemoryRows]
        /\ prv' \in [1..(nextId' - 1) -> 0..MemoryRows]
    BY Zenon, <1>3 DEF Tables, NowTable
  <1>9. uncounted' \in 0..MemoryRows
    <2>1. MemoryRows \in Nat /\ nextId' \in 1..(MemoryRows + 1)
      BY <1>1, <1>3
    <2>2. \A x, z \in Nat : \A y \in 1..(z + 1) : x <= y - 1 => x \in 0..z
      OBVIOUS
    <2>3. uncounted' \in Nat /\ uncounted' <= nextId' - 1
      OBVIOUS
    <2> QED BY Zenon, <2>1, <2>2, <2>3
  <1>10. Memory!TypeOK'
    BY Zenon, <1>3, <1>8, <1>9 DEF Memory!TypeOK, Memory!Id
  <1>11. \E S : Sound(NowTable', Memory!Linked', S, Len(head'))
    BY <1>3, <1>8
  <1>12. InitCap <= Len(head')
    BY <1>8
  <1> QED BY <1>7, <1>10, <1>11, <1>12 DEF MemoryInv

\* The capacity an insertion takes is the present one or more.
LEMMA GrownIs ==
    ASSUME Memory!MemoryAssumption, MemoryInv, NEW full \in BOOLEAN, NEW ct \in 0..(2 * MemoryRows)
    PROVE  Memory!Grown(full, ct) \in Nat /\ Memory!Grown(full, ct) >= Len(head)
  <1> DEFINE l == Len(head)
             n == MemoryRows + 1
             d == CHOOSE d : d = [j \in 0..n |-> IF j = 0 THEN 2 * l ELSE 2 * d[j - 1]]
             Enough(j) == ~(4 * ct >= 3 * d[j])
             k == CHOOSE j \in 0..n : Enough(j) /\ \A i \in 0..(j - 1) : ~Enough(i)
  <1>1. /\ l \in Nat
        /\ l >= 1
        /\ n \in Nat
        /\ MemoryRows \in Nat
        /\ ct \in Nat
        /\ ct <= 2 * MemoryRows
    <2>1. l \in Nat \ {0} /\ MemoryRows \in Nat
      BY MemoryParts
    <2> QED BY <2>1
  <1>2. Memory!Grown(full, ct) = IF ~full THEN l ELSE d[k]
    BY DEF Memory!Grown, Memory!Cap, Memory!Full
  <1>3. \A j \in 0..n : d[j] \in Nat /\ d[j] >= 2 * l + j /\ d[j] >= 4 * j
    <2>1. 2 * l \in Nat /\ 2 * l >= 2
      BY <1>1
    <2>2. \E f : IsDoubling(f, 2 * l, n)
      BY Zenon, <1>1, <2>1, Doublings
    <2>3. d = CHOOSE f : IsDoubling(f, 2 * l, n)
      BY DEF IsDoubling
    <2> HIDE DEF d, n
    <2>4. IsDoubling(d, 2 * l, n)
      BY <2>2, <2>3
    <2> QED BY Zenon, <1>1, <2>1, <2>4, Doublings
  <1> HIDE DEF d
  <1> DEFINE E == {j \in 0..n : Enough(j)}
  <1>4. n \in E
    BY <1>1, <1>3
  <1>5. PICK e \in E : \A i \in E : e <= i
    <2>1. E \in SUBSET Nat
      BY <1>1
    <2> HIDE DEF E
    <2> QED BY <1>4, <2>1, LeastNumber
  <1>6. e \in 0..n /\ Enough(e) /\ \A i \in 0..(e - 1) : ~Enough(i)
    BY <1>1, <1>5
  <1>7. k \in 0..n
    <2> HIDE DEF Enough
    <2> QED BY <1>6
  <1> HIDE DEF k
  <1>8. d[k] \in Nat /\ d[k] >= l
    BY SMTT(30), <1>1, <1>3, <1>7
  <1> QED BY <1>1, <1>2, <1>8

LEMMA MemoryInsertKeeps ==
    ASSUME Memory!MemoryAssumption, MemoryInv, NEW v \in Value, Memory!Insert(v)
    PROVE  MemoryInv'
  <1> DEFINE cap == IF Memory!Full(count, Len(head)) THEN 2 * Len(head) ELSE Len(head)
  <1>1. /\ uncounted' = uncounted
        /\ \/ Memory!Store(cap, <<v>>, FALSE) /\ count' = (count + 1) % Wrap
           \/ Memory!Store(cap, <<>>, TRUE) /\ count' = count
    BY Zenon DEF Memory!Insert, Memory!Cap
  <1>2. /\ MemoryRows \in Nat /\ InitCap \in Nat \ {0} /\ Wrap \in Nat
        /\ Wrap > 4 * (MemoryRows + InitCap)
        /\ Len(head) \in Nat \ {0} /\ InitCap <= Len(head)
        /\ count \in 0..(Wrap - 1) /\ uncounted \in Nat /\ uncounted <= nextId - 1
        /\ nextId \in Nat /\ nextId >= 1
    <2>1. nextId \in 1..(MemoryRows + 1) /\ MemoryRows \in Nat
      BY MemoryParts
    <2>2. nextId \in Nat /\ nextId >= 1
      BY <2>1
    <2> QED BY <2>2, MemoryParts
  <1>3. cap \in Nat \ {0} /\ InitCap <= cap
    BY <1>2
  <1> HIDE DEF cap
  <1>4. ASSUME Memory!Store(cap, <<v>>, FALSE), count' = (count + 1) % Wrap
        PROVE  MemoryInv'
    <2>1. <<v>> \in Seq(Value) /\ Len(<<v>>) = 1
      OBVIOUS
    <2>2. Stored(cap, <<v>>, FALSE)
      BY Zenon, <1>3, <1>4, <2>1, StoreIs
    <2>3. nextId' = nextId + 1
      BY <1>2, <2>1, <2>2 DEF Stored
    <2>4. count' = IF count + 1 = Wrap THEN 0 ELSE count + 1
      <3>1. CASE count + 1 = Wrap
        <4>1. 0 \in 0..(Wrap - 1) /\ Wrap \in Nat \ {0} /\ 0 + Wrap = Wrap
          BY <1>2
        <4>2. (0 + Wrap) % Wrap = 0
          BY <4>1, Modulo
        <4> QED BY <1>4, <3>1, <4>1, <4>2
      <3>2. CASE count + 1 # Wrap
        <4>1. count + 1 \in 0..(Wrap - 1) /\ Wrap \in Nat \ {0}
          BY <1>2, <3>2
        <4>2. (count + 1) % Wrap = count + 1
          BY <4>1, Modulo
        <4> QED BY <1>4, <3>2, <4>2
      <3> QED BY <3>1, <3>2
    <2>5. count' \in 0..(Wrap - 1) /\ uncounted' \in Nat /\ uncounted' <= nextId' - 1
      BY <1>1, <1>2, <2>3, <2>4
    <2>6. \A c \in 0..MemoryRows : CountIs(count, uncounted, c)
                                     => CountIs(count', uncounted', c + Len(<<v>>))
      BY <1>1, <1>2, <2>1, <2>4 DEF CountIs
    <2>7. cap \in Nat
      BY <1>3
    <2> QED BY Zenon, <1>3, <2>1, <2>2, <2>5, <2>6, <2>7, StoredKeeps
  <1>5. ASSUME Memory!Store(cap, <<>>, TRUE), count' = count
        PROVE  MemoryInv'
    <2>1. <<>> \in Seq(Value) /\ Len(<<>>) = 0
      OBVIOUS
    <2>2. Stored(cap, <<>>, TRUE)
      BY Zenon, <1>3, <1>5, <2>1, StoreIs
    <2>3. nextId' = nextId + 1
      BY <1>2, <2>1, <2>2 DEF Stored
    <2>5. count' \in 0..(Wrap - 1) /\ uncounted' \in Nat /\ uncounted' <= nextId' - 1
      BY <1>1, <1>2, <1>5, <2>3
    <2>6. \A c \in 0..MemoryRows : CountIs(count, uncounted, c)
                                     => CountIs(count', uncounted', c + Len(<<>>))
      BY <1>1, <1>2, <1>5, <2>1 DEF CountIs
    <2>7. cap \in Nat
      BY <1>3
    <2> QED BY Zenon, <1>3, <2>1, <2>2, <2>5, <2>6, <2>7, StoredKeeps
  <1> QED BY Zenon, <1>1, <1>4, <1>5

LEMMA MemoryBatchKeeps ==
    ASSUME Memory!MemoryAssumption, MemoryInv, NEW batch \in Seq(Value),
           Memory!BatchInsert(batch)
    PROVE  MemoryInv'
  <1> DEFINE l == Len(batch)
             sum == (count + l) % Wrap
             full == Memory!Full(sum, Len(head))
             cap == Memory!Grown(full, sum)
  <1>1. /\ sum <= 2 * MemoryRows
        /\ \/ Memory!Store(cap, batch, FALSE) /\ count' = sum /\ uncounted' = uncounted
           \/ \E n \in 0..(l - 1) :
                 /\ Memory!Store(cap, SubSeq(batch, 1, n), TRUE)
                 /\ uncounted' = uncounted + n
                 /\ count' = count
    BY Zenon DEF Memory!BatchInsert, Memory!Cap
  <1>2. /\ MemoryRows \in Nat /\ InitCap \in Nat \ {0} /\ Wrap \in Nat
        /\ Wrap > 4 * (MemoryRows + InitCap)
        /\ Len(head) \in Nat \ {0} /\ InitCap <= Len(head)
        /\ count \in 0..(Wrap - 1) /\ uncounted \in Nat /\ uncounted <= nextId - 1
        /\ nextId \in Nat /\ nextId >= 1
    <2>1. nextId \in 1..(MemoryRows + 1) /\ MemoryRows \in Nat
      BY MemoryParts
    <2>2. nextId \in Nat /\ nextId >= 1
      BY <2>1
    <2> QED BY <2>2, MemoryParts
  <1>3. l \in Nat /\ sum \in 0..(2 * MemoryRows)
    <2>1. l \in Nat
      OBVIOUS
    <2>2. count + l \in Nat /\ Wrap \in Nat \ {0}
      BY <1>2, <2>1
    <2>3. \A a \in Nat, w \in Nat \ {0} : a % w \in Nat
      OBVIOUS
    <2>4. sum \in Nat
      BY <2>2, <2>3
    <2> QED BY <1>1, <1>2, <2>1, <2>4
  <1>4. full \in BOOLEAN
    BY DEF Memory!Full
  <1> HIDE DEF full, sum, l
  <1>5. cap \in Nat \ {0} /\ InitCap <= cap
    <2>1. cap \in Nat /\ cap >= Len(head)
      BY <1>3, <1>4, GrownIs
    <2> HIDE DEF cap
    <2> QED BY <1>2, <2>1
  <1> HIDE DEF cap
  <1>6. ASSUME Memory!Store(cap, batch, FALSE), count' = sum, uncounted' = uncounted
        PROVE  MemoryInv'
    <2>1. Stored(cap, batch, FALSE)
      BY Zenon, <1>5, <1>6, StoreIs
    <2>2. nextId' = nextId + l /\ nextId' <= MemoryRows + 1
      <3>1. nextId' = nextId + Len(batch) + 0 /\ nextId' \in 1..(MemoryRows + 1)
        BY <2>1 DEF Stored
      <3>2. nextId + l + 0 = nextId + l
        BY <1>2, <1>3
      <3> QED BY <1>2, <3>1, <3>2 DEF l
    <2>3. l <= MemoryRows
      BY <1>2, <1>3, <2>2
    <2>4. sum = IF count + l >= Wrap THEN count + l - Wrap ELSE count + l
      <3>1. CASE count + l >= Wrap
        <4>1. count + l - Wrap \in 0..(Wrap - 1) /\ Wrap \in Nat \ {0}
              /\ (count + l - Wrap) + Wrap = count + l
          BY <1>2, <1>3, <2>3, <3>1
        <4>2. ((count + l - Wrap) + Wrap) % Wrap = count + l - Wrap
          BY <4>1, Modulo
        <4> QED BY <3>1, <4>1, <4>2 DEF sum
      <3>2. CASE ~(count + l >= Wrap)
        <4>1. count + l \in 0..(Wrap - 1) /\ Wrap \in Nat \ {0}
          BY <1>2, <1>3, <3>2
        <4>2. (count + l) % Wrap = count + l
          BY <4>1, Modulo
        <4> QED BY <3>2, <4>2 DEF sum
      <3> QED BY <3>1, <3>2
    <2>5. count' \in 0..(Wrap - 1) /\ uncounted' \in Nat /\ uncounted' <= nextId' - 1
      BY <1>2, <1>3, <1>6, <2>2
    <2>6. \A c \in 0..MemoryRows :
             CountIs(count, uncounted, c) => CountIs(count', uncounted', c + l)
      BY <1>2, <1>3, <1>6, <2>3, <2>4 DEF CountIs
    <2>7. \A c \in 0..MemoryRows : CountIs(count, uncounted, c)
                                     => CountIs(count', uncounted', c + Len(batch))
      BY <2>6 DEF l
    <2>8. cap \in Nat
      BY <1>5
    <2> QED BY Zenon, <1>5, <2>1, <2>5, <2>7, <2>8, StoredKeeps
  <1>7. ASSUME NEW n \in 0..(l - 1), Memory!Store(cap, SubSeq(batch, 1, n), TRUE),
               uncounted' = uncounted + n, count' = count
        PROVE  MemoryInv'
    <2> DEFINE b == SubSeq(batch, 1, n)
    <2>1. b \in Seq(Value) /\ Len(b) = n /\ n \in Nat
      BY <1>3 DEF l
    <2> HIDE DEF b
    <2>2. Stored(cap, b, TRUE)
      BY Zenon, <1>5, <1>7, <2>1, StoreIs DEF b
    <2>3. nextId' = nextId + n + 1
      BY <2>1, <2>2 DEF Stored
    <2>5. count' \in 0..(Wrap - 1) /\ uncounted' \in Nat /\ uncounted' <= nextId' - 1
      BY <1>2, <1>7, <2>1, <2>3
    <2>6. \A c \in 0..MemoryRows : CountIs(count, uncounted, c)
                                     => CountIs(count', uncounted', c + Len(b))
      BY <1>2, <1>7, <2>1 DEF CountIs
    <2>7. cap \in Nat
      BY <1>5
    <2> QED BY Zenon, <1>5, <2>1, <2>2, <2>5, <2>6, <2>7, StoredKeeps
  <1> QED BY Zenon, <1>1, <1>6, <1>7 DEF l

-----------------------------------------------------------------------------
(* Lookup and deletion.                                                       *)

\* A row is found while it is linked.
LEMMA FoundIs ==
    ASSUME Memory!MemoryAssumption, MemoryInv, NEW id \in 1..(nextId - 1)
    PROVE  Memory!Found(id) <=> id \in Memory!Linked
  <1> DEFINE cap == Len(head)
             h == Memory!Bucket(id, cap)
  <1>1. Memory!ChainsSound
    BY MemoryHolds
  <1>2. /\ head \in Seq(0..MemoryRows)
        /\ DOMAIN head = 1..cap
        /\ cap \in Nat \ {0}
        /\ id \in Nat
    <2>1. head \in Seq(0..MemoryRows)
      BY DEF MemoryInv, Memory!TypeOK
    <2> QED BY <2>1, MemoryParts
  <1>3. h \in DOMAIN head
    BY <1>2, BucketRange
  <1>4. Memory!ToSet(Memory!Chain(head[h], nxt)) =
          {x \in Memory!Linked : Memory!Bucket(x, cap) = h}
    BY <1>1, <1>3 DEF Memory!ChainsSound, Memory!Cap
  <1>5. Memory!Found(id) <=> id \in Memory!ToSet(Memory!Chain(head[h], nxt))
    BY DEF Memory!Found, Memory!Cap
  <1> QED BY <1>4, <1>5

LEMMA MemoryUpdateKeeps ==
    ASSUME Memory!MemoryAssumption, MemoryInv, NEW id \in 1..(nextId - 1), NEW v \in Value,
           Memory!Update(id, v)
    PROVE  MemoryInv'
  <1>1. /\ id \in Memory!Linked /\ val' = [val EXCEPT ![id] = v]
        /\ UNCHANGED <<head, nxt, prv, count, nextId, uncounted>>
    BY FoundIs DEF Memory!Update
  <1>2. val \in [1..(nextId - 1) -> Value \cup {Gone}] /\ Gone \notin Value
    BY MemoryParts
  <1>3. val' \in [1..(nextId - 1) -> Value \cup {Gone}]
        /\ \A x \in 1..(nextId - 1) : val'[x] = IF x = id THEN v ELSE val[x]
    BY <1>1, <1>2
  <1>4. Memory!Linked' = Memory!Linked
    <2>1. Memory!Linked' = {x \in 1..(nextId - 1) : val'[x] # Gone}
      BY <1>1 DEF Memory!Linked, Memory!Id
    <2>2. Memory!Linked = {x \in 1..(nextId - 1) : val[x] # Gone}
      BY DEF Memory!Linked, Memory!Id
    <2> QED BY <1>1, <1>2, <1>3, <2>1, <2>2
  <1>5. NowTable' = NowTable
    BY <1>1 DEF NowTable
  <1>6. Memory!TypeOK'
    BY Zenon, <1>1, <1>3 DEF MemoryInv, Memory!TypeOK, Memory!Id
  <1> QED BY <1>1, <1>4, <1>5, <1>6 DEF MemoryInv

\* The table without the node id: its neighbours are linked to one another.
Unlinked(t, id, h) ==
    [head |-> IF t.prv[id] = 0 THEN [t.head EXCEPT ![h] = t.nxt[id]] ELSE t.head,
     nxt |-> IF t.prv[id] # 0 THEN [t.nxt EXCEPT ![t.prv[id]] = t.nxt[id]] ELSE t.nxt,
     prv |-> IF t.nxt[id] # 0 THEN [t.prv EXCEPT ![t.nxt[id]] = t.prv[id]] ELSE t.prv]

LEMMA UnlinkType ==
    ASSUME NEW m \in Nat, m <= MemoryRows, MemoryRows \in Nat, NEW cap \in Nat \ {0},
           NEW t \in Tables(m, cap), NEW id \in 1..m, NEW h \in 1..cap
    PROVE  Unlinked(t, id, h) \in Tables(m, cap)
  <1>1. /\ t.head \in Seq(0..MemoryRows) /\ t.nxt \in [1..m -> 0..MemoryRows]
        /\ t.prv \in [1..m -> 0..MemoryRows] /\ Len(t.head) = cap
    BY DEF Tables
  <1>2. t.nxt[id] \in 0..MemoryRows /\ t.prv[id] \in 0..MemoryRows
    BY Zenon, <1>1
  <1> DEFINE hd == IF t.prv[id] = 0 THEN [t.head EXCEPT ![h] = t.nxt[id]] ELSE t.head
             nx == IF t.prv[id] # 0 THEN [t.nxt EXCEPT ![t.prv[id]] = t.nxt[id]] ELSE t.nxt
             pv == IF t.nxt[id] # 0 THEN [t.prv EXCEPT ![t.nxt[id]] = t.prv[id]] ELSE t.prv
  <1>3. hd \in Seq(0..MemoryRows) /\ Len(hd) = cap
    <2>1. ASSUME NEW T, NEW l \in Seq(T), NEW i \in 1..Len(l), NEW x \in T
          PROVE  [l EXCEPT ![i] = x] \in Seq(T) /\ Len([l EXCEPT ![i] = x]) = Len(l)
      OBVIOUS
    <2>2. [t.head EXCEPT ![h] = t.nxt[id]] \in Seq(0..MemoryRows)
          /\ Len([t.head EXCEPT ![h] = t.nxt[id]]) = cap
      BY <1>1, <1>2, <2>1
    <2>3. CASE t.prv[id] = 0
      BY <2>2, <2>3
    <2>4. CASE t.prv[id] # 0
      <3>1. hd = t.head
        BY <2>4
      <3> HIDE DEF hd
      <3> QED BY <1>1, <3>1
    <2> QED BY <2>3, <2>4
  <1>4. nx \in [1..m -> 0..MemoryRows] /\ pv \in [1..m -> 0..MemoryRows]
    BY Zenon, <1>1, <1>2
  <1>5. Unlinked(t, id, h) = [head |-> hd, nxt |-> nx, prv |-> pv]
    BY DEF Unlinked
  <1> HIDE DEF hd, nx, pv
  <1>6. [head |-> hd, nxt |-> nx, prv |-> pv] \in Tables(m, cap)
    BY <1>3, <1>4 DEF Tables
  <1> QED BY <1>5, <1>6

LEMMA UnlinkSound ==
    ASSUME NEW m \in Nat, m <= MemoryRows, MemoryRows \in Nat, NEW cap \in Nat \ {0},
           NEW t \in Tables(m, cap), NEW live \in SUBSET (1..m), NEW S, Sound(t, live, S, cap),
           NEW id \in live
    PROVE  \E R : Sound(Unlinked(t, id, Memory!Bucket(id, cap)), live \ {id}, R, cap)
  <1> DEFINE h == Memory!Bucket(id, cap)
             s == S[h]
             n == Len(s)
             before == t.prv[id]
             after == t.nxt[id]
             u == Unlinked(t, id, h)
             less == live \ {id}
  <1>1. /\ t.head \in Seq(0..MemoryRows) /\ t.nxt \in [1..m -> 0..MemoryRows]
        /\ t.prv \in [1..m -> 0..MemoryRows] /\ Len(t.head) = cap
        /\ DOMAIN t.head = 1..cap /\ id \in 1..m
    BY DEF Tables
  <1>2. h \in 1..cap
    <2>1. id \in Nat
      BY <1>1
    <2> QED BY <2>1, BucketRange
  <1>3. IsBucket(t, live, s, h, cap)
    BY <1>2 DEF Sound
  <1>4. s \in Seq(1..m) /\ n \in Nat /\ DOMAIN s = 1..n /\ \A i \in 1..n : s[i] \in 1..m
        /\ s \in Seq(Nat \ {0})
    <2>1. s \in Seq(Nat \ {0})
      BY <1>3 DEF IsBucket, IsChain
    <2>2. \A i \in 1..n : s[i] \in 1..m
      BY <1>3, <2>1 DEF IsBucket, ToSet
    <2> HIDE DEF s
    <2> QED BY <2>1, <2>2
  <1>5. PICK p \in 1..n : s[p] = id
    <2>1. id \in ToSet(s)
      BY <1>3 DEF IsBucket, h
    <2> QED BY Zenon, <1>4, <2>1 DEF ToSet
  <1>6. /\ t.head[h] = IF s = <<>> THEN 0 ELSE s[1]
        /\ \A i \in 1..n : t.nxt[s[i]] = IF i = n THEN 0 ELSE s[i + 1]
        /\ \A i \in 1..n : t.prv[s[i]] = IF i = 1 THEN 0 ELSE s[i - 1]
        /\ \A i, j \in 1..n : s[i] = s[j] => i = j
        /\ ToSet(s) = {x \in live : Memory!Bucket(x, cap) = h}
    BY <1>3 DEF IsBucket, IsChain
  <1> DEFINE r == RemoveAt(s, p)
             From(i) == IF i < p THEN i ELSE i + 1
             R == [g \in 1..cap |-> IF g = h THEN r ELSE S[g]]
  <1>7. /\ r \in Seq(1..m) /\ Len(r) = n - 1
        /\ \A i \in 1..(n - 1) : From(i) \in 1..n /\ From(i) # p /\ r[i] = s[From(i)]
    <2>1. /\ r \in Seq(1..m) /\ Len(r) = n - 1
          /\ \A i \in 1..(n - 1) : (i < p => r[i] = s[i]) /\ (i >= p => r[i] = s[i + 1])
      <3>1. p \in DOMAIN s
        BY SMTT(30), <1>4, <1>5
      <3> HIDE DEF s
      <3>2. /\ RemoveAt(s, p) \in Seq(1..m) /\ Len(RemoveAt(s, p)) = Len(s) - 1
            /\ \A i \in 1..(Len(s) - 1) : (i < p => RemoveAt(s, p)[i] = s[i])
                                          /\ (i >= p => RemoveAt(s, p)[i] = s[i + 1])
        BY Zenon, <1>4, <3>1, RemoveAtSkips
      <3> QED BY <3>2
    <2> HIDE DEF r, n, s
    <2>2. \A i \in 1..(n - 1) : From(i) \in 1..n /\ From(i) # p /\ r[i] = s[From(i)]
      BY SMTT(30), <1>4, <1>5, <2>1
    <2> QED BY Zenon, <2>1, <2>2
  <1>8. /\ before = IF p = 1 THEN 0 ELSE s[p - 1]
        /\ after = IF p = n THEN 0 ELSE s[p + 1]
    BY Zenon, <1>5, <1>6
  <1>9. /\ u.head = IF before = 0 THEN [t.head EXCEPT ![h] = after] ELSE t.head
        /\ u.nxt = IF before # 0 THEN [t.nxt EXCEPT ![before] = after] ELSE t.nxt
        /\ u.prv = IF after # 0 THEN [t.prv EXCEPT ![after] = before] ELSE t.prv
    BY DEF Unlinked
  <1> HIDE DEF h, s, n, before, after, u, r
  <1>10. before # 0 <=> p # 1
    BY <1>4, <1>5, <1>8
  <1>11. after # 0 <=> p # n
    BY <1>4, <1>5, <1>8
  <1>12. /\ \A g \in 1..cap : u.head[g] = IF g = h /\ p = 1 THEN after ELSE t.head[g]
         /\ \A x \in 1..m : u.nxt[x] = IF p # 1 /\ x = before THEN after ELSE t.nxt[x]
         /\ \A x \in 1..m : u.prv[x] = IF p # n /\ x = after THEN before ELSE t.prv[x]
    BY Zenon, <1>1, <1>2, <1>9, <1>10, <1>11
  <1>13. \A i \in 1..n : /\ s[i] = before <=> p # 1 /\ i = p - 1
                         /\ s[i] = after <=> p # n /\ i = p + 1
    <2> SUFFICES ASSUME NEW i \in 1..n
                 PROVE  /\ s[i] = before <=> p # 1 /\ i = p - 1
                        /\ s[i] = after <=> p # n /\ i = p + 1
      OBVIOUS
    <2>1. s[i] # 0 /\ s[i] \in 1..m
      BY <1>4
    <2>2. p # 1 => p - 1 \in 1..n
      BY <1>4, <1>5
    <2>3. p # n => p + 1 \in 1..n
      BY <1>4, <1>5
    <2> QED BY Zenon, <1>6, <1>8, <2>1, <2>2, <2>3
  <1>14. IsBucket(u, less, r, h, cap)
    <2>1. r \in Seq(Nat \ {0}) /\ DOMAIN r = 1..(n - 1)
      <3>1. \A i \in 1..(n - 1) : r[i] \in Nat \ {0}
        BY SMTT(30), <1>4, <1>7
      <3> QED BY <1>4, <1>7, <3>1
    <2>2. u.head[h] = IF r = <<>> THEN 0 ELSE r[1]
      <3>1. r = <<>> <=> n = 1
        BY <1>4, <1>5, <1>7, <2>1
      <3>2. u.head[h] = IF p = 1 THEN after ELSE t.head[h]
        BY <1>2, <1>12
      <3>3. t.head[h] = s[1]
        BY <1>4, <1>5, <1>6
      <3>4. CASE n = 1
        BY <1>5, <1>8, <3>1, <3>2, <3>4
      <3>5. CASE n # 1
        <4>1. 1 \in 1..(n - 1) /\ r[1] = s[From(1)]
          BY <1>4, <1>5, <1>7, <3>5
        <4>2. CASE p = 1
          BY <1>8, <3>1, <3>2, <3>5, <4>1, <4>2
        <4>3. CASE p # 1
          <5>1. From(1) = 1
            BY <1>5, <4>3
          <5> QED BY <3>1, <3>2, <3>3, <3>5, <4>1, <4>3, <5>1
        <4> QED BY <4>2, <4>3
      <3> QED BY <3>4, <3>5
    <2>3. ASSUME NEW i \in 1..(n - 1)
          PROVE  u.nxt[r[i]] = IF i = n - 1 THEN 0 ELSE r[i + 1]
      <3>1. r[i] = s[From(i)] /\ From(i) \in 1..n /\ s[From(i)] \in 1..m
        BY <1>4, <1>7
      <3>2. u.nxt[r[i]] = IF p # 1 /\ From(i) = p - 1 THEN after ELSE t.nxt[s[From(i)]]
        BY <1>12, <1>13, <3>1
      <3>3. t.nxt[s[From(i)]] = IF From(i) = n THEN 0 ELSE s[From(i) + 1]
        BY <1>6, <3>1
      <3>4. i # n - 1 => i + 1 \in 1..(n - 1) /\ r[i + 1] = s[From(i + 1)]
        <4>1. i # n - 1 => i + 1 \in 1..(n - 1)
          BY <1>4
        <4> QED BY Zenon, <1>7, <4>1
      <3>5. CASE i = p - 1
        <4>1. From(i) = p - 1 /\ p # 1 /\ From(i + 1) = p + 1 /\ (i = n - 1 <=> p = n)
          BY <1>4, <1>5, <3>5
        <4> HIDE DEF From
        <4> QED BY <1>8, <3>2, <3>4, <4>1
      <3>6. CASE i < p - 1
        <4>1. /\ From(i) = i
              /\ From(i) # p - 1
              /\ From(i) # n
              /\ From(i + 1) = i + 1
              /\ i # n - 1
          BY <1>4, <1>5, <3>6
        <4> HIDE DEF From
        <4> QED BY <3>2, <3>3, <3>4, <4>1
      <3>7. CASE i > p - 1
        <4>1. From(i) = i + 1 /\ From(i) # p - 1
          BY <1>4, <1>5, <3>7
        <4>2. From(i + 1) = From(i) + 1 /\ (i = n - 1 <=> From(i) = n)
          BY <1>4, <1>5, <3>7
        <4> HIDE DEF From
        <4>3. u.nxt[r[i]] = IF From(i) = n THEN 0 ELSE s[From(i) + 1]
          BY <3>2, <3>3, <4>1
        <4>4. i # n - 1 => r[i + 1] = s[From(i) + 1]
          BY <3>4, <4>2
        <4> QED BY <4>2, <4>3, <4>4
      <3>8. i = p - 1 \/ i < p - 1 \/ i > p - 1
        BY <1>4, <1>5
      <3> QED BY <3>5, <3>6, <3>7, <3>8
    <2>4. ASSUME NEW i \in 1..(n - 1)
          PROVE  u.prv[r[i]] = IF i = 1 THEN 0 ELSE r[i - 1]
      <3>1. r[i] = s[From(i)] /\ From(i) \in 1..n /\ s[From(i)] \in 1..m
        BY <1>4, <1>7
      <3>2. u.prv[r[i]] = IF p # n /\ From(i) = p + 1 THEN before ELSE t.prv[s[From(i)]]
        BY <1>12, <1>13, <3>1
      <3>3. t.prv[s[From(i)]] = IF From(i) = 1 THEN 0 ELSE s[From(i) - 1]
        BY <1>6, <3>1
      <3>4. i # 1 => i - 1 \in 1..(n - 1) /\ r[i - 1] = s[From(i - 1)]
        <4>1. i # 1 => i - 1 \in 1..(n - 1)
          BY <1>4
        <4> QED BY Zenon, <1>7, <4>1
      <3>5. CASE i = p
        <4>1. From(i) = p + 1 /\ p # n /\ From(i - 1) = p - 1
          BY <1>4, <1>5, <3>5
        <4> HIDE DEF From
        <4> QED BY <1>8, <3>2, <3>4, <3>5, <4>1
      <3>6. CASE i < p
        <4>1. From(i) = i /\ From(i) # p + 1 /\ From(i - 1) = i - 1
          BY <1>4, <1>5, <3>6
        <4> HIDE DEF From
        <4> QED BY <3>2, <3>3, <3>4, <4>1
      <3>7. CASE i > p
        <4>1. From(i) = i + 1 /\ From(i) # p + 1 /\ From(i - 1) = i /\ From(i) # 1 /\ i # 1
              /\ From(i) - 1 = i
          BY <1>4, <1>5, <3>7
        <4> HIDE DEF From
        <4> QED BY <3>2, <3>3, <3>4, <4>1
      <3>8. i = p \/ i < p \/ i > p
        BY <1>4, <1>5
      <3> QED BY <3>5, <3>6, <3>7, <3>8
    <2>5. \A i, j \in 1..(n - 1) : r[i] = r[j] => i = j
      <3> SUFFICES ASSUME NEW i \in 1..(n - 1), NEW j \in 1..(n - 1), r[i] = r[j] PROVE i = j
        OBVIOUS
      <3>1. From(i) = From(j)
        <4> HIDE DEF From
        <4>1. From(i) \in 1..n /\ From(j) \in 1..n /\ s[From(i)] = s[From(j)]
          BY Zenon, <1>7
        <4> QED BY <1>6, <4>1
      <3> QED BY <1>4, <1>5, <3>1
    <2>6. ToSet(r) = {x \in less : Memory!Bucket(x, cap) = h}
      <3>1. ToSet(r) = {r[i] : i \in 1..(n - 1)} /\ ToSet(s) = {s[i] : i \in 1..n}
        BY <1>4, <2>1 DEF ToSet
      <3>2. \A i \in 1..(n - 1) : r[i] \in ToSet(s) /\ r[i] # id
        <4> HIDE DEF From
        <4> QED BY <1>5, <1>6, <1>7, <3>1
      <3>3. ASSUME NEW k \in 1..n, k # p PROVE s[k] \in ToSet(r)
        <4>1. CASE k < p
          <5>1. k \in 1..(n - 1) /\ From(k) = k
            BY <1>4, <1>5, <4>1
          <5> HIDE DEF From
          <5> QED BY <1>7, <3>1, <5>1
        <4>2. CASE k > p
          <5>1. k - 1 \in 1..(n - 1) /\ From(k - 1) = k
            BY <1>4, <1>5, <4>2
          <5> HIDE DEF From
          <5> QED BY <1>7, <3>1, <5>1
        <4> QED BY <1>4, <1>5, <3>3, <4>1, <4>2
      <3>4. ToSet(r) = ToSet(s) \ {id}
        BY <1>5, <3>1, <3>2, <3>3
      <3> QED BY <1>6, <3>4
    <2>7. Len(r) = n - 1
      BY <1>7
    <2> HIDE DEF less
    <2>8. IsChain(r, u.head[h], u.nxt)
      BY <2>1, <2>2, <2>3, <2>7 DEF IsChain
    <2> QED BY <2>4, <2>5, <2>6, <2>7, <2>8 DEF IsBucket
  <1>15. ASSUME NEW g \in 1..cap, g # h PROVE IsBucket(u, less, S[g], g, cap)
    <2> DEFINE q == S[g]
    <2>1. IsBucket(t, live, q, g, cap)
      BY DEF Sound
    <2>2. \A i \in 1..Len(q) : q[i] \in live /\ q[i] \in 1..m /\ Memory!Bucket(q[i], cap) = g
      BY <2>1 DEF IsBucket, IsChain, ToSet
    <2> HIDE DEF q
    <2>3. \A i \in 1..n : Memory!Bucket(s[i], cap) = h
      <3>1. \A i \in 1..n : s[i] \in ToSet(s)
        BY <1>4 DEF ToSet
      <3> QED BY <1>6, <3>1
    <2>4. \A i \in 1..Len(q) : ~(p # 1 /\ q[i] = before) /\ ~(p # n /\ q[i] = after)
      <3>1. p # 1 => p - 1 \in 1..n /\ before = s[p - 1]
        BY <1>4, <1>5, <1>8
      <3>2. p # n => p + 1 \in 1..n /\ after = s[p + 1]
        BY <1>4, <1>5, <1>8
      <3> QED BY <1>15, <2>2, <2>3, <3>1, <3>2
    <2>5. /\ u.head[g] = t.head[g]
          /\ \A i \in 1..Len(q) : u.nxt[q[i]] = t.nxt[q[i]] /\ u.prv[q[i]] = t.prv[q[i]]
      BY <1>12, <1>15, <2>2, <2>4
    <2>6. ToSet(q) = {x \in less : Memory!Bucket(x, cap) = g}
      <3>1. ToSet(q) = {x \in live : Memory!Bucket(x, cap) = g}
        BY <2>1 DEF IsBucket
      <3>2. Memory!Bucket(id, cap) # g
        BY <1>15 DEF h
      <3> QED BY <3>1, <3>2
    <2>7. IsChain(q, u.head[g], u.nxt)
      BY Zenon, <2>1, <2>5 DEF IsBucket, IsChain
    <2>8. \A i \in 1..Len(q) : u.prv[q[i]] = IF i = 1 THEN 0 ELSE q[i - 1]
      BY <2>1, <2>5 DEF IsBucket
    <2>9. \A i, j \in 1..Len(q) : q[i] = q[j] => i = j
      BY <2>1 DEF IsBucket
    <2> HIDE DEF less
    <2> QED BY <2>6, <2>7, <2>8, <2>9 DEF IsBucket, q
  <1>16. R[h] = r /\ \A g \in 1..cap : g # h => R[g] = S[g]
    BY <1>2
  <1> HIDE DEF R, less
  <1>17. Sound(u, less, R, cap)
    BY <1>14, <1>15, <1>16 DEF Sound
  <1> QED BY <1>17 DEF u, less, h

LEMMA MemoryDeleteKeeps ==
    ASSUME Memory!MemoryAssumption, MemoryInv, NEW id \in 1..(nextId - 1), Memory!Delete(id)
    PROVE  MemoryInv'
  <1> DEFINE m == nextId - 1
             cap == Len(head)
             live == Memory!Linked
             h == Memory!Bucket(id, cap)
  <1>1. /\ MemoryRows \in Nat /\ m \in Nat /\ m <= MemoryRows /\ cap \in Nat \ {0}
        /\ NowTable \in Tables(m, cap) /\ live \in SUBSET (1..m) /\ InitCap <= cap
        /\ val \in [1..m -> Value \cup {Gone}] /\ nextId \in Nat
        /\ IsFiniteSet(live) /\ Cardinality(live) \in Nat /\ Cardinality(live) <= m
        /\ count \in 0..(Wrap - 1) /\ uncounted \in Nat
        /\ Wrap \in Nat /\ Wrap > 4 * (MemoryRows + InitCap) /\ InitCap \in Nat
    <2>1. nextId \in Nat
      <3>1. nextId \in 1..(MemoryRows + 1) /\ MemoryRows \in Nat
        BY MemoryParts
      <3> QED BY <3>1
    <2> QED BY Zenon, <2>1, MemoryParts
  <1>2. id \in live
    BY FoundIs DEF Memory!Delete
  <1>3. /\ val' = [val EXCEPT ![id] = Gone]
        /\ count' = (count - 1) % Wrap
        /\ UNCHANGED <<nextId, uncounted>>
    BY DEF Memory!Delete
  <1>4. NowTable.head = head /\ NowTable.nxt = nxt /\ NowTable.prv = prv
    BY DEF NowTable
  <1>5. NowTable' = Unlinked(NowTable, id, h)
    <2>1. /\ head' = (IF prv[id] = 0 THEN [head EXCEPT ![h] = nxt[id]] ELSE head)
          /\ nxt' = (IF prv[id] # 0 THEN [nxt EXCEPT ![prv[id]] = nxt[id]] ELSE nxt)
          /\ prv' = (IF nxt[id] # 0 THEN [prv EXCEPT ![nxt[id]] = prv[id]] ELSE prv)
      BY DEF Memory!Delete, Memory!Cap
    <2>2. NowTable' = [head |-> head', nxt |-> nxt', prv |-> prv']
      BY DEF NowTable
    <2> HIDE DEF h
    <2> QED BY <1>4, <2>1, <2>2 DEF Unlinked
  <1>6. PICK S : Sound(NowTable, live, S, cap)
    BY DEF MemoryInv
  <1> HIDE DEF m, cap, live
  <1>7. \E R : Sound(NowTable', live \ {id}, R, cap)
    <2>1. \E R : Sound(Unlinked(NowTable, id, Memory!Bucket(id, cap)), live \ {id}, R, cap)
      BY Zenon, <1>1, <1>2, <1>6, UnlinkSound
    <2> QED BY <1>5, <2>1
  <1>8. NowTable' \in Tables(m, cap)
    <2>1. id \in 1..m /\ id \in Nat
      BY <1>1, <1>2
    <2>2. h \in 1..cap
      BY <1>1, <2>1, BucketRange
    <2> HIDE DEF h
    <2> QED BY <1>1, <1>5, <2>1, <2>2, UnlinkType
  <1>9. val' \in [1..m -> Value \cup {Gone}]
        /\ \A x \in 1..m : val'[x] = IF x = id THEN Gone ELSE val[x]
    BY <1>1, <1>2, <1>3
  <1>10. Memory!Linked' = live \ {id}
    <2>1. Memory!Linked' = {x \in 1..m : val'[x] # Gone}
      BY <1>3 DEF Memory!Linked, Memory!Id, m
    <2>2. live = {x \in 1..m : val[x] # Gone}
      BY DEF Memory!Linked, Memory!Id, m, live
    <2> QED BY <1>1, <1>2, <1>9, <2>1, <2>2
  <1>11. Cardinality(live \ {id}) = Cardinality(live) - 1
    BY Zenon, <1>1, <1>2, FS_RemoveElement
  <1>12. count' = IF count = 0 THEN Wrap - 1 ELSE count - 1
    <2>1. CASE count = 0
      <3>1. Wrap - 1 \in 0..(Wrap - 1) /\ Wrap \in Nat \ {0} /\ (Wrap - 1) - Wrap = count - 1
        BY <1>1, <2>1
      <3>2. ((Wrap - 1) - Wrap) % Wrap = Wrap - 1
        BY <3>1, Modulo
      <3> QED BY <1>3, <2>1, <3>1, <3>2
    <2>2. CASE count # 0
      <3>1. count - 1 \in 0..(Wrap - 1) /\ Wrap \in Nat \ {0}
        BY <1>1, <2>2
      <3>2. (count - 1) % Wrap = count - 1
        BY <3>1, Modulo
      <3> QED BY <1>3, <2>2, <3>2
    <2> QED BY <2>1, <2>2
  <1>13. CountIs(count', uncounted', Cardinality(Memory!Linked'))
    <2>1. CountIs(count, uncounted, Cardinality(live))
      BY DEF MemoryInv, live
    <2>2. uncounted' = uncounted /\ Cardinality(Memory!Linked') = Cardinality(live) - 1
      BY <1>3, <1>10, <1>11
    <2>3. count \in Nat /\ uncounted \in Nat /\ Wrap \in Nat /\ Cardinality(live) \in Nat
          /\ Cardinality(live) <= MemoryRows /\ Wrap > 4 * MemoryRows /\ MemoryRows \in Nat
      BY <1>1
    <2>4. Cardinality(live) >= 1
      <3>1. Cardinality(live) = 0 => live = {}
        BY <1>1, FS_EmptySet
      <3> QED BY <1>1, <1>2, <3>1
    <2>5. \A a, b, c \in Nat : b <= MemoryRows /\ c <= MemoryRows /\ CountIs(a, b, c)
             => CountIs(IF a = 0 THEN Wrap - 1 ELSE a - 1, b, c - 1)
      <3> SUFFICES ASSUME NEW a \in Nat, NEW b \in Nat, NEW c \in Nat,
                          b <= MemoryRows, c <= MemoryRows, CountIs(a, b, c)
                   PROVE  CountIs(IF a = 0 THEN Wrap - 1 ELSE a - 1, b, c - 1)
        OBVIOUS
      <3>1. CASE a = 0
        <4>1. b = c
          BY <2>3, <3>1 DEF CountIs
        <4> QED BY <2>3, <3>1, <4>1 DEF CountIs
      <3>2. CASE a # 0
        BY <2>3, <3>2 DEF CountIs
      <3> QED BY <3>1, <3>2
    <2>6. uncounted <= MemoryRows
      BY DEF MemoryInv, Memory!TypeOK
    <2> QED BY <1>12, <2>1, <2>2, <2>3, <2>4, <2>5, <2>6
  <1>14. /\ head' \in Seq(0..MemoryRows) /\ Len(head') = cap
         /\ nxt' \in [1..m -> 0..MemoryRows] /\ prv' \in [1..m -> 0..MemoryRows]
    BY <1>8 DEF Tables, NowTable
  <1>15. count' \in 0..(Wrap - 1)
    BY <1>1, <1>12
  <1>16. Memory!TypeOK'
    <2>1. /\ nextId' = nextId /\ uncounted' = uncounted
          /\ nextId \in 1..(MemoryRows + 1) /\ uncounted \in 0..MemoryRows
      BY <1>3 DEF MemoryInv, Memory!TypeOK
    <2> QED BY <1>9, <1>14, <1>15, <2>1 DEF Memory!TypeOK, Memory!Id, m
  <1>17. InitCap <= Len(head') /\ uncounted' <= nextId' - 1
    BY <1>1, <1>3, <1>14 DEF MemoryInv
  <1>18. \E R : Sound(NowTable', Memory!Linked', R, Len(head'))
    BY <1>7, <1>10, <1>14
  <1> QED BY <1>13, <1>16, <1>17, <1>18 DEF MemoryInv

LEMMA MemoryOptimizeKeeps ==
    ASSUME Memory!MemoryAssumption, MemoryInv, Memory!Optimize
    PROVE  MemoryInv' /\ UNCHANGED <<head, nxt, prv, val, count, nextId, uncounted>>
  <1> DEFINE cap == Len(head)
             least == IF cap \div 2 < InitCap THEN InitCap ELSE cap \div 2
  <1>1. cap \in Nat \ {0} /\ InitCap <= cap /\ InitCap \in Nat
    BY MemoryParts
  <1>2. ~(least > cap)
    <2> HIDE DEF cap
    <2>1. cap \div 2 \in Nat /\ cap \div 2 <= cap
      BY <1>1
    <2> QED BY <1>1, <2>1
  <1>3. UNCHANGED <<head, nxt, prv, val, count, nextId, uncounted>>
    BY <1>2 DEF Memory!Optimize, Memory!Cap
  <1>4. Memory!Linked' = Memory!Linked /\ NowTable' = NowTable /\ Memory!TypeOK'
    BY Zenon, <1>3 DEF Memory!Linked, Memory!Id, NowTable, MemoryInv, Memory!TypeOK
  <1> QED BY <1>3, <1>4 DEF MemoryInv

LEMMA MemoryStep ==
    ASSUME Memory!MemoryAssumption, MemoryInv, Memory!Next
    PROVE  MemoryInv'
  <1>1. ASSUME NEW n \in 1..MaxBatch, NEW batch \in [1..n -> Value], Memory!BatchInsert(batch)
        PROVE  MemoryInv'
    <2>1. n \in Nat
      BY DEF Memory!MemoryAssumption
    <2>2. batch \in Seq(Value)
      BY <2>1
    <2> QED BY <1>1, <2>2, MemoryBatchKeeps
  <1>2. ASSUME NEW id \in Memory!Id, Memory!Delete(id) PROVE MemoryInv'
    BY <1>2, MemoryDeleteKeeps DEF Memory!Id
  <1>3. ASSUME NEW id \in Memory!Id, NEW v \in Value, Memory!Update(id, v) PROVE MemoryInv'
    BY <1>3, MemoryUpdateKeeps DEF Memory!Id
  <1> QED BY <1>1, <1>2, <1>3, MemoryInsertKeeps, MemoryOptimizeKeeps DEF Memory!Next

LEMMA MemoryInit ==
    ASSUME Memory!MemoryAssumption, Memory!Init
    PROVE  MemoryInv
  <1>1. /\ head = Memory!Empty(InitCap) /\ nxt = <<>> /\ prv = <<>> /\ val = <<>>
        /\ count = 0 /\ nextId = 1 /\ uncounted = 0
    BY DEF Memory!Init
  <1>2. InitCap \in Nat \ {0} /\ MemoryRows \in Nat /\ Wrap \in Nat
        /\ Wrap > 4 * (MemoryRows + InitCap)
    BY DEF Memory!MemoryAssumption
  <1>3. head = [h \in 1..InitCap |-> 0]
    BY <1>1 DEF Memory!Empty
  <1>4. head \in Seq(0..MemoryRows) /\ Len(head) = InitCap /\ \A h \in 1..InitCap : head[h] = 0
    BY <1>2, <1>3
  <1>5. nextId - 1 = 0 /\ 1..0 = {}
    BY <1>1
  <1>6. Memory!Id = {}
    BY <1>5 DEF Memory!Id
  <1>7. Memory!TypeOK
    <2>1. /\ count \in 0..(Wrap - 1)
          /\ nextId \in 1..(MemoryRows + 1)
          /\ uncounted \in 0..MemoryRows
      BY <1>1, <1>2
    <2>2. \A X : <<>> \in [{} -> X]
      OBVIOUS
    <2> QED BY <1>1, <1>4, <1>6, <2>1, <2>2 DEF Memory!TypeOK
  <1>8. Memory!Linked = {}
    BY <1>6 DEF Memory!Linked
  <1>9. CountIs(count, uncounted, Cardinality(Memory!Linked))
    <2>1. Cardinality({}) = 0
      BY FS_EmptySet
    <2> QED BY <1>1, <1>8, <2>1 DEF CountIs
  <1>10. Sound(NowTable, {}, [h \in 1..InitCap |-> <<>>], InitCap)
    <2> DEFINE none == [h \in 1..InitCap |-> <<>>]
    <2> SUFFICES ASSUME NEW h \in 1..InitCap PROVE IsBucket(NowTable, {}, none[h], h, InitCap)
      BY DEF Sound
    <2>1. none[h] = <<>> /\ NowTable.head[h] = 0
      BY <1>4 DEF NowTable
    <2>2. IsChain(<<>>, 0, NowTable.nxt)
      BY DEF IsChain
    <2>3. IsBucket(NowTable, {}, <<>>, h, InitCap)
      BY <2>1, <2>2 DEF IsBucket, ToSet
    <2> QED BY <2>1, <2>3
  <1>11. InitCap <= Len(head) /\ uncounted <= nextId - 1
    BY <1>1, <1>2, <1>4, <1>5
  <1> QED BY <1>4, <1>7, <1>8, <1>9, <1>10, <1>11 DEF MemoryInv

-----------------------------------------------------------------------------
(* What the steps of an engine do to the contents of a table.                 *)

Entries == AnyRow \cup {Gone}

Grows(old, new) == \E n \in 1..MaxBatch : \E batch \in [1..n -> Entries] : new = old \o batch

Replaces(old, new) == \E id \in DOMAIN old : \E v \in Entries : new = [old EXCEPT ![id] = v]

\* The rows under the numbers s are left, the others were gone.
Drops(old, new) ==
    \E s \in Seq(Nat) :
       /\ Ascends(s)
       /\ ToSet(s) \subseteq DOMAIN old
       /\ \A id \in DOMAIN old \ ToSet(s) : old[id] = Gone
       /\ new = [n \in 1..Len(s) |-> old[s[n]]]

\* Some of the rows that are gone are dropped.
Optimizes(old, new) ==
    \E S \in SUBSET {id \in DOMAIN old : old[id] = Gone} :
       LET left == DOMAIN old \ S
           place(id) == Cardinality({j \in left : j <= id})
       IN  new = [n \in 1..Cardinality(left) |-> old[CHOOSE id \in left : place(id) = n]]

Keeping(old, new) == Grows(old, new) \/ Replaces(old, new) \/ Optimizes(old, new) \/ new = old

\* In an ascending list the n-th number has n numbers up to it.
LEMMA AscentPlaces ==
    ASSUME NEW s \in Seq(Nat), Ascends(s), NEW n \in 1..Len(s)
    PROVE  /\ IsFiniteSet(ToSet(s)) /\ Cardinality(ToSet(s)) = Len(s)
           /\ Cardinality({j \in ToSet(s) : j <= s[n]}) = n
  <1>1. Len(s) \in Nat /\ DOMAIN s = 1..Len(s) /\ ToSet(s) = {s[i] : i \in 1..Len(s)}
        /\ \A i \in 1..Len(s) : s[i] \in Nat
    BY DEF ToSet
  <1>2. \A i, j \in 1..Len(s) : i < j => s[i] < s[j]
    BY Zenon, <1>1 DEF Ascends
  <1>3. ASSUME NEW k \in 1..Len(s)
        PROVE  /\ IsFiniteSet({s[i] : i \in 1..k})
               /\ Cardinality({s[i] : i \in 1..k}) = k
    <2> DEFINE T == {s[i] : i \in 1..k}
               f == [i \in 1..k |-> s[i]]
    <2>1. IsFiniteSet(1..k) /\ Cardinality(1..k) = k
      BY FS_Interval
    <2>2. ExistsBijection(1..k, T)
      <3>1. f \in [1..k -> T] /\ \A t \in T : \E i \in 1..k : f[i] = t
        OBVIOUS
      <3>2. \A i, j \in 1..k : f[i] = f[j] => i = j
        BY <1>1, <1>2
      <3> HIDE DEF T, f
      <3>3. f \in Bijection(1..k, T)
        BY <3>1, <3>2 DEF Bijection, Injection, Surjection, IsInjective
      <3> QED BY <3>3 DEF ExistsBijection
    <2> HIDE DEF T, f
    <2>3. IsFiniteSet(T) /\ Cardinality(T) = k
      BY <2>1, <2>2, FS_CountingElements, FS_NatBijection
    <2> QED BY <2>1, <2>3 DEF T
  <1>4. {j \in ToSet(s) : j <= s[n]} = {s[i] : i \in 1..n}
    <2>1. \A i \in 1..Len(s) : s[i] <= s[n] <=> i <= n
      BY <1>1, <1>2
    <2>2. \A i \in 1..n : i \in 1..Len(s) /\ i <= n
      BY <1>1
    <2>3. \A i \in 1..Len(s) : i <= n => i \in 1..n
      BY <1>1
    <2>4. \A x \in {s[i] : i \in 1..n} : x \in {j \in ToSet(s) : j <= s[n]}
      BY <1>1, <2>1, <2>2
    <2>5. \A x \in {j \in ToSet(s) : j <= s[n]} : x \in {s[i] : i \in 1..n}
      BY <1>1, <2>1, <2>3
    <2> QED BY <2>4, <2>5
  <1>5. IsFiniteSet(ToSet(s)) /\ Cardinality(ToSet(s)) = Len(s)
    <2>1. Len(s) \in 1..Len(s)
      BY <1>1
    <2> QED BY Zenon, <1>1, <1>3, <2>1
  <1> QED BY Zenon, <1>3, <1>4, <1>5

LEMMA DropsOptimizes ==
    ASSUME NEW old, NEW new, Drops(old, new)
    PROVE  Optimizes(old, new)
  <1>1. PICK s \in Seq(Nat) :
          /\ Ascends(s)
          /\ ToSet(s) \subseteq DOMAIN old
          /\ \A id \in DOMAIN old \ ToSet(s) : old[id] = Gone
          /\ new = [n \in 1..Len(s) |-> old[s[n]]]
    BY DEF Drops
  <1> DEFINE S == DOMAIN old \ ToSet(s)
             K == DOMAIN old \ S
             place(id) == Cardinality({j \in K : j <= id})
             c(n) == CHOOSE id \in K : place(id) = n
  <1>2. S \in SUBSET {id \in DOMAIN old : old[id] = Gone}
    BY <1>1
  <1>3. K = ToSet(s)
    BY <1>1
  <1>4. Len(s) \in Nat /\ DOMAIN s = 1..Len(s)
    OBVIOUS
  <1>5. Cardinality(K) = Len(s)
    <2>1. CASE Len(s) = 0
      <3>1. K = {}
        BY <1>3, <1>4, <2>1 DEF ToSet
      <3> HIDE DEF K
      <3> QED BY <2>1, <3>1, FS_EmptySet
    <2>2. CASE Len(s) # 0
      <3>1. 1 \in 1..Len(s)
        BY <1>4, <2>2
      <3> HIDE DEF K
      <3> QED BY Zenon, <1>1, <1>3, <3>1, AscentPlaces
    <2> QED BY <2>1, <2>2
  <1>6. ASSUME NEW n \in 1..Len(s) PROVE s[n] \in K /\ place(s[n]) = n
    <2>1. s[n] \in ToSet(s)
      BY <1>4 DEF ToSet
    <2>2. Cardinality({j \in ToSet(s) : j <= s[n]}) = n
      BY <1>1, AscentPlaces
    <2> HIDE DEF K
    <2> QED BY <1>3, <2>1, <2>2
  <1>7. ASSUME NEW n \in 1..Len(s) PROVE c(n) = s[n]
    <2>1. ASSUME NEW id \in K, place(id) = n PROVE id = s[n]
      <3>1. PICK m \in 1..Len(s) : id = s[m]
        BY <1>3, <1>4 DEF ToSet
      <3> HIDE DEF K, place
      <3>2. place(id) = m
        BY <1>6, <3>1
      <3> QED BY <2>1, <3>1, <3>2
    <2> HIDE DEF K, place
    <2> QED BY <1>6, <2>1
  <1>8. new = [n \in 1..Cardinality(K) |-> old[c(n)]]
    <2> HIDE DEF K, c
    <2> QED BY <1>1, <1>5, <1>7
  <1> USE DEF place, c, Optimizes
  <1> WITNESS S \in SUBSET {id \in DOMAIN old : old[id] = Gone}
  <1> QED BY <1>8

\* What keeps the contents is a step of TableStore.
LEMMA PromiseKept ==
    ASSUME Keeping(TableContent, TableContent')
    PROVE  [Promise!Next]_TableContent
  <1> DEFINE old == TableContent
             new == TableContent'
  <1>1. CASE Grows(old, new)
    <2>1. PICK n \in 1..MaxBatch : \E batch \in [1..n -> AnyRow \cup {Gone}] : new = old \o batch
      BY <1>1 DEF Grows, Entries
    <2>2. PICK batch \in [1..n -> AnyRow \cup {Gone}] : new = old \o batch
      BY Zenon, <2>1
    <2>3. batch \in UNION {[1..m -> AnyRow \cup {Gone}] : m \in 1..MaxBatch}
      OBVIOUS
    <2> QED BY <2>2, <2>3 DEF Promise!Insert, Promise!Next
  <1>2. CASE Replaces(old, new)
    <2>1. PICK id \in DOMAIN old, v \in AnyRow \cup {Gone} : new = [old EXCEPT ![id] = v]
      BY Zenon, <1>2 DEF Replaces, Entries
    <2>2. CASE v \in AnyRow
      BY Zenon, <2>1, <2>2 DEF Promise!Update, Promise!Next
    <2>3. CASE v = Gone
      BY Zenon, <2>1, <2>3 DEF Promise!Delete, Promise!Next
    <2> QED BY <2>1, <2>2, <2>3
  <1>3. CASE Optimizes(old, new)
    <2>1. Promise!Optimize
      BY <1>3, Zenon DEF Optimizes, Promise!Optimize, Promise!Cardinality, Cardinality
    <2> QED BY <2>1 DEF Promise!Next
  <1> QED BY <1>1, <1>2, <1>3 DEF Keeping

-----------------------------------------------------------------------------
(* The row engine.                                                            *)

LEMMA RowKeeps ==
    ASSUME Inv, [Next]_vars
    PROVE  Keeping(Content, Content')
  <1>0. Value \cup {Gone} \subseteq Entries
    BY DEF Entries, AnyRow
  <1>1. CASE Store!Insert
    <2>1. PICK n \in 1..MaxBatch : \E batch \in [1..n -> Value \cup {Gone}] :
            Content' = Content \o batch
      BY <1>1 DEF Store!Insert
    <2>2. PICK batch \in [1..n -> Value \cup {Gone}] : Content' = Content \o batch
      BY Zenon, <2>1
    <2>3. batch \in [1..n -> Entries]
      BY <1>0
    <2>4. Grows(Content, Content')
      BY <2>2, <2>3 DEF Grows
    <2> QED BY <2>4 DEF Keeping
  <1>2. CASE Store!Update
    <2>1. PICK id \in DOMAIN Content, v \in Value : Content' = [Content EXCEPT ![id] = v]
      BY Zenon, <1>2 DEF Store!Update
    <2>2. v \in Entries
      BY <1>0
    <2>3. Replaces(Content, Content')
      BY Zenon, <2>1, <2>2 DEF Replaces
    <2> QED BY <2>3 DEF Keeping
  <1>3. CASE Store!Delete
    <2>1. PICK id \in DOMAIN Content : Content' = [Content EXCEPT ![id] = Gone]
      BY <1>3 DEF Store!Delete
    <2>2. Gone \in Entries
      BY <1>0
    <2>3. Replaces(Content, Content')
      BY Zenon, <2>1, <2>2 DEF Replaces
    <2> QED BY <2>3 DEF Keeping
  <1>4. CASE Store!Optimize
    <2>1. Optimizes(Content, Content')
      BY <1>4, Zenon DEF Optimizes, Store!Optimize, Store!Cardinality, Cardinality
    <2> QED BY <2>1 DEF Keeping
  <1>5. [Store!Next]_Content
    BY RowSteps
  <1> QED BY <1>1, <1>2, <1>3, <1>4, <1>5 DEF Store!Next, Keeping

-----------------------------------------------------------------------------
(* The memory engine.                                                         *)

\* A row is found under its id until it is deleted.
LEMMA MemoryContent ==
    ASSUME Memory!MemoryAssumption, MemoryInv
    PROVE  Memory!Content = val
  <1>1. val \in [1..(nextId - 1) -> Value \cup {Gone}]
    BY DEF MemoryInv, Memory!TypeOK, Memory!Id
  <1>2. ASSUME NEW id \in 1..(nextId - 1)
        PROVE  (IF Memory!Found(id) THEN val[id] ELSE Gone) = val[id]
    <2>1. Memory!Found(id) <=> val[id] # Gone
      BY FoundIs DEF Memory!Linked, Memory!Id
    <2> QED BY <2>1
  <1>3. Memory!Content = [id \in 1..(nextId - 1) |-> IF Memory!Found(id) THEN val[id] ELSE Gone]
    BY DEF Memory!Content, Memory!Id
  <1>4. Memory!Content = [id \in 1..(nextId - 1) |-> val[id]]
    BY <1>2, <1>3
  <1> QED BY <1>1, <1>4

\* Rows that are put into the table, and the id that was lost.
LEMMA MemoryStores ==
    ASSUME Memory!MemoryAssumption, NEW cap, NEW ins \in Seq(Value), NEW lost \in BOOLEAN,
           Memory!Store(cap, ins, lost),
           Len(ins) + (IF lost THEN 1 ELSE 0) \in 1..MaxBatch
    PROVE  Grows(val, val')
  <1> DEFINE more == ins \o IF lost THEN <<Gone>> ELSE <<>>
             n == Len(ins) + (IF lost THEN 1 ELSE 0)
  <1>1. val' = val \o more
    BY DEF Memory!Store
  <1>2. more \in [1..n -> Entries]
    <2>1. ins \in Seq(Entries) /\ Len(ins) \in Nat
      <3>1. Value \subseteq Entries
        BY DEF Entries, AnyRow
      <3> QED BY <3>1
    <2>2. CASE lost
      <3>1. <<Gone>> \in Seq(Entries)
        BY DEF Entries
      <3>2. ASSUME NEW E, NEW p \in Seq(E), NEW q \in Seq(E), Len(q) = 1
            PROVE  p \o q \in [1..(Len(p) + 1) -> E]
        <4> DEFINE r == p \o q
        <4>1. r \in Seq(E) /\ Len(r) = Len(p) + 1
          <5>1. r \in Seq(E)
            OBVIOUS
          <5>2. Len(r) = Len(p) + Len(q)
            OBVIOUS
          <5> QED BY <3>2, <5>1, <5>2
        <4> HIDE DEF r
        <4>2. r \in [1..(Len(p) + 1) -> E]
          BY <4>1
        <4> QED BY <4>2 DEF r
      <3>3. Len(<<Gone>>) = 1
        OBVIOUS
      <3>4. ins \o <<Gone>> \in [1..(Len(ins) + 1) -> Entries]
        BY Zenon, <2>1, <3>1, <3>2, <3>3
      <3> QED BY <2>2, <3>4
    <2>3. CASE ~lost
      <3>1. ASSUME NEW E, NEW p \in Seq(E)
            PROVE  p \o <<>> \in [1..(Len(p) + 0) -> E]
        OBVIOUS
      <3>2. ins \o <<>> \in [1..(Len(ins) + 0) -> Entries]
        BY <2>1, <3>1
      <3> QED BY <2>3, <3>2
    <2> QED BY <2>2, <2>3
  <1> HIDE DEF more
  <1> QED BY Zenon, <1>1, <1>2 DEF Grows

LEMMA MemoryKeeps ==
    ASSUME Memory!MemoryAssumption, MemoryInv, Memory!Next
    PROVE  Keeping(val, val')
  <1>0. MaxBatch \in Nat \ {0} /\ Gone \in Entries /\ Value \subseteq Entries
    BY DEF Memory!MemoryAssumption, Entries, AnyRow
  <1>1. val \in [1..(nextId - 1) -> Value \cup {Gone}]
    BY DEF MemoryInv, Memory!TypeOK, Memory!Id
  <1>2. ASSUME NEW v \in Value, Memory!Insert(v) PROVE Grows(val, val')
    <2>1. \E cap : Memory!Store(cap, <<v>>, FALSE) \/ Memory!Store(cap, <<>>, TRUE)
      BY Zenon, <1>2 DEF Memory!Insert
    <2>2. PICK cap : Memory!Store(cap, <<v>>, FALSE) \/ Memory!Store(cap, <<>>, TRUE)
      BY Zenon, <2>1
    <2>3. <<v>> \in Seq(Value) /\ Len(<<v>>) = 1 /\ <<>> \in Seq(Value) /\ Len(<<>>) = 0
      OBVIOUS
    <2>4. Len(<<v>>) + (IF FALSE THEN 1 ELSE 0) \in 1..MaxBatch
          /\ Len(<<>>) + (IF TRUE THEN 1 ELSE 0) \in 1..MaxBatch
      BY <1>0, <2>3
    <2>5. CASE Memory!Store(cap, <<v>>, FALSE)
      BY Zenon, <2>3, <2>4, <2>5, MemoryStores
    <2>6. CASE Memory!Store(cap, <<>>, TRUE)
      BY Zenon, <2>3, <2>4, <2>6, MemoryStores
    <2> QED BY Zenon, <2>2, <2>5, <2>6
  <1>3. ASSUME NEW n \in 1..MaxBatch, NEW batch \in [1..n -> Value], Memory!BatchInsert(batch)
        PROVE  Grows(val, val')
    <2>1. batch \in Seq(Value) /\ Len(batch) = n /\ n \in Nat
      BY <1>0
    <2>2. \E cap : \/ Memory!Store(cap, batch, FALSE)
                   \/ \E k \in 0..(n - 1) : Memory!Store(cap, SubSeq(batch, 1, k), TRUE)
      BY Zenon, <1>3, <2>1 DEF Memory!BatchInsert
    <2>3. PICK cap : \/ Memory!Store(cap, batch, FALSE)
                     \/ \E k \in 0..(n - 1) : Memory!Store(cap, SubSeq(batch, 1, k), TRUE)
      BY Zenon, <2>2
    <2>4. CASE Memory!Store(cap, batch, FALSE)
      <3>1. Len(batch) + (IF FALSE THEN 1 ELSE 0) \in 1..MaxBatch
        BY <1>0, <2>1
      <3> QED BY Zenon, <2>1, <2>4, <3>1, MemoryStores
    <2>5. ASSUME NEW k \in 0..(n - 1), Memory!Store(cap, SubSeq(batch, 1, k), TRUE)
          PROVE  Grows(val, val')
      <3> DEFINE b == SubSeq(batch, 1, k)
      <3>1. b \in Seq(Value) /\ Len(b) = k /\ k \in Nat
        BY <2>1
      <3> HIDE DEF b
      <3>2. Len(b) + (IF TRUE THEN 1 ELSE 0) \in 1..MaxBatch
        BY <1>0, <2>1, <3>1
      <3>3. Memory!Store(cap, b, TRUE)
        BY Zenon, <2>5 DEF b
      <3> QED BY Zenon, <3>1, <3>2, <3>3, MemoryStores
    <2> QED BY Zenon, <2>3, <2>4, <2>5
  <1>4. ASSUME NEW id \in Memory!Id, Memory!Delete(id) PROVE Replaces(val, val')
    <2>1. val' = [val EXCEPT ![id] = Gone] /\ id \in DOMAIN val
      BY <1>1, <1>4 DEF Memory!Delete, Memory!Id
    <2> QED BY Zenon, <1>0, <2>1 DEF Replaces
  <1>5. ASSUME NEW id \in Memory!Id, NEW v \in Value, Memory!Update(id, v)
        PROVE  Replaces(val, val')
    <2>1. val' = [val EXCEPT ![id] = v] /\ id \in DOMAIN val
      BY <1>1, <1>5 DEF Memory!Update, Memory!Id
    <2> QED BY Zenon, <1>0, <2>1 DEF Replaces
  <1>6. ASSUME Memory!Optimize PROVE val' = val
    BY <1>6 DEF Memory!Optimize
  <1> QED BY <1>2, <1>3, <1>4, <1>5, <1>6 DEF Memory!Next, Keeping

-----------------------------------------------------------------------------
(* The column engine.                                                         *)

\* The values of the row at index i.
Picked(cs, i) == [c \in 1..Columns |-> IF cs[c][i].null THEN Null ELSE cs[c][i].val]

RowAt(cs, i) == IF \A c \in 1..Columns : Picked(cs, i)[c] = Null THEN Gone ELSE Picked(cs, i)

LEMMA ColumnContent == Column!Content = [i \in 1..count |-> RowAt(cells, i)]
  BY DEF Column!Content, Column!Select, Column!Col, RowAt, Picked

LEMMA ColumnContentNext == Column!Content' = [i \in 1..count' |-> RowAt(cells', i)]
  BY DEF Column!Content, Column!Select, Column!Col, RowAt, Picked

\* A row is one of those a table may hold, or gone.
LEMMA RowIsEntry ==
    ASSUME NEW cs, Typed(cs), NEW i, \A c \in 1..Columns : i \in 1..Len(cs[c])
    PROVE  RowAt(cs, i) \in Entries
  <1> DEFINE row == Picked(cs, i)
  <1>1. \A c \in 1..Columns : cs[c][i].val \in Value \cup {Null}
    <2> SUFFICES ASSUME NEW c \in 1..Columns PROVE cs[c][i].val \in Value \cup {Null}
      OBVIOUS
    <2>1. cs[c][i] \in Column!Cell
      BY DEF Typed
    <2> QED BY <2>1 DEF Column!Cell
  <1>2. row = [c \in 1..Columns |-> row[c]] /\ \A c \in 1..Columns : row[c] \in Value \cup {Null}
    BY <1>1 DEF Picked
  <1> HIDE DEF row
  <1>3. row \in Column!RowData
    BY <1>2 DEF Column!RowData, Column!Col
  <1>4. CASE \A c \in 1..Columns : row[c] = Null
    BY <1>4 DEF RowAt, row, Entries
  <1>5. CASE ~(\A c \in 1..Columns : row[c] = Null)
    <2>1. row \in AnyRow
      BY <1>3, <1>5 DEF AnyRow, Column!Col
    <2>2. RowAt(cs, i) = row
      BY <1>5 DEF RowAt, row
    <2> QED BY <2>1, <2>2 DEF Entries
  <1> QED BY <1>4, <1>5

\* Cells that are the same make the same row.
LEMMA SameRow ==
    ASSUME NEW cs, NEW ds, NEW i, NEW j, \A c \in 1..Columns : ds[c][j] = cs[c][i]
    PROVE  RowAt(ds, j) = RowAt(cs, i)
  <1>1. Picked(ds, j) = Picked(cs, i)
    BY DEF Picked
  <1> QED BY <1>1 DEF RowAt

LEMMA ColumnPartsNext ==
    ASSUME ColumnInv', ~dangling'
    PROVE  /\ Typed(cells')
           /\ \A c \in 1..Columns : \A i \in 1..count' : i \in 1..Len(cells'[c])
  <1>1. Typed(cells') /\ capacity' \in Nat /\ count' \in Nat
    BY DEF ColumnInv, Column!TypeOK, Typed, Column!Col
  <1>2. \A c \in 1..Columns : count' <= capacity' /\ capacity' <= Len(cells'[c])
    BY DEF ColumnInv, Aligned
  <1>3. \A c \in 1..Columns : Len(cells'[c]) \in Nat
    BY <1>1 DEF Typed
  <1> QED BY <1>1, <1>2, <1>3

\* Steps that leave the rows there are.
LEMMA ColumnSame ==
    ASSUME count' = count, RowsStay
    PROVE  Keeping(Column!Content, Column!Content')
  <1>1. \A i \in 1..count : RowAt(cells', i) = RowAt(cells, i)
    BY SameRow DEF RowsStay, OthersStay
  <1>2. Column!Content' = Column!Content
    BY <1>1, ColumnContent, ColumnContentNext
  <1> QED BY <1>2 DEF Keeping

\* Steps that change one row.
LEMMA ColumnOne ==
    ASSUME Column!ColumnAssumption, ColumnInv, ColumnInv', ~dangling, ~dangling',
           count' = count, NEW id \in 1..count, OthersStay(id)
    PROVE  Keeping(Column!Content, Column!Content')
  <1>1. count \in Nat
    BY ColumnParts
  <1>2. \A i \in 1..count : i # id => RowAt(cells', i) = RowAt(cells, i)
    BY SameRow DEF RowsStay, OthersStay
  <1>3. RowAt(cells', id) \in Entries
    <2>1. Typed(cells') /\ \A c \in 1..Columns : id \in 1..Len(cells'[c])
      BY ColumnPartsNext
    <2> QED BY <2>1, RowIsEntry
  <1> DEFINE x == RowAt(cells', id)
             old == Column!Content
             new == Column!Content'
  <1>4. /\ old = [i \in 1..count |-> RowAt(cells, i)]
        /\ new = [i \in 1..count |-> RowAt(cells', i)]
    BY ColumnContent, ColumnContentNext
  <1> HIDE DEF old, new
  <1>5. new = [old EXCEPT ![id] = x] /\ id \in DOMAIN old
    BY Zenon, <1>2, <1>4
  <1>6. Replaces(old, new)
    BY Zenon, <1>3, <1>5 DEF Replaces
  <1> QED BY <1>6 DEF Keeping, old, new

\* Steps that put rows behind those there are.
LEMMA ColumnMore ==
    ASSUME Column!ColumnAssumption, ColumnInv, ColumnInv', ~dangling, ~dangling',
           NEW n \in 1..MaxBatch, n \in Nat, count' = count + n, RowsStay
    PROVE  Keeping(Column!Content, Column!Content')
  <1>1. count \in Nat
    BY ColumnParts
  <1>2. \A i \in 1..count : RowAt(cells', i) = RowAt(cells, i)
    BY SameRow DEF RowsStay, OthersStay
  <1>3. ASSUME NEW i \in 1..(count + n) PROVE RowAt(cells', i) \in Entries
    <2>1. Typed(cells') /\ \A c \in 1..Columns : i \in 1..Len(cells'[c])
      BY ColumnPartsNext
    <2> QED BY <2>1, RowIsEntry
  <1> DEFINE old == Column!Content
             new == Column!Content'
             batch == [i \in 1..n |-> RowAt(cells', count + i)]
             all == old \o batch
  <1>4. old = [i \in 1..count |-> RowAt(cells, i)]
        /\ new = [i \in 1..(count + n) |-> RowAt(cells', i)]
    BY ColumnContent, ColumnContentNext
  <1> HIDE DEF old, new
  <1>5. old \in Seq(Entries) /\ Len(old) = count /\ \A i \in 1..count : old[i] = new[i]
    <2>1. \A i \in 1..count : i \in 1..(count + n)
      BY <1>1
    <2>2. \A i \in 1..count : old[i] = new[i] /\ old[i] \in Entries
      BY <1>2, <1>3, <1>4, <2>1
    <2>3. old \in [1..count -> Entries]
      BY <1>4, <2>2
    <2> QED BY <1>1, <2>2, <2>3
  <1>6. batch \in [1..n -> Entries] /\ \A i \in 1..n : batch[i] = new[count + i]
    <2>1. \A i \in 1..n : count + i \in 1..(count + n)
      BY <1>1
    <2> QED BY <1>3, <1>4, <2>1
  <1> HIDE DEF batch
  <1>7. batch \in Seq(Entries) /\ Len(batch) = n
    BY <1>6
  <1>8. /\ all \in Seq(Entries) /\ Len(all) = count + n
        /\ \A i \in 1..count : all[i] = old[i]
        /\ \A i \in 1..n : all[count + i] = batch[i]
    BY <1>1, <1>5, <1>7
  <1> HIDE DEF all
  <1>9. \A i \in 1..(count + n) : all[i] = new[i]
    <2> SUFFICES ASSUME NEW i \in 1..(count + n) PROVE all[i] = new[i]
      OBVIOUS
    <2>1. CASE i <= count
      BY <1>1, <1>5, <1>8, <2>1
    <2>2. CASE i > count
      <3> DEFINE j == i - count
      <3>1. j \in 1..n /\ count + j = i
        BY <1>1, <2>2
      <3> HIDE DEF j
      <3> QED BY <1>6, <1>8, <3>1
    <2> QED BY <1>1, <2>1, <2>2
  <1>10. new = [i \in 1..(count + n) |-> new[i]] /\ count + n \in Nat
    BY <1>1, <1>4
  <1>11. all = new
    BY <1>8, <1>9, <1>10, SameSequence
  <1>12. Grows(old, new)
    BY Zenon, <1>6, <1>11 DEF Grows, all
  <1> QED BY <1>12 DEF Keeping, old, new

\* column_engine_optimize.
LEMMA ColumnDrops ==
    ASSUME Column!ColumnAssumption, ColumnInv, Column!Optimize
    PROVE  Keeping(Column!Content, Column!Content')
  <1> DEFINE s == Column!Kept
             old == Column!Content
             new == Column!Content'
  <1>1. /\ ~dangling /\ count' = Len(s)
        /\ \A c \in 1..Columns : \A i \in 1..Len(s) : cells'[c][i] = cells[c][s[i]]
    BY OptimizeKeeps
  <1>2. /\ count \in Nat /\ Typed(cells) /\ Columns \in Nat \ {0}
        /\ \A c \in 1..Columns : \A i \in 1..count : i \in 1..Len(cells[c])
    BY <1>1, ColumnParts
  <1>3. /\ s \in Seq(1..count) /\ Ascends(s)
        /\ ToSet(s) = {i \in 1..count : ~Column!Deleted(i)}
    BY <1>2, KeptRows
  <1>4. /\ old = [i \in 1..count |-> RowAt(cells, i)]
        /\ new = [i \in 1..Len(s) |-> RowAt(cells', i)]
    BY <1>1, ColumnContent, ColumnContentNext
  <1> HIDE DEF s
  <1>5. s \in Seq(Nat) /\ \A i \in 1..Len(s) : s[i] \in 1..count
    <2>1. \A i \in 1..count : i \in Nat
      OBVIOUS
    <2>2. ASSUME NEW E, NEW F, E \subseteq F, NEW q \in Seq(E)
          PROVE  q \in Seq(F) /\ \A i \in 1..Len(q) : q[i] \in E
      BY <2>2
    <2> QED BY Zenon, <1>3, <2>1, <2>2
  <1>6. \A i \in 1..Len(s) : RowAt(cells', i) = RowAt(cells, s[i])
    BY <1>1, SameRow
  <1> HIDE DEF old, new
  <1>7. new = [i \in 1..Len(s) |-> old[s[i]]]
    BY <1>4, <1>5, <1>6
  <1>8. ASSUME NEW i \in 1..count, i \notin ToSet(s) PROVE RowAt(cells, i) = Gone
    <2>1. Column!Deleted(i)
      BY <1>3, <1>8
    <2>2. \A c \in 1..Columns : cells[c][i].null
      BY <2>1 DEF Column!Deleted, Column!Col
    <2> QED BY <2>2 DEF RowAt, Picked
  <1>9. ToSet(s) \subseteq DOMAIN old /\ \A i \in DOMAIN old \ ToSet(s) : old[i] = Gone
    BY <1>3, <1>4, <1>8
  <1>10. Drops(old, new)
    BY <1>3, <1>5, <1>7, <1>9 DEF Drops
  <1> QED BY <1>10, DropsOptimizes DEF Keeping, old, new

LEMMA ColumnKeeps ==
    ASSUME Column!ColumnAssumption, ColumnInv, Column!Next
    PROVE  Keeping(Column!Content, Column!Content')
  <1>0. MaxBatch \in Nat \ {0}
    BY DEF Column!ColumnAssumption
  <1>1. ASSUME NEW batch, Batch(batch), Len(batch) \in 1..MaxBatch, Len(batch) \in Nat,
               NEW idsLost \in 0..Len(batch), Column!Insertion(batch, idsLost)
        PROVE  Keeping(Column!Content, Column!Content')
    <2>1. /\ ColumnInv' /\ RowsStay /\ ~dangling
          /\ count' = count \/ (count' = count + Len(batch) /\ ~dangling')
      BY <1>1, InsertionKeeps
    <2>2. CASE count' = count
      BY <2>1, <2>2, ColumnSame
    <2>3. CASE count' = count + Len(batch) /\ ~dangling'
      BY <1>1, <2>1, <2>3, ColumnMore
    <2> QED BY <2>1, <2>2, <2>3
  <1>2. ASSUME NEW row \in Column!RowData, Column!Insert(row)
        PROVE  Keeping(Column!Content, Column!Content')
    <2>1. Column!Insertion(<<row>>, 1)
      BY <1>2 DEF Column!Insert
    <2>2. <<row>> \in Seq(Column!RowData) /\ Len(<<row>>) = 1
      OBVIOUS
    <2>3. serial + Len(<<row>>) <= ColumnRows
      BY <2>1 DEF Column!Insertion
    <2>4. Batch(<<row>>) /\ 1 \in 0..Len(<<row>>)
      BY <2>2, <2>3 DEF Batch
    <2>5. Len(<<row>>) \in 1..MaxBatch /\ Len(<<row>>) \in Nat
      BY <1>0, <2>2
    <2> QED BY Zenon, <1>1, <2>1, <2>4, <2>5
  <1>3. ASSUME NEW n \in 1..MaxBatch, NEW batch \in [1..n -> Column!RowData],
               Column!BatchInsert(batch)
        PROVE  Keeping(Column!Content, Column!Content')
    <2>1. Column!Insertion(batch, 0)
      BY <1>3 DEF Column!BatchInsert
    <2>2. batch \in Seq(Column!RowData) /\ Len(batch) = n /\ n \in Nat /\ n >= 1
      BY <1>0
    <2>3. serial + Len(batch) <= ColumnRows
      BY <2>1 DEF Column!Insertion
    <2>4. Batch(batch) /\ 0 \in 0..Len(batch)
      BY <2>2, <2>3 DEF Batch
    <2> QED BY <1>1, <2>1, <2>2, <2>4
  <1>4. ASSUME NEW id \in 1..ColumnRows, Column!Delete(id)
        PROVE  Keeping(Column!Content, Column!Content')
    <2>1. /\ ColumnInv' /\ ~dangling /\ ~dangling' /\ count' = count
          /\ id \in 1..count /\ OthersStay(id)
      BY <1>4, DeleteKeeps
    <2> QED BY <2>1, ColumnOne
  <1>5. ASSUME NEW id \in 1..ColumnRows, NEW row \in Column!RowData, Column!Update(id, row)
        PROVE  Keeping(Column!Content, Column!Content')
    <2>1. /\ ColumnInv' /\ ~dangling /\ ~dangling' /\ count' = count
          /\ id \in 1..count /\ OthersStay(id)
      BY <1>5, UpdateKeeps
    <2> QED BY <2>1, ColumnOne
  <1> QED BY <1>2, <1>3, <1>4, <1>5, ColumnDrops DEF Column!Next

-----------------------------------------------------------------------------
(* The storage layer.                                                         *)

\* The engine that is examined satisfies its invariant; the directory and the
\* indexes, which nothing else writes, theirs.
StorageInv ==
    /\ subject \in {"row", "memory", "column", "directory", "index"}
    /\ subject = "row" => Inv
    /\ subject = "memory" => MemoryInv
    /\ subject = "column" => ColumnInv
    /\ DirectoryInv
    /\ IndexInv
    /\ TreeInv

storageVars == <<subject, vars, countVars, memoryVars, columnVars, directoryVars, indexVars>>

LEMMA StorageConstants ==
    Memory!MemoryAssumption /\ Column!ColumnAssumption /\ Directory!DirectoryAssumption
  BY StorageAssumption

LEMMA StorageBegins ==
    ASSUME StorageInit
    PROVE  StorageInv
  BY StorageConstants, InitInv, MemoryInit, ColumnInit, DirectoryInit, IndexBegins, TreeBegins
     DEF StorageInit, StorageInv, IndexInit

LEMMA MemoryStutters ==
    ASSUME MemoryInv, UNCHANGED <<countVars, memoryVars>>
    PROVE  MemoryInv'
  <1>1. UNCHANGED <<count, nextId, head, nxt, prv, val, uncounted>>
    BY DEF countVars, memoryVars
  <1>2. Memory!TypeOK'
    BY <1>1 DEF MemoryInv, Memory!TypeOK, Memory!Id
  <1>3. Memory!Linked' = Memory!Linked /\ NowTable' = NowTable
    BY <1>1 DEF Memory!Linked, Memory!Id, NowTable
  <1> QED BY <1>1, <1>2, <1>3 DEF MemoryInv

LEMMA ColumnStutters ==
    ASSUME ColumnInv, UNCHANGED <<countVars, columnVars>>
    PROVE  ColumnInv'
  <1>1. UNCHANGED <<count, nextId, cells, capacity, dangling, serial>>
    BY DEF countVars, columnVars
  <1> QED BY <1>1 DEF ColumnInv, Column!TypeOK

LEMMA StorageSteps ==
    ASSUME StorageInv, [StorageNext]_storageVars
    PROVE  StorageInv'
  <1>1. subject' = subject
    BY DEF StorageNext, storageVars
  <1>2. DirectoryInv'
    <2>1. [Directory!Next]_directoryVars
      BY DEF StorageNext, storageVars
    <2> QED BY <2>1, StorageConstants, DirectoryStep DEF StorageInv
  <1>3. IndexInv'
    <2>1. [IndexNext]_indexVars
      BY DEF StorageNext, storageVars
    <2> QED BY <2>1, IndexSteps DEF StorageInv
  <1>4. ASSUME subject = "row" PROVE Inv'
    <2>1. [Next]_vars
      BY <1>4 DEF StorageNext, storageVars
    <2> QED BY <1>4, <2>1, NextInv DEF StorageInv
  <1>5. ASSUME subject = "memory" PROVE MemoryInv'
    <2>1. Memory!Next \/ UNCHANGED <<countVars, memoryVars>>
      BY <1>5 DEF StorageNext, storageVars
    <2> QED BY <1>5, <2>1, StorageConstants, MemoryStep, MemoryStutters DEF StorageInv
  <1>6. ASSUME subject = "column" PROVE ColumnInv'
    <2>1. Column!Next \/ UNCHANGED <<countVars, columnVars>>
      BY <1>6 DEF StorageNext, storageVars
    <2> QED BY <1>6, <2>1, StorageConstants, ColumnStep, ColumnStutters DEF StorageInv
  <1>7. TreeInv'
    <2>1. [IndexNext]_indexVars
      BY DEF StorageNext, storageVars
    <2> QED BY <2>1, TreeNext DEF StorageInv
  <1> QED BY <1>1, <1>2, <1>3, <1>4, <1>5, <1>6, <1>7 DEF StorageInv

LEMMA StorageInvariance == StorageSpec => []StorageInv
  <1>1. StorageInit => StorageInv
    BY StorageBegins
  <1>2. StorageInv /\ [StorageNext]_storageVars => StorageInv'
    BY StorageSteps
  <1> QED BY <1>1, <1>2, PTL DEF StorageSpec, storageVars

\* The state of every engine, of the directory and of the indexes but the R tree is
\* of its type.
THEOREM StorageTypes == StorageSpec => []StorageTypeOK
  <1>1. StorageInv => StorageTypeOK
    <2> SUFFICES ASSUME StorageInv PROVE StorageTypeOK
      OBVIOUS
    <2>1. subject = "row" => TypeOK
      BY DEF StorageInv, Inv
    <2>2. subject = "memory" => Memory!TypeOK
      BY DEF StorageInv, MemoryInv
    <2>3. subject = "column" => Column!TypeOK
      BY DEF StorageInv, ColumnInv
    <2>4. Directory!TypeOK
      BY DEF StorageInv, DirectoryInv
    <2>5. IndexTypeOK
      BY IndexAnswers DEF StorageInv
    <2> QED BY <2>1, <2>2, <2>3, <2>4, <2>5 DEF StorageTypeOK
  <1> QED BY <1>1, StorageInvariance, PTL

\* Every row that is not deleted is on the chain of its bucket once, and no other
\* is on any, through insertions, batches that fail midway, unlinking and rehashing
\* in any order; the count of the rows goes round with the rows of failed batches
\* (memory_engine.c:83-100, 270-334, 417-431).
THEOREM ChainsStaySound == StorageSpec => []ChainsSound
  <1>1. StorageInv => ChainsSound
    BY StorageConstants, MemoryHolds DEF StorageInv, ChainsSound
  <1> QED BY <1>1, StorageInvariance, PTL

\* The columns have the same row at every index, whatever insertion, expansion or
\* update stopped between two of them (column_engine.c:63-107, 308-377, 735-813).
THEOREM ColumnsStayAligned == StorageSpec => []ColumnsAligned
  <1>1. StorageInv => ColumnsAligned
    BY StorageConstants, ColumnHolds DEF StorageInv, ColumnsAligned
  <1> QED BY <1>1, StorageInvariance, PTL

\* The table the directory has under a name is the one its engine answers, after
\* any creations that failed between the two (storage_engine.c:61-97, 146-161).
THEOREM DirectoryStaysInAgreement == StorageSpec => []DirectoryAgreesWithEngines
  <1>1. StorageInv => DirectoryAgreesWithEngines
    BY DirectoryAgrees DEF StorageInv
  <1> QED BY <1>1, StorageInvariance, PTL

\* In the R tree no node is too full, all leaves are equally deep, and no item is
\* there twice; as long as no insertion failed, exactly the items that were inserted
\* are there, and they are counted, through all splits (r_tree.c:102-274, 362-396).
THEOREM TreeStaysSound == StorageSpec => []TreeSound
  <1>1. StorageInv => TreeSound
    BY TreeHolds DEF StorageInv, TreeSound
  <1> QED BY <1>1, StorageInvariance, PTL

\* In each engine, what a step does to the rows of a table is what TableStore says
\* an insertion, an update, a deletion or an optimization does, or nothing.
LEMMA StorageKeeps ==
    ASSUME StorageInv, [StorageNext]_storageVars,
           subject = "memory" => Memory!Content = val,
           subject' = "memory" => Memory!Content' = val'
    PROVE  Keeping(TableContent, TableContent')
  <1>1. subject' = subject /\ subject \in {"row", "memory", "column", "directory", "index"}
    BY DEF StorageNext, storageVars, StorageInv
  <1>2. CASE subject = "row"
    <2>1. [Next]_vars
      BY <1>2 DEF StorageNext, storageVars
    <2>2. Keeping(Content, Content')
      BY <1>2, <2>1, RowKeeps DEF StorageInv
    <2>3. TableContent = Content /\ TableContent' = Content'
      BY <1>1, <1>2 DEF TableContent
    <2> QED BY <2>2, <2>3
  <1>3. CASE subject = "memory"
    <2>1. Memory!Next \/ val' = val
      BY <1>3 DEF StorageNext, storageVars, memoryVars
    <2>2. Keeping(val, val')
      BY <1>3, <2>1, StorageConstants, MemoryKeeps DEF StorageInv, Keeping
    <2>3. TableContent = Memory!Content /\ TableContent' = Memory!Content'
      BY <1>1, <1>3 DEF TableContent
    <2> QED BY <1>1, <1>3, <2>2, <2>3
  <1>4. CASE subject = "column"
    <2>1. Column!Next \/ UNCHANGED <<count, cells>>
      BY <1>4 DEF StorageNext, storageVars, columnVars, countVars
    <2>2. Keeping(Column!Content, Column!Content')
      <3>1. CASE Column!Next
        BY <1>4, <3>1, StorageConstants, ColumnKeeps DEF StorageInv
      <3>2. CASE UNCHANGED <<count, cells>>
        <4>1. RowsStay
          BY <3>2 DEF RowsStay
        <4> QED BY <3>2, <4>1, ColumnSame
      <3> QED BY <2>1, <3>1, <3>2
    <2>3. TableContent = Column!Content /\ TableContent' = Column!Content'
      BY <1>1, <1>4 DEF TableContent
    <2> QED BY <2>2, <2>3
  <1>5. CASE subject \in {"directory", "index"}
    <2>1. TableContent = <<>> /\ TableContent' = <<>>
      BY <1>1, <1>5 DEF TableContent
    <2> QED BY <2>1 DEF Keeping
  <1> QED BY <1>1, <1>2, <1>3, <1>4, <1>5

\* Whatever the engine, a table keeps what TableStore promises of it: rows stay
\* under their numbers until an optimization drops rows that are gone
\* (row_engine.c, memory_engine.c, column_engine.c behind storage_engine.h).
THEOREM EnginesImplement == StorageSpec => EnginesKeepPromise
  <1> DEFINE Lookup == subject = "memory" => Memory!Content = val
  <1>1. StorageInit => Promise!Init
    <2> SUFFICES ASSUME StorageInit PROVE TableContent = <<>>
      BY DEF Promise!Init
    <2>1. Content = <<>>
      BY RowBegins DEF StorageInit
    <2>2. Memory!Content = <<>>
      <3>1. MemoryInv /\ val = <<>>
        BY StorageConstants, MemoryInit DEF StorageInit, Memory!Init
      <3> QED BY <3>1, StorageConstants, MemoryContent
    <2>3. Column!Content = <<>>
      <3>1. count = 0
        BY DEF StorageInit, Column!Init
      <3> QED BY <3>1, ColumnContent
    <2> QED BY <2>1, <2>2, <2>3 DEF TableContent
  <1>2. StorageInv => Lookup
    BY StorageConstants, MemoryContent DEF StorageInv
  <1>3. StorageInv /\ Lookup /\ Lookup' /\ [StorageNext]_storageVars
           => [Promise!Next]_TableContent
    BY StorageKeeps, PromiseKept
  <1> HIDE DEF Lookup
  <1> QED BY <1>1, <1>2, <1>3, StorageInvariance, PTL
             DEF StorageSpec, storageVars, EnginesKeepPromise, Promise!Spec
=============================================================================
