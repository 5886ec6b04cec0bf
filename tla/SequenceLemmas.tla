---------------------------- MODULE SequenceLemmas ----------------------------
(* What the proofs about several components need of numbers and of the        *)
(* operators on sequences: induction without an operator as a parameter,      *)
(* functions defined by recursion, FlattenSeq, SelectInSeq, RemoveAt and      *)
(* SetToSeq, and sequences of entries that have items.                        *)
EXTENDS Integers, Sequences, SequencesExt, WellFoundedInduction, FiniteSetTheorems, TLAPS

-----------------------------------------------------------------------------
(* Induction.                                                                 *)

\* A set of numbers that is not empty has a least one.
LEMMA LeastNumber ==
    ASSUME NEW T \in SUBSET Nat, T # {}
    PROVE  \E x \in T : \A y \in T : x <= y
  <1> DEFINE R == {ss \in Nat \X Nat : ss[1] < ss[2]}
  <1>1. IsWellFoundedOn(R, Nat)
    BY NatLessThanWellFounded DEF OpToRel
  <1> HIDE DEF R
  <1>2. PICK x \in T : \A y \in T : <<y, x>> \notin R
    BY <1>1, WFMin
  <1>3. \A y \in T : ~(y < x)
    BY <1>2 DEF R
  <1>4. QED
    BY <1>3

\* Induction from 0 to n: what is to hold of a number is that it is in T.
LEMMA UpTo ==
    ASSUME NEW n \in Nat, NEW T, 0 \in T,
           \A m \in 0..n : m \in T /\ m # n => m + 1 \in T
    PROVE  \A m \in 0..n : m \in T
  <1> DEFINE Bad == {m \in 0..n : m \notin T}
  <1> SUFFICES ASSUME Bad # {} PROVE FALSE
    OBVIOUS
  <1>1. PICK m \in Bad : \A y \in Bad : m <= y
    <2>1. Bad \in SUBSET Nat
      OBVIOUS
    <2> HIDE DEF Bad
    <2> QED BY <2>1, LeastNumber
  <1>2. m \in 0..n /\ m \notin T /\ m # 0
    BY <1>1
  <1>3. m - 1 \in 0..n /\ m - 1 # n
    BY <1>2
  <1>4. m - 1 \in T
    BY <1>1, <1>2, <1>3
  <1>5. (m - 1) + 1 \in T
    BY <1>3, <1>4
  <1> QED BY <1>2, <1>5

\* step[i] takes members of D to members of D.
IsStep(step, n, D) == \A i \in 1..n, d \in D : step[i][d] \in D

\* f[i] is what i steps make of base.
IsFold(f, base, step, n, D) ==
    f \in [0..n -> D] /\ f[0] = base /\ \A i \in 1..n : f[i] = step[i][f[i - 1]]

\* There is a function with the values a recursion gives it.
LEMMA Recursion ==
    ASSUME NEW D, NEW n \in Nat, NEW base \in D, NEW step, IsStep(step, n, D)
    PROVE  \E f : IsFold(f, base, step, n, D)
  <1> DEFINE T == {m \in 0..n : \E f : IsFold(f, base, step, m, D)}
  <1>1. 0 \in T
    <2> DEFINE f == [i \in 0..0 |-> base]
    <2>1. IsFold(f, base, step, 0, D)
      BY DEF IsFold
    <2> QED BY <2>1
  <1>2. ASSUME NEW m \in 0..n, m \in T, m # n
        PROVE  m + 1 \in T
    <2>1. PICK f : IsFold(f, base, step, m, D)
      BY <1>2
    <2> DEFINE next == step[m + 1][f[m]]
               g == [i \in 0..(m + 1) |-> IF i = m + 1 THEN next ELSE f[i]]
    <2>2. m + 1 \in 1..n /\ f[m] \in D
      BY <1>2, <2>1 DEF IsFold
    <2>3. next \in D
      BY <2>2 DEF IsStep
    <2> HIDE DEF next
    <2>4. g \in [0..(m + 1) -> D] /\ g[0] = base
      BY <2>1, <2>3 DEF IsFold
    <2>5. ASSUME NEW i \in 1..(m + 1)
          PROVE  g[i] = step[i][g[i - 1]]
      <3>1. CASE i = m + 1
        BY <3>1 DEF next
      <3>2. CASE i # m + 1
        BY <3>2, <2>1 DEF IsFold
      <3> QED BY <3>1, <3>2
    <2> HIDE DEF g
    <2>6. IsFold(g, base, step, m + 1, D)
      BY <2>4, <2>5 DEF IsFold
    <2> QED BY <2>2, <2>6
  <1>3. \A m \in 0..n : m \in T
    <2> HIDE DEF T
    <2> QED BY <1>1, <1>2, UpTo
  <1> QED BY <1>3

-----------------------------------------------------------------------------
(* FlattenSeq.                                                                *)

\* f[i] is what FlattenSeq has of the first i sequences of s.
IsFlatten(f, s, X) ==
    /\ f \in [0..Len(s) -> Seq(X)]
    /\ f[0] = <<>>
    /\ \A i \in 1..Len(s) : f[i] = f[i - 1] \o s[i]

\* FlattenSeq puts the sequences one after the other.
LEMMA FlattenSteps ==
    ASSUME NEW X, NEW s \in Seq(Seq(X))
    PROVE  \E f : IsFlatten(f, s, X) /\ FlattenSeq(s) = f[Len(s)]
  <1> DEFINE n == Len(s)
             D == Seq(X)
             step == [i \in 1..n |-> [d \in D |-> d \o s[i]]]
             Step(f, i) == IF i = 1 THEN s[i] ELSE f[i - 1] \o s[i]
             F == CHOOSE f : f = [i \in 1..n |-> Step(f, i)]
  <1>1. n \in Nat /\ <<>> \in D /\ \A i \in 1..n : s[i] \in D
    OBVIOUS
  <1>2. \A d, e \in D : d \o e \in D /\ <<>> \o d = d
    OBVIOUS
  <1>3. FlattenSeq(s) = IF n = 0 THEN s ELSE F[n]
    BY DEF FlattenSeq
  <1>4. n = 0 => s = <<>>
    OBVIOUS
  <1> HIDE DEF n, D
  <1>5. IsStep(step, n, D)
    BY <1>1, <1>2 DEF IsStep
  <1>6. PICK f \in [0..n -> D] : f[0] = <<>> /\ \A i \in 1..n : f[i] = step[i][f[i - 1]]
    <2>1. \E f : IsFold(f, <<>>, step, n, D)
      <3> HIDE DEF step
      <3> QED BY <1>1, <1>5, Recursion
    <2> QED BY <2>1 DEF IsFold
  <1>7. ASSUME NEW i \in 1..n
        PROVE  f[i] = f[i - 1] \o s[i]
    <2>1. f[i - 1] \in D
      BY <1>1, <1>6
    <2> QED BY <2>1, <1>6
  <1>8. ASSUME n # 0
        PROVE  F[n] = f[n]
    <2> DEFINE g == [i \in 1..n |-> f[i]]
    <2>1. ASSUME NEW i \in 1..n
          PROVE  g[i] = Step(g, i)
      <3>1. CASE i = 1
        <4>1. 1 \in 1..n /\ 1 - 1 = 0
          BY <3>1
        <4>2. g[1] = f[1]
          BY <4>1
        <4>3. f[1] = f[1 - 1] \o s[1]
          BY <1>7, <4>1
        <4>4. f[1 - 1] = <<>> /\ s[1] \in D
          BY <1>1, <1>6, <4>1
        <4> HIDE DEF g
        <4> QED BY <1>2, <3>1, <4>2, <4>3, <4>4
      <3>2. CASE i # 1
        <4>1. i - 1 \in 1..n
          BY <3>2, <1>1
        <4>2. g[i] = f[i] /\ g[i - 1] = f[i - 1]
          BY <4>1
        <4> HIDE DEF g
        <4> QED BY <3>2, <4>2, <1>7
      <3> QED BY <3>1, <3>2
    <2>2. g = [i \in 1..n |-> Step(g, i)]
      BY <2>1
    <2>3. F = [i \in 1..n |-> Step(F, i)]
      BY <2>2
    <2> HIDE DEF F
    <2> DEFINE T == {m \in 0..n : m # 0 => F[m] = f[m]}
    <2>4. ASSUME NEW m \in 0..n, m \in T, m # n
          PROVE  m + 1 \in T
      <3>1. m + 1 \in 1..n /\ (m + 1) - 1 = m
        BY <2>4, <1>1
      <3>2. F[m + 1] = Step(F, m + 1)
        BY <3>1, <2>3
      <3>5. f[m + 1] = f[m] \o s[m + 1]
        BY <3>1, <1>7
      <3>3. CASE m = 0
        BY <3>1, <3>2, <3>5, <3>3, <1>1, <1>2, <1>6
      <3>4. CASE m # 0
        <4>1. m + 1 # 1
          BY <2>4, <3>4
        <4>2. F[m + 1] = F[(m + 1) - 1] \o s[m + 1]
          BY <3>2, <4>1
        <4>3. F[m + 1] = F[m] \o s[m + 1]
          BY <3>1, <4>2
        <4>4. F[m] = f[m]
          BY <2>4, <3>4
        <4>5. F[m + 1] = f[m + 1]
          BY <4>3, <4>4, <3>5
        <4> QED BY <4>5, <3>1
      <3> QED BY <3>3, <3>4
    <2>5. n \in T
      <3>1. 0 \in T
        BY <1>1
      <3> HIDE DEF T
      <3>2. \A m \in 0..n : m \in T
        BY <3>1, <2>4, <1>1, UpTo
      <3> QED BY <3>2, <1>1
    <2> QED BY <2>5, <1>8
  <1>9. FlattenSeq(s) = f[n]
    BY <1>3, <1>4, <1>6, <1>8
  <1> QED BY <1>6, <1>7, <1>9 DEF n, D, IsFlatten

\* s and t begin with the same n sequences.
AgreeUpTo(s, t, n) == n <= Len(s) /\ n <= Len(t) /\ \A i \in 1..n : s[i] = t[i]

\* What comes first does not depend on what comes later.
LEMMA FlattenAgrees ==
    ASSUME NEW X, NEW s \in Seq(Seq(X)), NEW t \in Seq(Seq(X)), NEW f, NEW g,
           IsFlatten(f, s, X), IsFlatten(g, t, X),
           NEW n \in Nat, AgreeUpTo(s, t, n)
    PROVE  \A m \in 0..n : f[m] = g[m]
  <1> DEFINE T == {m \in 0..n : f[m] = g[m]}
  <1>1. 0 \in T
    BY DEF IsFlatten
  <1>2. ASSUME NEW m \in 0..n, m \in T, m # n
        PROVE  m + 1 \in T
    <2>1. m + 1 \in 1..n /\ m + 1 \in 1..Len(s) /\ m + 1 \in 1..Len(t) /\ (m + 1) - 1 = m
      BY <1>2 DEF AgreeUpTo
    <2>2. f[m + 1] = f[m] \o s[m + 1] /\ g[m + 1] = g[m] \o t[m + 1]
      BY <2>1 DEF IsFlatten
    <2>3. f[m] = g[m] /\ s[m + 1] = t[m + 1]
      BY <1>2, <2>1 DEF AgreeUpTo
    <2>4. f[m + 1] = g[m + 1]
      BY <2>2, <2>3
    <2> QED BY <2>1, <2>4
  <1>3. \A m \in 0..n : m \in T
    <2> HIDE DEF T
    <2> QED BY <1>1, <1>2, UpTo
  <1> QED BY <1>3

\* One more sequence at the end.
LEMMA FlattenAppend ==
    ASSUME NEW X, NEW s \in Seq(Seq(X)), NEW e \in Seq(X)
    PROVE  FlattenSeq(Append(s, e)) = FlattenSeq(s) \o e
  <1> DEFINE t == Append(s, e)
             n == Len(s)
  <1>1. /\ t \in Seq(Seq(X)) /\ Len(t) = n + 1 /\ n \in Nat /\ t[n + 1] = e
        /\ \A i \in 1..n : s[i] = t[i]
    OBVIOUS
  <1>2. PICK f : IsFlatten(f, s, X) /\ FlattenSeq(s) = f[n]
    BY FlattenSteps
  <1> HIDE DEF t
  <1>3. PICK g : IsFlatten(g, t, X) /\ FlattenSeq(t) = g[Len(t)]
    BY <1>1, FlattenSteps
  <1>4. f[n] = g[n]
    <2>1. AgreeUpTo(s, t, n)
      BY <1>1 DEF AgreeUpTo
    <2>2. \A m \in 0..n : f[m] = g[m]
      BY <1>1, <1>2, <1>3, <2>1, FlattenAgrees
    <2> QED BY <2>2, <1>1
  <1>5. n + 1 \in 1..Len(t) /\ (n + 1) - 1 = n
    BY <1>1
  <1>6. g[n + 1] = g[n] \o t[n + 1]
    BY <1>3, <1>5 DEF IsFlatten
  <1> QED BY <1>1, <1>2, <1>3, <1>4, <1>6 DEF t

\* One of the sequences grows, and those after it are empty.
GrowsAt(t, s, k, x) ==
    /\ t = [s EXCEPT ![k] = Append(@, x)]
    /\ \A j \in DOMAIN s : j > k => s[j] = <<>>

\* Appending to one element of a sequence of sequences, all later ones empty, appends
\* to the concatenation of them all.
LEMMA FlattenGrows ==
    ASSUME NEW X, NEW s \in Seq(Seq(X)), NEW k \in DOMAIN s, NEW x \in X,
           NEW t, GrowsAt(t, s, k, x)
    PROVE  FlattenSeq(t) = Append(FlattenSeq(s), x)
  <1> DEFINE n == Len(s)
  <1>0. t = [s EXCEPT ![k] = Append(@, x)] /\ \A j \in DOMAIN s : j > k => s[j] = <<>>
    BY DEF GrowsAt
  <1>9. n \in Nat
    OBVIOUS
  <1>1. /\ t \in Seq(Seq(X)) /\ Len(t) = n /\ n \in Nat /\ k \in 1..n
        /\ DOMAIN s = 1..n /\ t[k] = Append(s[k], x) /\ s[k] \in Seq(X)
        /\ \A i \in 1..n : i # k => s[i] = t[i]
    BY <1>0
  <1>2. PICK f : IsFlatten(f, s, X) /\ FlattenSeq(s) = f[n]
    BY FlattenSteps
  <1>3. PICK g : IsFlatten(g, t, X) /\ FlattenSeq(t) = g[Len(t)]
    BY <1>1, FlattenSteps
  <1>4. f[k - 1] = g[k - 1]
    <2>1. k - 1 \in Nat /\ AgreeUpTo(s, t, k - 1)
      BY <1>1 DEF AgreeUpTo
    <2>2. IsFlatten(f, s, X) /\ IsFlatten(g, t, X) /\ t \in Seq(Seq(X))
      BY <1>1, <1>2, <1>3
    <2>3. \A m \in 0..(k - 1) : f[m] = g[m]
      BY <2>1, <2>2, FlattenAgrees
    <2>4. k - 1 \in 0..(k - 1)
      BY <2>1
    <2> QED BY <2>3, <2>4
  <1> DEFINE T == {m \in 0..n : m >= k => g[m] = Append(f[m], x)}
  <1>5. g[k] = Append(f[k], x)
    <2>4. k - 1 \in 0..n
      BY <1>1
    <2>1. f[k] = f[k - 1] \o s[k] /\ g[k] = g[k - 1] \o t[k] /\ f[k - 1] \in Seq(X)
      BY <2>4, <1>1, <1>2, <1>3 DEF IsFlatten
    <2>2. g[k] = f[k - 1] \o Append(s[k], x)
      BY <2>1, <1>1, <1>4
    <2>3. \A p, q \in Seq(X) : p \o Append(q, x) = Append(p \o q, x)
      OBVIOUS
    <2> QED BY <2>1, <2>2, <2>3, <1>1
  <1>6. ASSUME NEW m \in 0..n, m \in T, m # n
        PROVE  m + 1 \in T
    <2>1. m + 1 \in 1..n /\ (m + 1) - 1 = m /\ m + 1 \in 0..n
      BY <1>6, <1>9
    <2>2. CASE m + 1 = k
      BY <1>5, <2>1, <2>2
    <2>3. CASE m + 1 < k
      BY <2>1, <2>3, <1>9
    <2>4. CASE m + 1 > k
      <3>1. f[m + 1] = f[m] \o s[m + 1] /\ g[m + 1] = g[m] \o t[m + 1]
        BY <1>1, <1>2, <1>3, <2>1 DEF IsFlatten
      <3>2. s[m + 1] = <<>> /\ t[m + 1] = <<>>
        <4>1. m + 1 \in DOMAIN s /\ m + 1 # k
          BY <1>1, <2>1, <2>4
        <4>2. s[m + 1] = <<>>
          BY <4>1, <2>4, <1>0
        <4> QED BY <4>1, <4>2, <2>1, <1>1
      <3>3. f[m] \in Seq(X) /\ g[m] \in Seq(X)
        BY <1>1, <1>2, <1>3, <2>1 DEF IsFlatten
      <3>6. m >= k
        BY <1>1, <2>1, <2>4
      <3>4. f[m + 1] = f[m] /\ g[m + 1] = g[m]
        BY <3>1, <3>2, <3>3
      <3>5. g[m] = Append(f[m], x)
        BY <1>6, <3>6
      <3> QED BY <2>1, <3>4, <3>5
    <2>5. m + 1 = k \/ m + 1 < k \/ m + 1 > k
      <3>1. k \in Nat /\ m + 1 \in Nat
        BY <2>1, <1>1
      <3> QED BY <3>1
    <2> QED BY <2>2, <2>3, <2>4, <2>5
  <1>7. n \in T
    <2>1. 0 \in T
      BY <1>1
    <2> HIDE DEF T
    <2>2. \A m \in 0..n : m \in T
      BY <1>1, <1>6, <2>1, UpTo
    <2> QED BY <2>2, <1>1
  <1> QED BY <1>1, <1>2, <1>3, <1>7

\* The elements of a concatenation are those of its parts.
LEMMA ConcatElements ==
    ASSUME NEW X, NEW p \in Seq(X), NEW q \in Seq(X)
    PROVE  ToSet(p \o q) = ToSet(p) \cup ToSet(q)
  <1>1. ASSUME NEW i \in DOMAIN p
        PROVE  i \in DOMAIN (p \o q) /\ (p \o q)[i] = p[i]
    OBVIOUS
  <1>2. ASSUME NEW i \in DOMAIN q
        PROVE  Len(p) + i \in DOMAIN (p \o q) /\ (p \o q)[Len(p) + i] = q[i]
    OBVIOUS
  <1>3. ASSUME NEW i \in DOMAIN (p \o q)
        PROVE  \/ i \in DOMAIN p /\ (p \o q)[i] = p[i]
               \/ i - Len(p) \in DOMAIN q /\ (p \o q)[i] = q[i - Len(p)]
    OBVIOUS
  <1>4. ASSUME NEW x \in ToSet(p \o q)
        PROVE  x \in ToSet(p) \cup ToSet(q)
    <2>1. PICK i \in DOMAIN (p \o q) : x = (p \o q)[i]
      BY DEF ToSet
    <2> QED BY <2>1, <1>3 DEF ToSet
  <1>5. ASSUME NEW i \in DOMAIN p
        PROVE  p[i] \in ToSet(p \o q)
    BY <1>1 DEF ToSet
  <1>6. ASSUME NEW i \in DOMAIN q
        PROVE  q[i] \in ToSet(p \o q)
    BY <1>2 DEF ToSet
  <1> QED BY <1>4, <1>5, <1>6 DEF ToSet

\* The elements of the first n sequences of s.
ElementsUpTo(s, n) == UNION {ToSet(s[k]) : k \in 1..n}

\* The elements are those of the sequences.
LEMMA FlattenElements ==
    ASSUME NEW X, NEW s \in Seq(Seq(X)), NEW f, IsFlatten(f, s, X)
    PROVE  \A m \in 0..Len(s) : ToSet(f[m]) = ElementsUpTo(s, m)
  <1> DEFINE n == Len(s)
             T == {m \in 0..n : ToSet(f[m]) = ElementsUpTo(s, m)}
  <1>1. n \in Nat /\ \A k \in 1..n : s[k] \in Seq(X)
    OBVIOUS
  <1>2. 0 \in T
    BY DEF IsFlatten, ElementsUpTo, ToSet
  <1>3. ASSUME NEW m \in 0..n, m \in T, m # n
        PROVE  m + 1 \in T
    <2>1. m + 1 \in 1..n /\ (m + 1) - 1 = m /\ m + 1 \in 0..n
      BY <1>3, <1>1
    <2>2. f[m + 1] = f[m] \o s[m + 1] /\ f[m] \in Seq(X) /\ s[m + 1] \in Seq(X)
      BY <2>1, <1>1 DEF IsFlatten
    <2>3. ToSet(f[m + 1]) = ToSet(f[m]) \cup ToSet(s[m + 1])
      BY <2>2, ConcatElements
    <2>4. 1..(m + 1) = (1..m) \cup {m + 1}
      BY <2>1
    <2>5. ElementsUpTo(s, m + 1) = ElementsUpTo(s, m) \cup ToSet(s[m + 1])
      BY <2>4 DEF ElementsUpTo
    <2>6. ToSet(f[m]) = ElementsUpTo(s, m)
      BY <1>3
    <2> QED BY <2>1, <2>3, <2>5, <2>6
  <1>4. \A m \in 0..n : m \in T
    <2> HIDE DEF T
    <2> QED BY <1>1, <1>2, <1>3, UpTo
  <1> QED BY <1>4

\* Sequences of numbers that ascend, each above those before it.
Ascends(q) == \A i, j \in DOMAIN q : i < j => q[i] < q[j]
AscendTogether(s) ==
    \A k \in DOMAIN s :
       /\ Ascends(s[k])
       /\ \A l \in DOMAIN s : k < l => \A x \in ToSet(s[k]), y \in ToSet(s[l]) : x < y

\* One more element.
LEMMA AppendElements ==
    ASSUME NEW X, NEW p \in Seq(X), NEW x \in X
    PROVE  ToSet(Append(p, x)) = ToSet(p) \cup {x}
  <1>1. DOMAIN Append(p, x) = (DOMAIN p) \cup {Len(p) + 1}
    OBVIOUS
  <1>2. \A i \in DOMAIN p : Append(p, x)[i] = p[i]
    OBVIOUS
  <1>3. Append(p, x)[Len(p) + 1] = x
    OBVIOUS
  <1> QED BY <1>1, <1>2, <1>3 DEF ToSet

\* A number past all elements may be appended to an ascending sequence.
LEMMA AppendAscends ==
    ASSUME NEW p \in Seq(Nat), NEW x \in Nat, Ascends(p), \A y \in ToSet(p) : y < x
    PROVE  Ascends(Append(p, x))
  <1>1. \A i \in DOMAIN p : p[i] < x
    BY DEF ToSet
  <1> QED BY <1>1 DEF Ascends

\* Ascending sequences put one after the other.
LEMMA ConcatAscends ==
    ASSUME NEW p \in Seq(Nat), NEW q \in Seq(Nat), Ascends(p), Ascends(q),
           \A x \in ToSet(p), y \in ToSet(q) : x < y
    PROVE  Ascends(p \o q)
  <1> SUFFICES ASSUME NEW i \in DOMAIN (p \o q), NEW j \in DOMAIN (p \o q), i < j
               PROVE  (p \o q)[i] < (p \o q)[j]
    BY DEF Ascends
  <1>1. CASE j \in DOMAIN p
    <2>1. i \in DOMAIN p /\ (p \o q)[i] = p[i] /\ (p \o q)[j] = p[j]
      BY <1>1
    <2> QED BY <1>1, <2>1 DEF Ascends
  <1>2. CASE j \notin DOMAIN p /\ i \in DOMAIN p
    <2>1. (p \o q)[i] = p[i] /\ (p \o q)[j] = q[j - Len(p)] /\ j - Len(p) \in DOMAIN q
      BY <1>2
    <2>2. p[i] \in ToSet(p) /\ q[j - Len(p)] \in ToSet(q)
      BY <1>2, <2>1 DEF ToSet
    <2> QED BY <2>1, <2>2
  <1>3. CASE j \notin DOMAIN p /\ i \notin DOMAIN p
    <2> DEFINE a == i - Len(p)
               b == j - Len(p)
    <2>1. a \in DOMAIN q /\ b \in DOMAIN q /\ (p \o q)[i] = q[a] /\ (p \o q)[j] = q[b] /\ a < b
      BY <1>3
    <2> HIDE DEF a, b
    <2> QED BY <2>1 DEF Ascends
  <1> QED BY <1>1, <1>2, <1>3

\* Ascending sequences, each past those before it, ascend when concatenated.
LEMMA FlattenAscends ==
    ASSUME NEW s \in Seq(Seq(Nat)), AscendTogether(s)
    PROVE  Ascends(FlattenSeq(s))
  <1> DEFINE n == Len(s)
  <1>0. n \in Nat
    OBVIOUS
  <1>1. n \in Nat /\ DOMAIN s = 1..n /\ \A k \in 1..n : s[k] \in Seq(Nat)
    OBVIOUS
  <1>2. PICK f : IsFlatten(f, s, Nat) /\ FlattenSeq(s) = f[n]
    BY FlattenSteps
  <1> DEFINE T == {m \in 0..n : Ascends(f[m])}
  <1>3. 0 \in T
    BY <1>1, <1>2 DEF IsFlatten, Ascends
  <1>4. ASSUME NEW m \in 0..n, m \in T, m # n
        PROVE  m + 1 \in T
    <2>1. m + 1 \in 1..n /\ (m + 1) - 1 = m /\ m + 1 \in 0..n
      BY <1>4, <1>0
    <2>2. f[m + 1] = f[m] \o s[m + 1] /\ f[m] \in Seq(Nat) /\ s[m + 1] \in Seq(Nat)
      BY <2>1, <1>1, <1>2 DEF IsFlatten
    <2>3. Ascends(f[m]) /\ Ascends(s[m + 1])
      BY <1>4, <2>1, <1>1 DEF AscendTogether
    <2>4. ASSUME NEW x \in ToSet(f[m]), NEW y \in ToSet(s[m + 1])
          PROVE  x < y
      <3>1. x \in ElementsUpTo(s, m)
        BY <1>1, <1>2, FlattenElements
      <3>2. PICK k \in 1..m : x \in ToSet(s[k])
        BY <3>1 DEF ElementsUpTo
      <3>3. k \in DOMAIN s /\ m + 1 \in DOMAIN s /\ k < m + 1
        BY <2>1, <1>1
      <3> QED BY <3>2, <3>3 DEF AscendTogether
    <2>6. Ascends(f[m + 1])
      BY <2>2, <2>3, <2>4, ConcatAscends
    <2> QED BY <2>1, <2>6
  <1>5. n \in T
    <2> HIDE DEF T
    <2>1. \A m \in 0..n : m \in T
      BY <1>1, <1>3, <1>4, UpTo
    <2> QED BY <2>1, <1>1
  <1> QED BY <1>2, <1>5

-----------------------------------------------------------------------------
(* SelectInSeq, which gives the least index of a set of them.                 *)

\* The least number of a set that is not empty.
LEMMA MinIsLeast ==
    ASSUME NEW T \in SUBSET Nat, T # {}
    PROVE  Min(T) \in T /\ \A y \in T : Min(T) <= y
  BY LeastNumber DEF Min

-----------------------------------------------------------------------------
(* RemoveAt and SetToSeq.                                                     *)

\* An element is taken out, and those after it move up.
LEMMA RemoveAtSkips ==
    ASSUME NEW E, NEW s \in Seq(E), NEW k \in DOMAIN s
    PROVE  /\ RemoveAt(s, k) \in Seq(E) /\ Len(RemoveAt(s, k)) = Len(s) - 1
           /\ \A i \in 1..(Len(s) - 1) : /\ i < k => RemoveAt(s, k)[i] = s[i]
                                         /\ i >= k => RemoveAt(s, k)[i] = s[i + 1]
  <1> DEFINE n == Len(s)
             p == SubSeq(s, 1, k - 1)
             q == SubSeq(s, k + 1, n)
  <1>1. n \in Nat /\ k \in 1..n
    OBVIOUS
  <1>2. p \in Seq(E) /\ Len(p) = k - 1 /\ \A i \in 1..(k - 1) : p[i] = s[i]
    BY <1>1
  <1>3. q \in Seq(E) /\ Len(q) = n - k /\ \A i \in 1..(n - k) : q[i] = s[k + i]
    BY <1>1
  <1>6. Len(p) = k - 1 /\ Len(q) = n - k
    BY <1>2, <1>3
  <1> HIDE DEF p, q
  <1>4. p \o q \in Seq(E) /\ Len(p \o q) = n - 1
    BY <1>1, <1>2, <1>3
  <1>5. ASSUME NEW i \in 1..(n - 1)
        PROVE  (i < k => (p \o q)[i] = s[i]) /\ (i >= k => (p \o q)[i] = s[i + 1])
    <2>1. CASE i < k
      <3>1. i \in 1..Len(p) /\ (p \o q)[i] = p[i]
        BY <1>1, <1>2, <1>3, <2>1
      <3> QED BY <1>1, <1>2, <2>1, <3>1
    <2>2. CASE i >= k
      <3>1. i - (k - 1) \in 1..(n - k) /\ k + (i - (k - 1)) = i + 1
        BY <1>1, <2>2
      <3>3. Len(p) = k - 1 /\ i \in (Len(p) + 1)..(Len(p) + Len(q))
        <4> HIDE DEF n
        <4> QED BY <1>1, <1>6, <2>2
      <3>4. \A j \in (Len(p) + 1)..(Len(p) + Len(q)) : (p \o q)[j] = q[j - Len(p)]
        <4>1. p \in Seq(E) /\ q \in Seq(E)
          BY <1>2, <1>3
        <4> QED BY <4>1
      <3>2. (p \o q)[i] = q[i - (k - 1)]
        BY <3>3, <3>4
      <3>5. q[i - (k - 1)] = s[k + (i - (k - 1))]
        BY <1>3, <3>1
      <3>6. (p \o q)[i] = s[i + 1] /\ ~(i < k)
        <4>1. k + (i - (k - 1)) = i + 1 /\ ~(i < k)
          BY <1>1, <2>2
        <4> HIDE DEF n
        <4> QED BY <3>2, <3>5, <4>1
      <3> QED BY <3>6
    <2>3. i < k \/ i >= k
      BY <1>1
    <2> QED BY <2>1, <2>2, <2>3
  <1> QED BY <1>4, <1>5 DEF RemoveAt, p, q

\* A finite set as a sequence: its elements, each once.
LEMMA SetToSeqLists ==
    ASSUME NEW S, IsFiniteSet(S)
    PROVE  /\ SetToSeq(S) \in Seq(S)
           /\ \A i, j \in DOMAIN SetToSeq(S) : SetToSeq(S)[i] = SetToSeq(S)[j] => i = j
           /\ ToSet(SetToSeq(S)) = S
  <1> DEFINE n == Cardinality(S)
             q == SetToSeq(S)
  <1>1. n \in Nat /\ ExistsBijection(1..n, S)
    BY FS_CardinalityType
  <1>2. \E f \in [1..n -> S] : IsInjective(f)
    BY <1>1 DEF ExistsBijection, Bijection, Injection
  <1>3. q \in [1..n -> S] /\ IsInjective(q)
    BY <1>2 DEF SetToSeq
  <1> HIDE DEF q
  <1>4. q \in Injection(1..n, S)
    BY <1>3 DEF Injection
  <1>5. Cardinality(1..n) = n
    BY <1>1, FS_Interval
  <1>6. q \in Surjection(1..n, S)
    BY <1>4, <1>5, FS_Injection
  <1>7. \A x \in S : \E i \in 1..n : q[i] = x
    BY <1>6 DEF Surjection
  <1>8. q \in Seq(S) /\ ToSet(q) = S /\ \A i, j \in DOMAIN q : q[i] = q[j] => i = j
    <2> HIDE DEF n
    <2> QED BY <1>1, <1>3, <1>7 DEF ToSet, IsInjective
  <1> QED BY <1>8 DEF q

-----------------------------------------------------------------------------
(* FoldLeft.                                                                  *)

\* The greatest number of a finite set that is not empty.
LEMMA MaxIsGreatest ==
    ASSUME NEW n \in Nat, NEW s \in SUBSET (1..n), s # {}
    PROVE  Max(s) \in s /\ \A y \in s : y <= Max(s)
  <1> DEFINE U == {n - x : x \in s}
  <1>1. U \in SUBSET Nat /\ U # {}
    <2>1. \A x \in s : n - x \in Nat
      OBVIOUS
    <2> QED BY <2>1
  <1>2. PICK u \in U : \A v \in U : u <= v
    <2> HIDE DEF U
    <2> QED BY <1>1, LeastNumber
  <1>3. PICK x \in s : u = n - x
    BY <1>2
  <1>4. \A y \in s : y <= x
    <2> SUFFICES ASSUME NEW y \in s PROVE y <= x
      OBVIOUS
    <2>1. n - y \in U /\ y \in 1..n /\ x \in 1..n
      BY <1>3
    <2>2. n - x <= n - y
      BY <1>2, <1>3, <2>1
    <2> HIDE DEF U
    <2> QED BY <2>1, <2>2
  <1>5. \E z \in s : \A y \in s : z >= y
    BY <1>3, <1>4
  <1> QED BY <1>5 DEF Max

\* g[s] is what the numbers in s make of base, the greatest last: how the folds of
\* the library are defined.
IsSetFold(g, base, step, n, D) ==
    /\ g \in [SUBSET (1..n) -> D] /\ g[{}] = base
    /\ \A s \in SUBSET (1..n) : s # {} => g[s] = step[Max(s)][g[s \ {Max(s)}]]

\* A fold over the finite subsets of an interval, greatest element last, exists.
LEMMA SetRecursion ==
    ASSUME NEW D, NEW n \in Nat, NEW base \in D, NEW step, IsStep(step, n, D)
    PROVE  \E g : IsSetFold(g, base, step, n, D)
  <1> DEFINE T == {m \in 0..n : \E g : IsSetFold(g, base, step, m, D)}
  <1>1. 0 \in T
    <2> DEFINE g == [s \in SUBSET (1..0) |-> base]
    <2>1. IsSetFold(g, base, step, 0, D)
      <3>1. 1..0 = {} /\ SUBSET (1..0) = {{}}
        OBVIOUS
      <3> QED BY <3>1 DEF IsSetFold
    <2> QED BY <2>1
  <1>2. ASSUME NEW m \in 0..n, m \in T, m # n
        PROVE  m + 1 \in T
    <2>1. PICK g : IsSetFold(g, base, step, m, D)
      BY <1>2
    <2>2. m + 1 \in 1..n /\ 1..(m + 1) = (1..m) \cup {m + 1} /\ m + 1 \notin 1..m
          /\ m + 1 \in Nat /\ m \in Nat
      BY <1>2
    <2> DEFINE last(s) == step[m + 1][g[s \ {m + 1}]]
               h == [s \in SUBSET (1..(m + 1)) |-> IF m + 1 \in s THEN last(s) ELSE g[s]]
    <2>3. \A s \in SUBSET (1..(m + 1)) : s \ {m + 1} \in SUBSET (1..m)
                                         /\ (m + 1 \notin s => s \in SUBSET (1..m))
      BY <2>2
    <2>4. \A s \in SUBSET (1..(m + 1)) : g[s \ {m + 1}] \in D
      BY <2>1, <2>3 DEF IsSetFold
    <2>5. \A s \in SUBSET (1..(m + 1)) : last(s) \in D
      BY <2>2, <2>4 DEF IsStep
    <2> HIDE DEF last
    <2>6. h \in [SUBSET (1..(m + 1)) -> D]
      BY <2>1, <2>3, <2>5 DEF IsSetFold
    <2>7. h[{}] = base
      BY <2>1 DEF IsSetFold
    <2>8. ASSUME NEW s \in SUBSET (1..(m + 1)), s # {}
          PROVE  h[s] = step[Max(s)][h[s \ {Max(s)}]]
      <3>1. Max(s) \in s /\ \A y \in s : y <= Max(s)
        BY <2>2, <2>8, MaxIsGreatest
      <3>2. CASE m + 1 \in s
        <4>1. Max(s) = m + 1
          <5>1. Max(s) \in 1..(m + 1) /\ m + 1 <= Max(s) /\ m \in Nat
            BY <2>2, <3>1, <3>2
          <5> QED BY <5>1
        <4>2. h[s] = last(s)
          BY <3>2
        <4>3. h[s \ {m + 1}] = g[s \ {m + 1}]
          BY <2>2, <2>3
        <4> QED BY <4>1, <4>2, <4>3 DEF last
      <3>3. CASE m + 1 \notin s
        <4>1. s \in SUBSET (1..m) /\ s \ {Max(s)} \in SUBSET (1..m)
          BY <2>3, <3>3
        <4>2. h[s] = g[s] /\ h[s \ {Max(s)}] = g[s \ {Max(s)}]
          BY <2>2, <3>3, <4>1
        <4>3. g[s] = step[Max(s)][g[s \ {Max(s)}]]
          BY <2>1, <2>8, <4>1 DEF IsSetFold
        <4> QED BY <4>2, <4>3
      <3> QED BY <3>2, <3>3
    <2> HIDE DEF h
    <2>9. IsSetFold(h, base, step, m + 1, D)
      BY <2>6, <2>7, <2>8 DEF IsSetFold
    <2> QED BY <2>2, <2>9, <1>2
  <1>3. \A m \in 0..n : m \in T
    <2> HIDE DEF T
    <2> QED BY <1>1, <1>2, UpTo
  <1> QED BY <1>3

\* The greatest of the first numbers, and the others.
LEMMA MaxOfInterval ==
    ASSUME NEW m \in Nat \ {0}
    PROVE  Max(1..m) = m /\ (1..m) \ {Max(1..m)} = 1..(m - 1)
  <1>1. 1..m \in SUBSET (1..m) /\ 1..m # {} /\ m \in 1..m
    OBVIOUS
  <1>2. Max(1..m) \in 1..m /\ \A y \in 1..m : y <= Max(1..m)
    BY <1>1, MaxIsGreatest
  <1>3. Max(1..m) = m
    BY <1>1, <1>2
  <1> QED BY <1>3

\* F folds the greatest number last, where what it has so far is in D.
FoldsGreatest(F, base, step, n, D) ==
    /\ F[{}] = base
    /\ \A s \in SUBSET (1..n) :
          s # {} /\ F[s \ {Max(s)}] \in D => F[s] = step[Max(s)][F[s \ {Max(s)}]]

\* What a fold over sets has of the first numbers, a fold over numbers has.
LEMMA FoldSteps ==
    ASSUME NEW D, NEW n \in Nat, NEW base \in D, NEW step, IsStep(step, n, D), NEW F,
           FoldsGreatest(F, base, step, n, D)
    PROVE  \E f : IsFold(f, base, step, n, D) /\ F[1..n] = f[n]
  <1> DEFINE f == [m \in 0..n |-> F[1..m]]
             T == {m \in 0..n : F[1..m] \in D}
  <1>1. ASSUME NEW m \in 1..n, F[1..(m - 1)] \in D PROVE F[1..m] = step[m][F[1..(m - 1)]]
    <2>1. m \in Nat \ {0}
      OBVIOUS
    <2>2. \A x \in 1..m : x \in 1..n
      OBVIOUS
    <2>3. 1..m \in SUBSET (1..n) /\ 1..m # {}
      BY <2>1, <2>2
    <2>4. Max(1..m) = m /\ (1..m) \ {Max(1..m)} = 1..(m - 1)
      BY <2>1, MaxOfInterval
    <2> QED BY <1>1, <2>3, <2>4 DEF FoldsGreatest
  <1>2. F[1..0] = base
    <2>1. 1..0 = {}
      OBVIOUS
    <2> QED BY <2>1 DEF FoldsGreatest
  <1>3. ASSUME NEW m \in 0..n, m \in T, m # n PROVE m + 1 \in T
    <2>1. m + 1 \in 1..n /\ (m + 1) - 1 = m /\ m + 1 \in 0..n
      BY <1>3
    <2>2. F[1..(m + 1)] = step[m + 1][F[1..m]]
      BY <1>1, <1>3, <2>1
    <2>3. F[1..(m + 1)] \in D
      BY <1>3, <2>1, <2>2 DEF IsStep
    <2> QED BY <2>1, <2>3
  <1>4. \A m \in 0..n : F[1..m] \in D
    <2>1. 0 \in T
      BY <1>2
    <2> HIDE DEF T
    <2>2. \A m \in 0..n : m \in T
      BY <1>3, <2>1, UpTo
    <2> QED BY <2>2 DEF T
  <1>5. f \in [0..n -> D] /\ f[0] = base /\ f[n] = F[1..n]
    BY <1>2, <1>4
  <1>6. ASSUME NEW m \in 1..n PROVE f[m] = step[m][f[m - 1]]
    <2>1. m \in 0..n /\ m - 1 \in 0..n
      OBVIOUS
    <2> QED BY <1>1, <1>4, <2>1
  <1> HIDE DEF f
  <1> QED BY <1>5, <1>6 DEF IsFold

-----------------------------------------------------------------------------
(* Sums of weights.                                                          *)

\* h[m] is the sum of the first m weights.
IsSum(h, w, n) ==
    h \in [0..n -> Nat] /\ h[0] = 0 /\ \A i \in 1..n : h[i] = h[i - 1] + w[i]

\* Sums of weights exist.
LEMMA SumExists ==
    ASSUME NEW n \in Nat, NEW w \in [1..n -> Nat]
    PROVE  \E h : IsSum(h, w, n)
  <1> DEFINE step == [i \in 1..n |-> [d \in Nat |-> d + w[i]]]
  <1>1. IsStep(step, n, Nat)
    BY DEF IsStep
  <1>2. PICK h : IsFold(h, 0, step, n, Nat)
    <2> HIDE DEF step
    <2> QED BY <1>1, Recursion
  <1>3. ASSUME NEW i \in 1..n PROVE h[i] = h[i - 1] + w[i]
    <2>1. i - 1 \in 0..n
      OBVIOUS
    <2>2. h[i - 1] \in Nat
      BY <1>2, <2>1 DEF IsFold
    <2>3. h[i] = step[i][h[i - 1]]
      BY <1>2 DEF IsFold
    <2> QED BY <2>2, <2>3
  <1> QED BY <1>2, <1>3 DEF IsFold, IsSum

\* The sum of the first n weights.
Sum(w, n) == (CHOOSE h : IsSum(h, w, n))[n]

\* The sum is what every function of partial sums ends with.
LEMMA SumIs ==
    ASSUME NEW n \in Nat, NEW w \in [1..n -> Nat], NEW h, IsSum(h, w, n)
    PROVE  Sum(w, n) = h[n] /\ Sum(w, n) \in Nat
  <1> DEFINE f == CHOOSE g : IsSum(g, w, n)
             T == {m \in 0..n : f[m] = h[m]}
  <1>1. IsSum(f, w, n)
    OBVIOUS
  <1> HIDE DEF f
  <1>2. 0 \in T
    BY <1>1 DEF IsSum
  <1>3. ASSUME NEW m \in 0..n, m \in T, m # n PROVE m + 1 \in T
    <2>1. m + 1 \in 1..n /\ (m + 1) - 1 = m
      BY <1>3
    <2> QED BY <1>1, <1>3, <2>1 DEF IsSum
  <1>4. n \in T
    <2> HIDE DEF T
    <2>1. \A m \in 0..n : m \in T
      BY <1>2, <1>3, UpTo
    <2> QED BY <2>1
  <1>5. h[n] \in Nat
    BY DEF IsSum
  <1> QED BY <1>4, <1>5 DEF Sum, f

\* Restricting the weights to a set of places.
WeightsOn(w, n, s) == [i \in 1..n |-> IF i \in s THEN w[i] ELSE 0]

\* A place adds its weight.
LEMMA SumPlace ==
    ASSUME NEW n \in Nat, NEW w \in [1..n -> Nat], NEW s \in SUBSET (1..n), NEW x \in s
    PROVE  Sum(WeightsOn(w, n, s), n) = Sum(WeightsOn(w, n, s \ {x}), n) + w[x]
  <1> DEFINE u == WeightsOn(w, n, s)
             v == WeightsOn(w, n, s \ {x})
  <1>1. u \in [1..n -> Nat] /\ v \in [1..n -> Nat]
    BY DEF WeightsOn
  <1>2. \A i \in 1..n : u[i] = v[i] + (IF i = x THEN w[x] ELSE 0)
    BY DEF WeightsOn
  <1> HIDE DEF u, v
  <1>3. PICK g : IsSum(g, u, n)
    BY <1>1, SumExists
  <1>4. PICK h : IsSum(h, v, n)
    BY <1>1, SumExists
  <1> DEFINE T == {m \in 0..n : g[m] = h[m] + (IF m >= x THEN w[x] ELSE 0)}
  <1>5. 0 \in T
    BY <1>3, <1>4 DEF IsSum
  <1>6. ASSUME NEW m \in 0..n, m \in T, m # n PROVE m + 1 \in T
    <2>1. m + 1 \in 1..n /\ (m + 1) - 1 = m /\ m \in Nat /\ x \in 1..n /\ w[x] \in Nat
      BY <1>6
    <2>2. g[m + 1] = g[m] + u[m + 1] /\ h[m + 1] = h[m] + v[m + 1]
      BY <1>3, <1>4, <2>1 DEF IsSum
    <2>3. g[m] \in Nat /\ h[m] \in Nat /\ u[m + 1] \in Nat /\ v[m + 1] \in Nat
      BY <1>1, <1>3, <1>4, <1>6, <2>1 DEF IsSum
    <2>4. u[m + 1] = v[m + 1] + (IF m + 1 = x THEN w[x] ELSE 0)
      BY <1>2, <2>1
    <2>5. g[m] = h[m] + (IF m >= x THEN w[x] ELSE 0)
      BY <1>6
    <2>6. g[m + 1] = h[m + 1] + (IF m + 1 >= x THEN w[x] ELSE 0)
      <3>1. x \in Int /\ m \in Int
        BY <2>1
      <3>2. CASE m >= x
        <4>1. m + 1 >= x /\ m + 1 # x
          BY <3>1, <3>2
        <4>2. u[m + 1] = v[m + 1] /\ g[m] = h[m] + w[x]
          BY <2>3, <2>4, <2>5, <3>2, <4>1
        <4>3. g[m + 1] = h[m + 1] + w[x]
          BY <2>1, <2>2, <2>3, <4>2
        <4> QED BY <4>1, <4>3
      <3>3. CASE m + 1 = x
        <4>1. ~(m >= x) /\ m + 1 >= x
          BY <3>1, <3>3
        <4>2. u[m + 1] = v[m + 1] + w[x] /\ g[m] = h[m]
          BY <2>3, <2>4, <2>5, <3>3, <4>1
        <4>3. g[m + 1] = h[m + 1] + w[x]
          BY <2>1, <2>2, <2>3, <4>2
        <4> QED BY <4>1, <4>3
      <3>4. CASE m + 1 < x
        <4>1. ~(m >= x) /\ ~(m + 1 >= x) /\ m + 1 # x
          BY <3>1, <3>4
        <4> QED BY <2>1, <2>2, <2>3, <2>4, <2>5, <3>4, <4>1
      <3> QED BY <3>1, <3>2, <3>3, <3>4
    <2> QED BY <2>1, <2>6
  <1>7. n \in T
    <2> HIDE DEF T
    <2>1. \A m \in 0..n : m \in T
      BY <1>5, <1>6, UpTo
    <2> QED BY <2>1
  <1>8. g[n] = h[n] + w[x]
    BY <1>7
  <1> QED BY <1>1, <1>3, <1>4, <1>8, SumIs DEF u, v

\* A sum over the sets of places that takes its places in any order.
IsSetSum(f, w, n, pick) ==
    f = [s \in SUBSET (1..n) |-> IF s = {} THEN 0 ELSE f[s \ {pick[s]}] + w[pick[s]]]

\* Such a sum exists, and it is the sum from the first to the last.
LEMMA SetSum ==
    ASSUME NEW n \in Nat, NEW w \in [1..n -> Nat], NEW pick,
           \A s \in SUBSET (1..n) : s # {} => pick[s] \in s
    PROVE  /\ \E f : IsSetSum(f, w, n, pick)
           /\ \A f : IsSetSum(f, w, n, pick) => f[1..n] = Sum(w, n)
  <1> DEFINE g == [s \in SUBSET (1..n) |-> Sum(WeightsOn(w, n, s), n)]
  <1>1. g[{}] = 0
    <2> DEFINE z == WeightsOn(w, n, {})
    <2>1. z \in [1..n -> Nat] /\ \A i \in 1..n : z[i] = 0
      BY DEF WeightsOn
    <2>2. IsSum([i \in 0..n |-> 0], z, n)
      <3> HIDE DEF z
      <3> QED BY <2>1 DEF IsSum
    <2>3. Sum(z, n) = 0
      <3> HIDE DEF z
      <3>1. Sum(z, n) = [i \in 0..n |-> 0][n]
        BY <2>1, <2>2, SumIs
      <3> QED BY <3>1
    <2> QED BY <2>3
  <1>2. \A s \in SUBSET (1..n) : s # {} => g[s] = g[s \ {pick[s]}] + w[pick[s]]
    <2>1. ASSUME NEW s \in SUBSET (1..n), s # {}
          PROVE  g[s] = g[s \ {pick[s]}] + w[pick[s]]
      <3>1. pick[s] \in s /\ s \ {pick[s]} \in SUBSET (1..n)
        BY <2>1
      <3>2. g[s] = Sum(WeightsOn(w, n, s), n)
            /\ g[s \ {pick[s]}] = Sum(WeightsOn(w, n, s \ {pick[s]}), n)
        BY <3>1
      <3> HIDE DEF g
      <3>3. \A x \in s : Sum(WeightsOn(w, n, s), n)
                        = Sum(WeightsOn(w, n, s \ {x}), n) + w[x]
        BY SumPlace
      <3> QED BY <3>1, <3>2, <3>3
    <2> QED BY <2>1
  <1>3. IsSetSum(g, w, n, pick)
    <2>1. \A s \in SUBSET (1..n) :
             g[s] = IF s = {} THEN 0 ELSE g[s \ {pick[s]}] + w[pick[s]]
      BY <1>1, <1>2
    <2>2. g = [s \in SUBSET (1..n) |-> g[s]]
      OBVIOUS
    <2> HIDE DEF g
    <2> QED BY <2>1, <2>2 DEF IsSetSum
  <1>4. g[1..n] = Sum(w, n)
    <2>1. WeightsOn(w, n, 1..n) = w
      BY DEF WeightsOn
    <2> QED BY <2>1
  <1> HIDE DEF g
  <1>5. ASSUME NEW f, IsSetSum(f, w, n, pick) PROVE f[1..n] = g[1..n]
    <2> DEFINE Bad == {s \in SUBSET (1..n) : f[s] # g[s]}
               C == {Cardinality(s) : s \in Bad}
    <2> SUFFICES ASSUME Bad # {} PROVE FALSE
      OBVIOUS
    <2>1. \A s \in SUBSET (1..n) : IsFiniteSet(s)
      <3>1. IsFiniteSet(1..n)
        BY FS_Interval
      <3> QED BY <3>1, FS_Subset
    <2>2. \A s \in SUBSET (1..n) : Cardinality(s) \in Nat
      BY <2>1, FS_CardinalityType
    <2>3. C \in SUBSET Nat /\ C # {}
      BY <2>2
    <2>4. PICK c \in C : \A y \in C : c <= y
      <3> HIDE DEF C
      <3> QED BY <2>3, LeastNumber
    <2>5. PICK s \in Bad : Cardinality(s) = c
      BY <2>4
    <2>6. s \in SUBSET (1..n) /\ f[s] # g[s]
      BY <2>5
    <2>7. s # {}
      BY <1>1, <1>5, <2>6 DEF IsSetSum
    <2> DEFINE t == s \ {pick[s]}
    <2>8. t \in SUBSET (1..n) /\ pick[s] \in s
      BY <2>6, <2>7
    <2>9. Cardinality(t) = Cardinality(s) - 1
      BY <2>1, <2>6, <2>8, FS_RemoveElement
    <2>10. t \notin Bad
      <3>1. SUFFICES ASSUME t \in Bad PROVE FALSE
        OBVIOUS
      <3>2. Cardinality(t) \in C
        BY <3>1
      <3>3. c <= Cardinality(t) /\ Cardinality(s) = c
        BY <2>4, <2>5, <3>2
      <3>4. Cardinality(s) \in Nat /\ Cardinality(t) \in Nat
        BY <2>2, <2>6, <2>8
      <3> HIDE DEF t, C, Bad
      <3> QED BY <2>9, <3>3, <3>4
    <2>11. f[t] = g[t]
      BY <2>8, <2>10
    <2>12. f[s] = f[t] + w[pick[s]]
      BY <1>5, <2>6, <2>7 DEF IsSetSum
    <2>13. g[s] = g[t] + w[pick[s]]
      BY <1>2, <2>6, <2>7
    <2> QED BY <2>6, <2>11, <2>12, <2>13
  <1> QED BY <1>3, <1>4, <1>5

\* Nothing sums up to nothing.
LEMMA SumOfNone ==
    ASSUME NEW w \in [1..0 -> Nat]
    PROVE  Sum(w, 0) = 0
  <1>1. PICK h : IsSum(h, w, 0)
    BY SumExists
  <1>2. Sum(w, 0) = h[0]
    BY <1>1, SumIs
  <1> QED BY <1>1, <1>2 DEF IsSum

\* v are the weights w without the one at k.
IsWithout(v, w, n, k) ==
    /\ v \in [1..(n - 1) -> Nat]
    /\ \A i \in 1..(n - 1) : v[i] = IF i < k THEN w[i] ELSE w[i + 1]

\* Leaving out a weight lowers the sum by it.
LEMMA SumWithout ==
    ASSUME NEW n \in Nat \ {0}, NEW w \in [1..n -> Nat], NEW k \in 1..n,
           NEW v, IsWithout(v, w, n, k)
    PROVE  Sum(w, n) = Sum(v, n - 1) + w[k] /\ Sum(v, n - 1) \in Nat
  <1>0. n - 1 \in Nat /\ k \in Nat /\ v \in [1..(n - 1) -> Nat] /\ w[k] \in Nat
    BY DEF IsWithout
  <1>1. PICK g : IsSum(g, w, n)
    BY SumExists
  <1>2. PICK h : IsSum(h, v, n - 1)
    BY <1>0, SumExists
  <1> DEFINE Same(m) == IF m < k THEN g[m] = h[m] ELSE g[m] = h[m - 1] + w[k]
             T == {m \in 0..n : Same(m)}
  <1>3. 0 \in T
    BY <1>1, <1>2 DEF IsSum
  <1>4. ASSUME NEW m \in 0..n, m \in T, m # n PROVE m + 1 \in T
    <2>1. m + 1 \in 1..n /\ (m + 1) - 1 = m /\ m \in Nat /\ m \in 0..(n - 1)
      BY <1>4
    <2>2. g[m + 1] = g[m] + w[m + 1] /\ g[m] \in Nat /\ w[m + 1] \in Nat
      BY <1>1, <1>4, <2>1 DEF IsSum
    <2>3. Same(m)
      BY <1>4
    <2>4. h[m] \in Nat
      BY <1>2, <2>1 DEF IsSum
    <2>5. CASE m + 1 < k
      <3>1. m < k /\ m + 1 \in 1..(n - 1)
        BY <1>0, <2>1, <2>5
      <3>2. v[m + 1] = w[m + 1]
        BY <2>5, <3>1 DEF IsWithout
      <3>3. h[m + 1] = h[m] + v[m + 1]
        BY <1>2, <2>1, <3>1 DEF IsSum
      <3>4. g[m] = h[m]
        BY <2>3, <3>1
      <3>5. g[m + 1] = h[m + 1]
        BY <2>2, <3>2, <3>3, <3>4
      <3> QED BY <2>1, <2>5, <3>5
    <2>6. CASE m + 1 = k
      <3>1. m < k /\ ~(m + 1 < k)
        BY <1>0, <2>1, <2>6
      <3>2. g[m] = h[m]
        BY <2>3, <3>1
      <3>3. g[m + 1] = h[(m + 1) - 1] + w[k]
        BY <2>1, <2>2, <2>6, <3>2
      <3> QED BY <2>1, <3>1, <3>3
    <2>7. CASE m >= k
      <3>1. ~(m < k) /\ ~(m + 1 < k) /\ m \in 1..(n - 1) /\ m - 1 \in 0..(n - 1)
        BY <1>0, <2>1, <2>7
      <3>2. g[m] = h[m - 1] + w[k]
        BY <2>3, <3>1
      <3>3. h[m] = h[m - 1] + v[m]
        BY <1>2, <3>1 DEF IsSum
      <3>4. v[m] = w[m + 1]
        BY <3>1 DEF IsWithout
      <3>5. h[m - 1] \in Nat
        BY <1>2, <3>1 DEF IsSum
      <3>6. g[m + 1] = h[m] + w[k]
        BY <1>0, <2>2, <3>2, <3>3, <3>4, <3>5
      <3> QED BY <2>1, <3>1, <3>6
    <2> QED BY <1>0, <2>1, <2>5, <2>6, <2>7
  <1>5. n \in T
    <2> HIDE DEF T
    <2>1. \A m \in 0..n : m \in T
      BY <1>3, <1>4, UpTo
    <2> QED BY <2>1
  <1>6. g[n] = h[n - 1] + w[k]
    BY <1>0, <1>5
  <1>7. Sum(w, n) = g[n]
    BY <1>1, SumIs
  <1>8. Sum(v, n - 1) = h[n - 1] /\ Sum(v, n - 1) \in Nat
    <2>1. n - 1 \in Nat
      BY <1>0
    <2> QED BY <1>0, <1>2, <2>1, SumIs
  <1> QED BY <1>6, <1>7, <1>8

\* One more weight.
LEMMA SumAppend ==
    ASSUME NEW q \in Seq(Nat), NEW v \in Nat
    PROVE  /\ Sum(Append(q, v), Len(q) + 1) = Sum(q, Len(q)) + v
           /\ Sum(q, Len(q)) \in Nat
  <1> DEFINE w == Append(q, v)
             n == Len(q) + 1
  <1>1. w \in Seq(Nat) /\ Len(w) = n /\ w[n] = v /\ n \in Nat \ {0} /\ n - 1 = Len(q)
        /\ \A i \in 1..Len(q) : w[i] = q[i]
    OBVIOUS
  <1> HIDE DEF w, n
  <1>2. w \in [1..n -> Nat] /\ n \in 1..n /\ q \in [1..(n - 1) -> Nat]
    <2>1. w \in [1..Len(w) -> Nat] /\ q \in [1..Len(q) -> Nat]
      BY <1>1
    <2> QED BY <1>1, <2>1
  <1>3. IsWithout(q, w, n, n)
    <2>1. \A i \in 1..(n - 1) : i < n
      BY <1>1
    <2> QED BY <1>1, <1>2, <2>1 DEF IsWithout
  <1>4. Sum(w, n) = Sum(q, n - 1) + w[n] /\ Sum(q, n - 1) \in Nat
    BY <1>1, <1>2, <1>3, SumWithout
  <1> QED BY <1>1, <1>4 DEF w, n

\* The empty sequence sums up to nothing.
LEMMA SumOfEmpty == Sum(<<>>, Len(<<>>)) = 0
  <1>1. <<>> \in [1..0 -> Nat] /\ Len(<<>>) = 0
    OBVIOUS
  <1> QED BY <1>1, SumOfNone

\* A sum of numbers is a number.
LEMMA SumType ==
    ASSUME NEW n \in Nat, NEW w \in [1..n -> Nat]
    PROVE  Sum(w, n) \in Nat
  <1>1. PICK h : IsSum(h, w, n)
    BY SumExists
  <1>2. Sum(w, n) = h[n]
    BY <1>1, SumIs
  <1> QED BY <1>1, <1>2 DEF IsSum

\* Changing one weight changes the sum by as much.
LEMMA SumChange ==
    ASSUME NEW n \in Nat, NEW w \in [1..n -> Nat], NEW v \in [1..n -> Nat], NEW x \in 1..n,
           \A i \in 1..n : i # x => v[i] = w[i]
    PROVE  \E r \in Nat : Sum(w, n) = r + w[x] /\ Sum(v, n) = r + v[x]
  <1> DEFINE s == 1..n
             r == Sum(WeightsOn(w, n, s \ {x}), n)
  <1>1. s \in SUBSET (1..n) /\ x \in s
    OBVIOUS
  <1>2. WeightsOn(w, n, s) = w /\ WeightsOn(v, n, s) = v
        /\ WeightsOn(w, n, s \ {x}) = WeightsOn(v, n, s \ {x})
        /\ WeightsOn(w, n, s \ {x}) \in [1..n -> Nat]
    BY DEF WeightsOn
  <1> HIDE DEF s
  <1>3. Sum(w, n) = r + w[x]
    <2>1. Sum(WeightsOn(w, n, s), n) = Sum(WeightsOn(w, n, s \ {x}), n) + w[x]
      BY <1>1, SumPlace
    <2> QED BY <1>2, <2>1
  <1>4. Sum(v, n) = r + v[x]
    <2>1. Sum(WeightsOn(v, n, s), n) = Sum(WeightsOn(v, n, s \ {x}), n) + v[x]
      BY <1>1, SumPlace
    <2> QED BY <1>2, <2>1
  <1>5. r \in Nat
    BY <1>2, SumType
  <1> QED BY <1>3, <1>4, <1>5

\* One sequence behind another.
LEMMA ConcatIs ==
    ASSUME NEW E, NEW p \in Seq(E), NEW m \in Seq(E)
    PROVE  /\ p \o m \in Seq(E) /\ Len(p \o m) = Len(p) + Len(m)
           /\ \A j \in 1..Len(p) : (p \o m)[j] = p[j]
           /\ \A j \in (Len(p) + 1)..(Len(p) + Len(m)) : (p \o m)[j] = m[j - Len(p)]
  OBVIOUS

\* An element is put in, and those from its place on move down.
LEMMA InsertAtShifts ==
    ASSUME NEW E, NEW s \in Seq(E), NEW k \in 1..(Len(s) + 1), NEW e \in E
    PROVE  /\ InsertAt(s, k, e) \in Seq(E) /\ Len(InsertAt(s, k, e)) = Len(s) + 1
           /\ InsertAt(s, k, e)[k] = e
           /\ \A i \in 1..Len(s) : /\ i < k => InsertAt(s, k, e)[i] = s[i]
                                   /\ i >= k => InsertAt(s, k, e)[i + 1] = s[i]
  <1> DEFINE n == Len(s)
             p == SubSeq(s, 1, k - 1)
             q == SubSeq(s, k, n)
             m == <<e>>
             t == (p \o m) \o q
  <1>1. n \in Nat /\ k \in 1..(n + 1)
    OBVIOUS
  <1>2. p \in Seq(E) /\ Len(p) = k - 1 /\ \A i \in 1..(k - 1) : p[i] = s[i]
    BY <1>1
  <1>3. q \in Seq(E) /\ Len(q) = (n - k) + 1 /\ \A i \in 1..((n - k) + 1) : q[i] = s[k + i - 1]
    BY <1>1
  <1>4. m \in Seq(E) /\ Len(m) = 1 /\ m[1] = e
    OBVIOUS
  <1>5. InsertAt(s, k, e) = t
    BY DEF InsertAt
  <1> HIDE DEF p, q, m
  <1>6. /\ p \o m \in Seq(E) /\ Len(p \o m) = k /\ (p \o m)[k] = e
        /\ \A i \in 1..(k - 1) : (p \o m)[i] = s[i]
    <2> HIDE DEF n
    <2>4. k \in Int /\ Len(p) = k - 1 /\ Len(p) + 1 = k
      BY <1>1, <1>2
    <2>5. p \in Seq(E) /\ m \in Seq(E) /\ Len(m) = 1
      BY <1>2, <1>4
    <2>6. /\ p \o m \in Seq(E) /\ Len(p \o m) = Len(p) + Len(m)
          /\ \A j \in 1..Len(p) : (p \o m)[j] = p[j]
          /\ \A j \in (Len(p) + 1)..(Len(p) + Len(m)) : (p \o m)[j] = m[j - Len(p)]
      BY <2>5, ConcatIs
    <2>1. p \o m \in Seq(E) /\ Len(p \o m) = k
      BY <2>4, <2>5, <2>6
    <2>7. (p \o m)[Len(p) + 1] = m[(Len(p) + 1) - Len(p)]
      <3>1. Len(p) + 1 \in (Len(p) + 1)..(Len(p) + Len(m))
        BY <2>4, <2>5
      <3> QED BY <2>6, <3>1
    <2>8. (Len(p) + 1) - Len(p) = 1
      BY <2>4
    <2>2. Len(p) + 1 = k /\ (p \o m)[Len(p) + 1] = m[1]
      BY <2>4, <2>7, <2>8
    <2>3. \A i \in 1..(k - 1) : (p \o m)[i] = p[i]
      BY <1>1, <1>2, <1>4
    <2> QED BY <1>2, <1>4, <2>1, <2>2, <2>3
  <1> DEFINE u == p \o m
  <1>7. u \in Seq(E) /\ Len(u) = k /\ u[k] = e /\ \A i \in 1..(k - 1) : u[i] = s[i]
    BY <1>6
  <1>8. t = u \o q
    OBVIOUS
  <1> HIDE DEF u, t
  <1>9. /\ t \in Seq(E) /\ Len(t) = Len(u) + Len(q)
        /\ \A j \in 1..Len(u) : t[j] = u[j]
        /\ \A j \in (Len(u) + 1)..(Len(u) + Len(q)) : t[j] = q[j - Len(u)]
    <2>1. u \in Seq(E) /\ q \in Seq(E)
      BY <1>3, <1>7
    <2>2. /\ u \o q \in Seq(E) /\ Len(u \o q) = Len(u) + Len(q)
          /\ \A j \in 1..Len(u) : (u \o q)[j] = u[j]
          /\ \A j \in (Len(u) + 1)..(Len(u) + Len(q)) : (u \o q)[j] = q[j - Len(u)]
      BY <2>1, ConcatIs
    <2> QED BY <1>8, <2>2
  <1> HIDE DEF n
  <1>12. t \in Seq(E) /\ Len(t) = n + 1 /\ t[k] = e /\ \A i \in 1..(k - 1) : t[i] = s[i]
    <2>1. k \in 1..Len(u) /\ Len(u) + Len(q) = n + 1
          /\ \A i \in 1..(k - 1) : i \in 1..Len(u)
      BY <1>1, <1>3, <1>7
    <2> QED BY <1>7, <1>9, <2>1
  <1>10. ASSUME NEW i \in 1..n, i >= k PROVE t[i + 1] = s[i]
    <2>1. i + 1 \in (Len(u) + 1)..(Len(u) + Len(q)) /\ (i + 1) - Len(u) \in 1..((n - k) + 1)
          /\ k + ((i + 1) - Len(u)) - 1 = i
      BY <1>1, <1>3, <1>7, <1>10
    <2>2. t[i + 1] = q[(i + 1) - Len(u)]
      BY <1>9, <2>1
    <2>3. q[(i + 1) - Len(u)] = s[k + ((i + 1) - Len(u)) - 1]
      BY <1>3, <2>1
    <2> QED BY <2>1, <2>2, <2>3
  <1>11. \A i \in 1..n : i < k => t[i] = s[i]
    BY <1>1, <1>12
  <1> QED BY <1>5, <1>10, <1>11, <1>12 DEF n

\* d[j] is c doubled j times.
IsDoubling(d, c, n) == d = [j \in 0..n |-> IF j = 0 THEN c ELSE 2 * d[j - 1]]

\* Doubling goes on as long as it is asked to.
LEMMA Doublings ==
    ASSUME NEW c \in Nat, c >= 2, NEW n \in Nat
    PROVE  /\ \E d : IsDoubling(d, c, n)
           /\ \A d : IsDoubling(d, c, n) =>
                \A j \in 0..n : d[j] \in Nat /\ d[j] >= c + j /\ d[j] >= 4 * j
  <1> DEFINE step == [j \in 1..n |-> [x \in Nat |-> 2 * x]]
  <1>1. IsStep(step, n, Nat)
    BY DEF IsStep
  <1>2. PICK f : IsFold(f, c, step, n, Nat)
    BY <1>1, Recursion
  <1>3. f \in [0..n -> Nat] /\ f[0] = c /\ \A j \in 1..n : f[j] = step[j][f[j - 1]]
    BY <1>2 DEF IsFold
  <1>4. ASSUME NEW j \in 1..n PROVE f[j] = 2 * f[j - 1]
    <2>1. j - 1 \in 0..n
      OBVIOUS
    <2>2. f[j - 1] \in Nat /\ f[j] = step[j][f[j - 1]]
      BY <1>3, <2>1
    <2> QED BY <2>2
  <1>5. IsDoubling(f, c, n)
    <2> DEFINE g == [j \in 0..n |-> IF j = 0 THEN c ELSE 2 * f[j - 1]]
    <2>1. \A j \in 0..n : f[j] = g[j]
      BY <1>3, <1>4
    <2>2. f = [j \in 0..n |-> f[j]] /\ g = [j \in 0..n |-> g[j]]
      BY <1>3
    <2> HIDE DEF g
    <2>3. f = g
      BY <2>1, <2>2
    <2> QED BY <2>3 DEF IsDoubling, g
  <1>6. ASSUME NEW d, IsDoubling(d, c, n)
        PROVE  \A j \in 0..n : d[j] \in Nat /\ d[j] >= c + j /\ d[j] >= 4 * j
    <2> DEFINE g == [j \in 0..n |-> IF j = 0 THEN c ELSE 2 * d[j - 1]]
               T == {j \in 0..n : d[j] \in Nat /\ d[j] >= c + j /\ d[j] >= 4 * j}
    <2>1. d = g
      BY <1>6 DEF IsDoubling
    <2>2. g[0] = c /\ \A j \in 0..n : j # 0 => g[j] = 2 * d[j - 1]
      OBVIOUS
    <2> HIDE DEF g
    <2>3. 0 \in T
      BY <2>1, <2>2
    <2>4. ASSUME NEW j \in 0..n, j \in T, j # n PROVE j + 1 \in T
      <3>1. j + 1 \in 0..n /\ j + 1 # 0 /\ (j + 1) - 1 = j
        BY <2>4
      <3>2. d[j + 1] = 2 * d[j]
        BY <2>1, <2>2, <3>1
      <3>3. d[j] \in Nat /\ d[j] >= c + j /\ d[j] >= 4 * j
        BY <2>4
      <3> QED BY <3>1, <3>2, <3>3
    <2> HIDE DEF T
    <2>5. \A j \in 0..n : j \in T
      BY <2>3, <2>4, UpTo
    <2> QED BY <2>5 DEF T
  <1> QED BY <1>5, <1>6

-----------------------------------------------------------------------------
(* Bounds.                                                                    *)

\* One of finitely many integers is the least.
LEMMA LeastValue ==
    ASSUME NEW n \in Nat \ {0}, NEW g \in [1..n -> Int]
    PROVE  \E i \in 1..n : \A j \in 1..n : g[i] <= g[j]
  <1> DEFINE T == {m \in 0..n : m # 0 => \E i \in 1..m : \A j \in 1..m : g[i] <= g[j]}
  <1>1. 0 \in T
    OBVIOUS
  <1>2. ASSUME NEW m \in 0..n, m \in T, m # n
        PROVE  m + 1 \in T
    <2>1. m + 1 \in 1..n /\ \A j \in 1..(m + 1) : j \in 1..n /\ (j = m + 1 \/ j \in 1..m)
      BY <1>2
    <2>2. \A j \in 1..n : g[j] \in Int
      OBVIOUS
    <2>3. CASE m = 0
      <3>1. \A j \in 1..(m + 1) : j = m + 1
        BY <2>3
      <3>2. m + 1 \in 1..(m + 1) /\ m + 1 \in 0..n /\ g[m + 1] <= g[m + 1]
        BY <2>1, <2>2, <2>3
      <3>3. \A j \in 1..(m + 1) : g[m + 1] <= g[j]
        BY <3>1, <3>2
      <3> QED BY <3>2, <3>3
    <2>4. CASE m # 0
      <3>1. PICK i \in 1..m : \A j \in 1..m : g[i] <= g[j]
        BY <1>2, <2>4
      <3>2. i \in 1..(m + 1) /\ g[i] \in Int /\ g[m + 1] \in Int /\ m + 1 \in 1..(m + 1)
        BY <2>1, <2>2
      <3>3. CASE g[i] <= g[m + 1]
        <4>1. \A j \in 1..(m + 1) : g[i] <= g[j]
          BY <2>1, <3>1, <3>3
        <4> QED BY <2>1, <3>2, <4>1
      <3>4. CASE ~(g[i] <= g[m + 1])
        <4>1. ASSUME NEW j \in 1..(m + 1) PROVE g[m + 1] <= g[j]
          <5>1. CASE j = m + 1
            BY <3>2, <5>1
          <5>2. CASE j \in 1..m
            <6>1. g[i] <= g[j] /\ g[j] \in Int
              BY <2>1, <2>2, <3>1, <5>2
            <6> QED BY <3>2, <3>4, <6>1
          <5> QED BY <2>1, <5>1, <5>2
        <4> QED BY <2>1, <3>2, <4>1
      <3> QED BY <3>3, <3>4
    <2>5. m + 1 \in 0..n
      BY <2>1
    <2> QED BY <2>3, <2>4, <2>5
  <1>3. n \in T
    <2> HIDE DEF T
    <2>1. n \in Nat /\ n \in 0..n
      OBVIOUS
    <2> QED BY <1>1, <1>2, <2>1, UpTo
  <1> QED BY <1>3

\* A finite set of integers has a least and a greatest.
LEMMA FiniteBounds ==
    ASSUME NEW S \in SUBSET Int, S # {}, IsFiniteSet(S)
    PROVE  /\ \E x \in S : \A y \in S : x <= y
           /\ \E x \in S : \A y \in S : x >= y
  <1>1. PICK n \in Nat : ExistsBijection(1..n, S)
    BY FS_NatBijection
  <1>2. PICK f \in [1..n -> S] : \A y \in S : \E i \in 1..n : f[i] = y
    BY <1>1 DEF ExistsBijection, Bijection, Surjection, Injection, IsInjective
  <1>3. n # 0
    <2>1. n = 0 => 1..n = {}
      OBVIOUS
    <2> QED BY <1>2, <2>1
  <1>4. n \in Nat \ {0} /\ f \in [1..n -> Int]
    BY <1>2, <1>3
  <1>5. PICK i \in 1..n : \A j \in 1..n : f[i] <= f[j]
    BY <1>4, LeastValue
  <1> DEFINE g == [j \in 1..n |-> 0 - f[j]]
  <1>6. g \in [1..n -> Int]
    BY <1>4
  <1>7. PICK k \in 1..n : \A j \in 1..n : g[k] <= g[j]
    <2> HIDE DEF g
    <2> QED BY <1>4, <1>6, LeastValue
  <1>8. \A j \in 1..n : f[k] >= f[j]
    <2> TAKE j \in 1..n
    <2>1. g[k] <= g[j] /\ g[k] = 0 - f[k] /\ g[j] = 0 - f[j] /\ f[k] \in Int /\ f[j] \in Int
      BY <1>4, <1>7
    <2> HIDE DEF g
    <2> QED BY <2>1
  <1> HIDE DEF g
  <1>9. f[i] \in S /\ f[k] \in S
    BY <1>2
  <1>10. \A y \in S : f[i] <= y
    BY <1>2, <1>5
  <1>11. \A y \in S : f[k] >= y
    BY <1>2, <1>8
  <1> QED BY <1>9, <1>10, <1>11

-----------------------------------------------------------------------------
(* Flattening.                                                                *)

\* Any two elements of t, at different places, are in R.
Pairwise(t, R) == \A i, j \in DOMAIN t : i # j => <<t[i], t[j]>> \in R

\* What is pairwise in R one after the other is so put together.
LEMMA ConcatPairwise ==
    ASSUME NEW X, NEW p \in Seq(X), NEW q \in Seq(X), NEW R, Pairwise(p, R), Pairwise(q, R),
           \A i \in DOMAIN p, j \in DOMAIN q : <<p[i], q[j]>> \in R /\ <<q[j], p[i]>> \in R
    PROVE  Pairwise(p \o q, R)
  <1> DEFINE r == p \o q
  <1>1. /\ r \in Seq(X) /\ Len(r) = Len(p) + Len(q)
        /\ \A j \in 1..Len(p) : r[j] = p[j]
        /\ \A j \in (Len(p) + 1)..(Len(p) + Len(q)) : r[j] = q[j - Len(p)]
    BY ConcatIs
  <1>2. /\ Len(p) \in Nat /\ Len(q) \in Nat /\ DOMAIN p = 1..Len(p) /\ DOMAIN q = 1..Len(q)
        /\ DOMAIN r = 1..(Len(p) + Len(q))
    BY <1>1
  <1> HIDE DEF r
  <1> SUFFICES ASSUME NEW i \in DOMAIN r, NEW j \in DOMAIN r, i # j
               PROVE  <<r[i], r[j]>> \in R
    BY DEF Pairwise, r
  <1> DEFINE Place(k) == IF k <= Len(p) THEN k ELSE k - Len(p)
  <1>3. \A k \in DOMAIN r : IF k <= Len(p) THEN k \in DOMAIN p /\ r[k] = p[k]
                            ELSE k - Len(p) \in DOMAIN q /\ r[k] = q[k - Len(p)]
    <2> TAKE k \in DOMAIN r
    <2>1. k \in 1..(Len(p) + Len(q)) /\ k \in Nat
      BY <1>2
    <2>2. CASE k <= Len(p)
      <3>1. k \in 1..Len(p)
        BY <1>2, <2>1, <2>2
      <3> QED BY <1>1, <1>2, <2>2, <3>1
    <2>3. CASE ~(k <= Len(p))
      <3>1. k \in (Len(p) + 1)..(Len(p) + Len(q)) /\ k - Len(p) \in 1..Len(q)
        BY <1>2, <2>1, <2>3
      <3> QED BY <1>1, <1>2, <2>3, <3>1
    <2> QED BY <2>2, <2>3
  <1>4. i \in Nat /\ j \in Nat
    BY <1>2
  <1>5. CASE i <= Len(p) /\ j <= Len(p)
    BY <1>3, <1>5 DEF Pairwise
  <1>6. CASE i <= Len(p) /\ ~(j <= Len(p))
    BY <1>3, <1>6
  <1>7. CASE ~(i <= Len(p)) /\ j <= Len(p)
    BY <1>3, <1>7
  <1>8. CASE ~(i <= Len(p)) /\ ~(j <= Len(p))
    <2>1. i - Len(p) \in DOMAIN q /\ j - Len(p) \in DOMAIN q /\ i - Len(p) # j - Len(p)
          /\ r[i] = q[i - Len(p)] /\ r[j] = q[j - Len(p)]
      BY <1>2, <1>3, <1>4, <1>8
    <2> QED BY <2>1 DEF Pairwise
  <1> QED BY <1>5, <1>6, <1>7, <1>8

\* The elements of the sequences of s, each of its own and any of two.
PairwiseTogether(s, R) ==
    /\ \A k \in DOMAIN s : Pairwise(s[k], R)
    /\ \A k, l \in DOMAIN s : k # l =>
          \A i \in DOMAIN s[k], j \in DOMAIN s[l] : <<s[k][i], s[l][j]>> \in R

LEMMA FlattenPairwise ==
    ASSUME NEW X, NEW s \in Seq(Seq(X)), NEW R, PairwiseTogether(s, R)
    PROVE  Pairwise(FlattenSeq(s), R)
  <1> DEFINE n == Len(s)
  <1>1. n \in Nat /\ DOMAIN s = 1..n /\ \A k \in 1..n : s[k] \in Seq(X)
    OBVIOUS
  <1>2. PICK f : IsFlatten(f, s, X) /\ FlattenSeq(s) = f[n]
    BY FlattenSteps
  <1>3. \A m \in 0..n : f[m] \in Seq(X) /\ ToSet(f[m]) = ElementsUpTo(s, m)
    BY <1>2, FlattenElements DEF IsFlatten
  <1> DEFINE T == {m \in 0..n : Pairwise(f[m], R)}
  <1>4. 0 \in T
    <2>1. f[0] = <<>>
      BY <1>2 DEF IsFlatten
    <2> QED BY <1>1, <2>1 DEF Pairwise
  <1>5. ASSUME NEW m \in 0..n, m \in T, m # n
        PROVE  m + 1 \in T
    <2> DEFINE p == f[m]
               q == s[m + 1]
    <2>1. m + 1 \in 1..n /\ (m + 1) - 1 = m /\ m + 1 \in 0..n
      <3> HIDE DEF T, n
      <3> QED BY <1>1, <1>5
    <2>2. p \in Seq(X) /\ q \in Seq(X) /\ f[m + 1] = p \o q
      BY <1>1, <1>2, <1>3, <2>1 DEF IsFlatten
    <2>3. Pairwise(p, R) /\ Pairwise(q, R)
      BY <1>1, <1>5, <2>1 DEF PairwiseTogether
    <2>4. ASSUME NEW i \in DOMAIN p, NEW j \in DOMAIN q
          PROVE  <<p[i], q[j]>> \in R /\ <<q[j], p[i]>> \in R
      <3>1. p[i] \in ElementsUpTo(s, m)
        BY <1>3 DEF ToSet
      <3>2. PICK k \in 1..m : \E l \in DOMAIN s[k] : s[k][l] = p[i]
        BY <3>1 DEF ElementsUpTo, ToSet
      <3>3. k \in 1..n /\ k # m + 1
        BY <1>1, <2>1
      <3> QED BY <1>1, <2>1, <3>2, <3>3 DEF PairwiseTogether
    <2> HIDE DEF p, q
    <2>5. Pairwise(p \o q, R)
      BY <2>2, <2>3, <2>4, ConcatPairwise
    <2> QED BY <2>1, <2>2, <2>5
  <1>6. n \in T
    <2> HIDE DEF T
    <2>1. n \in 0..n
      BY <1>1
    <2> QED BY <1>1, <1>4, <1>5, <2>1, UpTo
  <1> QED BY <1>2, <1>6

\* What FlattenSeq has, the sequences have.
LEMMA FlattenHas ==
    ASSUME NEW X, NEW s \in Seq(Seq(X))
    PROVE  /\ FlattenSeq(s) \in Seq(X)
           /\ ToSet(FlattenSeq(s)) = UNION {ToSet(s[k]) : k \in DOMAIN s}
  <1>1. PICK f : IsFlatten(f, s, X) /\ FlattenSeq(s) = f[Len(s)]
    BY FlattenSteps
  <1>2. Len(s) \in 0..Len(s) /\ DOMAIN s = 1..Len(s)
    OBVIOUS
  <1>3. ToSet(f[Len(s)]) = ElementsUpTo(s, Len(s))
    BY <1>1, <1>2, FlattenElements
  <1>4. f[Len(s)] \in Seq(X)
    BY <1>1, <1>2 DEF IsFlatten
  <1> QED BY <1>1, <1>2, <1>3, <1>4 DEF ElementsUpTo

-----------------------------------------------------------------------------
(* Entries, each with a set of items: c says which.                           *)

\* No two entries of e have an item in common.
\* No item of one set is in the other.
Aside(A, B) == \A x \in A, y \in B : x.id # y.id

Spread(e, c) == \A i, j \in DOMAIN e : i # j => Aside(c[e[i]], c[e[j]])
\* The items of all entries, and of those but for one.
Covered(e, c) == UNION {c[e[i]] : i \in DOMAIN e}
But(e, c, i) == UNION {c[e[j]] : j \in DOMAIN e \ {i}}

\* r is e with k for the entry i.
IsPut(r, e, i, k) ==
    DOMAIN r = DOMAIN e /\ r[i] = k /\ \A j \in DOMAIN e : j # i => r[j] = e[j]

\* One entry is put for another.
LEMMA EntryPut ==
    ASSUME NEW K, NEW c, NEW e \in Seq(K), Spread(e, c), NEW i \in DOMAIN e, NEW k \in K,
           Aside(But(e, c, i), c[k]), NEW r \in Seq(K), IsPut(r, e, i, k)
    PROVE  Spread(r, c) /\ Covered(r, c) = But(e, c, i) \cup c[k]
  <1>1. DOMAIN r = DOMAIN e
    BY DEF IsPut
  <1>2. r[i] = k /\ \A j \in DOMAIN e : j # i => r[j] = e[j]
    BY DEF IsPut
  <1>3. \A j \in DOMAIN e : j # i => Aside(c[e[j]], c[k]) /\ Aside(c[k], c[e[j]])
    BY DEF But, Aside
  <1>4. Spread(r, c)
    <2> SUFFICES ASSUME NEW a \in DOMAIN r, NEW b \in DOMAIN r, a # b
                 PROVE  Aside(c[r[a]], c[r[b]])
      BY DEF Spread
    <2>1. a \in DOMAIN e /\ b \in DOMAIN e
      BY <1>1
    <2>2. CASE a = i
      BY <1>2, <1>3, <2>1, <2>2
    <2>3. CASE b = i
      BY <1>2, <1>3, <2>1, <2>3
    <2>4. CASE a # i /\ b # i
      BY <1>2, <2>1, <2>4 DEF Spread
    <2> QED BY <2>2, <2>3, <2>4
  <1>5. Covered(r, c) = But(e, c, i) \cup c[k]
    <2>1. \A j \in DOMAIN r : c[r[j]] = IF j = i THEN c[k] ELSE c[e[j]]
      BY <1>1, <1>2
    <2>2. ASSUME NEW x \in Covered(r, c)
          PROVE  x \in But(e, c, i) \cup c[k]
      <3>1. PICK j \in DOMAIN r : x \in c[r[j]]
        BY <2>2 DEF Covered
      <3>2. j \in DOMAIN e
        BY <1>1
      <3> QED BY <2>1, <3>1, <3>2 DEF But
    <2>3. ASSUME NEW x \in But(e, c, i)
          PROVE  x \in Covered(r, c)
      <3>1. PICK j \in DOMAIN e \ {i} : x \in c[e[j]]
        BY <2>3 DEF But
      <3>2. j \in DOMAIN r /\ x \in c[r[j]]
        BY <1>1, <1>2, <3>1
      <3> QED BY <3>2 DEF Covered
    <2>4. ASSUME NEW x \in c[k]
          PROVE  x \in Covered(r, c)
      <3>1. i \in DOMAIN r /\ x \in c[r[i]]
        BY <1>1, <1>2, <2>4
      <3> QED BY <3>1 DEF Covered
    <2> QED BY <2>2, <2>3, <2>4
  <1> QED BY <1>4, <1>5

\* An entry is one of the others' and its own.
LEMMA ButOne ==
    ASSUME NEW K, NEW c, NEW e \in Seq(K), Spread(e, c), NEW i \in DOMAIN e
    PROVE  /\ Covered(e, c) = But(e, c, i) \cup c[e[i]]
           /\ Aside(But(e, c, i), c[e[i]])
  <1>1. ASSUME NEW x \in Covered(e, c)
        PROVE  x \in But(e, c, i) \cup c[e[i]]
    <2>1. PICK j \in DOMAIN e : x \in c[e[j]]
      BY <1>1 DEF Covered
    <2> QED BY <2>1 DEF But
  <1>2. ASSUME NEW x \in But(e, c, i) \cup c[e[i]]
        PROVE  x \in Covered(e, c)
    BY <1>2 DEF But, Covered
  <1>3. Aside(But(e, c, i), c[e[i]])
    <2> SUFFICES ASSUME NEW x \in But(e, c, i), NEW y \in c[e[i]]
                 PROVE  x.id # y.id
      BY DEF Aside
    <2>1. PICK j \in DOMAIN e \ {i} : x \in c[e[j]]
      BY DEF But
    <2>2. Aside(c[e[j]], c[e[i]])
      BY <2>1 DEF Spread
    <2> QED BY <2>1, <2>2 DEF Aside
  <1> QED BY <1>1, <1>2, <1>3

\* An entry is added.
LEMMA EntryAdded ==
    ASSUME NEW K, NEW c, NEW e \in Seq(K), Spread(e, c), NEW k \in K,
           Aside(Covered(e, c), c[k])
    PROVE  /\ Append(e, k) \in Seq(K) /\ Len(Append(e, k)) = Len(e) + 1
           /\ Spread(Append(e, k), c) /\ Covered(Append(e, k), c) = Covered(e, c) \cup c[k]
  <1> DEFINE r == Append(e, k)
             n == Len(e)
  <1>1. r \in Seq(K) /\ Len(r) = n + 1 /\ n \in Nat /\ DOMAIN r = 1..(n + 1) /\ DOMAIN e = 1..n
    OBVIOUS
  <1>2. r[n + 1] = k /\ \A j \in 1..n : r[j] = e[j]
    OBVIOUS
  <1>3. \A j \in 1..n : Aside(c[e[j]], c[k]) /\ Aside(c[k], c[e[j]])
    BY <1>1 DEF Covered, Aside
  <1> HIDE DEF r, n
  <1>4. Spread(r, c)
    <2> SUFFICES ASSUME NEW a \in DOMAIN r, NEW b \in DOMAIN r, a # b
                 PROVE  Aside(c[r[a]], c[r[b]])
      BY DEF Spread
    <2>1. CASE a = n + 1
      <3>1. b \in 1..n
        BY <1>1, <2>1
      <3> QED BY <1>2, <1>3, <2>1, <3>1
    <2>2. CASE b = n + 1
      <3>1. a \in 1..n
        BY <1>1, <2>2
      <3> QED BY <1>2, <1>3, <2>2, <3>1
    <2>3. CASE a # n + 1 /\ b # n + 1
      <3>1. a \in DOMAIN e /\ b \in DOMAIN e
        BY <1>1, <2>3
      <3>2. r[a] = e[a] /\ r[b] = e[b]
        BY <1>1, <1>2, <3>1
      <3> QED BY <3>1, <3>2 DEF Spread
    <2> QED BY <2>1, <2>2, <2>3
  <1>5. Covered(r, c) = Covered(e, c) \cup c[k]
    <2>1. ASSUME NEW x \in Covered(r, c)
          PROVE  x \in Covered(e, c) \cup c[k]
      <3>1. PICK j \in DOMAIN r : x \in c[r[j]]
        BY <2>1 DEF Covered
      <3>2. CASE j = n + 1
        BY <1>2, <3>1, <3>2
      <3>3. CASE j # n + 1
        <4>1. j \in DOMAIN e /\ r[j] = e[j]
          BY <1>1, <1>2, <3>3
        <4> QED BY <3>1, <4>1 DEF Covered
      <3> QED BY <3>2, <3>3
    <2>2. ASSUME NEW x \in Covered(e, c)
          PROVE  x \in Covered(r, c)
      <3>1. PICK j \in DOMAIN e : x \in c[e[j]]
        BY <2>2 DEF Covered
      <3>2. j \in DOMAIN r /\ r[j] = e[j]
        BY <1>1, <1>2
      <3> QED BY <3>1, <3>2 DEF Covered
    <2>3. ASSUME NEW x \in c[k]
          PROVE  x \in Covered(r, c)
      <3>1. n + 1 \in DOMAIN r
        BY <1>1
      <3> QED BY <1>2, <2>3, <3>1 DEF Covered
    <2> QED BY <2>1, <2>2, <2>3
  <1> QED BY <1>1, <1>4, <1>5 DEF r, n

\* A sequence cut in two.
LEMMA EntriesCut ==
    ASSUME NEW K, NEW c, NEW e \in Seq(K), Spread(e, c), NEW m \in 0..Len(e)
    PROVE  /\ SubSeq(e, 1, m) \in Seq(K) /\ Len(SubSeq(e, 1, m)) = m
           /\ Spread(SubSeq(e, 1, m), c)
           /\ SubSeq(e, m + 1, Len(e)) \in Seq(K)
           /\ Len(SubSeq(e, m + 1, Len(e))) = Len(e) - m
           /\ Spread(SubSeq(e, m + 1, Len(e)), c)
           /\ Covered(SubSeq(e, 1, m), c) \cup Covered(SubSeq(e, m + 1, Len(e)), c)
                = Covered(e, c)
           /\ Aside(Covered(SubSeq(e, 1, m), c), Covered(SubSeq(e, m + 1, Len(e)), c))
  <1> DEFINE n == Len(e)
             p == SubSeq(e, 1, m)
             q == SubSeq(e, m + 1, Len(e))
  <1>1. n \in Nat /\ m \in Nat /\ m <= n /\ DOMAIN e = 1..n
    OBVIOUS
  <1>2. p \in Seq(K) /\ Len(p) = m /\ DOMAIN p = 1..m /\ \A j \in 1..m : p[j] = e[j]
    BY <1>1
  <1>3. /\ q \in Seq(K) /\ Len(q) = n - m /\ DOMAIN q = 1..(n - m)
        /\ \A j \in 1..(n - m) : q[j] = e[m + j]
    <2>1. CASE m = n
      BY <1>1, <2>1
    <2>2. CASE m # n
      <3>1. m + 1 \in 1..n /\ n - m \in Nat /\ n - (m + 1) + 1 = n - m
        <4> HIDE DEF n
        <4> QED BY <1>1, <2>2
      <3>2. q \in Seq(K)
        BY <1>1, <3>1
      <3>3. Len(q) = n - m
        BY <1>1, <3>1
      <3>4. \A j \in 1..(n - m) : q[j] = e[m + j]
        BY <1>1, <3>1
      <3> QED BY <3>2, <3>3, <3>4
    <2> QED BY <2>1, <2>2
  <1> HIDE DEF n, p, q
  <1>4. Spread(p, c)
    <2> SUFFICES ASSUME NEW a \in DOMAIN p, NEW b \in DOMAIN p, a # b
                 PROVE  Aside(c[p[a]], c[p[b]])
      BY DEF Spread
    <2>1. a \in DOMAIN e /\ b \in DOMAIN e /\ p[a] = e[a] /\ p[b] = e[b]
      BY <1>1, <1>2
    <2> QED BY <2>1 DEF Spread
  <1>5. Spread(q, c)
    <2> SUFFICES ASSUME NEW a \in DOMAIN q, NEW b \in DOMAIN q, a # b
                 PROVE  Aside(c[q[a]], c[q[b]])
      BY DEF Spread
    <2>1. m + a \in DOMAIN e /\ m + b \in DOMAIN e /\ m + a # m + b
      BY <1>1, <1>3
    <2>2. q[a] = e[m + a] /\ q[b] = e[m + b]
      BY <1>3
    <2> QED BY <2>1, <2>2 DEF Spread
  <1>6. Covered(p, c) \cup Covered(q, c) = Covered(e, c)
    <2>1. ASSUME NEW x \in Covered(p, c)
          PROVE  x \in Covered(e, c)
      <3>1. PICK j \in DOMAIN p : x \in c[p[j]]
        BY <2>1 DEF Covered
      <3>2. j \in DOMAIN e /\ p[j] = e[j]
        BY <1>1, <1>2
      <3> QED BY <3>1, <3>2 DEF Covered
    <2>2. ASSUME NEW x \in Covered(q, c)
          PROVE  x \in Covered(e, c)
      <3>1. PICK j \in DOMAIN q : x \in c[q[j]]
        BY <2>2 DEF Covered
      <3>2. m + j \in DOMAIN e /\ q[j] = e[m + j]
        BY <1>1, <1>3
      <3> QED BY <3>1, <3>2 DEF Covered
    <2>3. ASSUME NEW x \in Covered(e, c)
          PROVE  x \in Covered(p, c) \cup Covered(q, c)
      <3>1. PICK j \in DOMAIN e : x \in c[e[j]]
        BY <2>3 DEF Covered
      <3>2. CASE j <= m
        <4>1. j \in DOMAIN p /\ p[j] = e[j]
          BY <1>1, <1>2, <3>2
        <4> QED BY <3>1, <4>1 DEF Covered
      <3>3. CASE ~(j <= m)
        <4>1. j - m \in 1..(n - m) /\ m + (j - m) = j
          BY <1>1, <3>1, <3>3
        <4>2. j - m \in DOMAIN q /\ q[j - m] = e[j]
          BY <1>3, <4>1
        <4> QED BY <3>1, <4>1, <4>2 DEF Covered
      <3> QED BY <3>2, <3>3
    <2> QED BY <2>1, <2>2, <2>3
  <1>7. Aside(Covered(p, c), Covered(q, c))
    <2> SUFFICES ASSUME NEW x \in Covered(p, c), NEW y \in Covered(q, c)
                 PROVE  x.id # y.id
      BY DEF Aside
    <2>1. PICK i \in DOMAIN p : x \in c[p[i]]
      BY DEF Covered
    <2>2. PICK j \in DOMAIN q : y \in c[q[j]]
      BY DEF Covered
    <2>3. /\ i \in DOMAIN e /\ p[i] = e[i]
          /\ m + j \in DOMAIN e /\ q[j] = e[m + j] /\ i # m + j
      BY <1>1, <1>2, <1>3
    <2>4. Aside(c[e[i]], c[e[m + j]])
      BY <2>3 DEF Spread
    <2> QED BY <2>1, <2>2, <2>3, <2>4 DEF Aside
  <1> QED BY <1>1, <1>2, <1>3, <1>4, <1>5, <1>6, <1>7 DEF n, p, q

\* Sequences that have nothing in common, put together.
LEMMA FlattenSpread ==
    ASSUME NEW X, NEW c, NEW s \in Seq(Seq(X)), \A k \in DOMAIN s : Spread(s[k], c),
           \A k, l \in DOMAIN s : k # l => Aside(Covered(s[k], c), Covered(s[l], c))
    PROVE  /\ FlattenSeq(s) \in Seq(X) /\ Spread(FlattenSeq(s), c)
           /\ Covered(FlattenSeq(s), c) = UNION {Covered(s[k], c) : k \in DOMAIN s}
  <1> DEFINE R == {p \in X \X X : Aside(c[p[1]], c[p[2]])}
             f == FlattenSeq(s)
  <1>1. \A k \in DOMAIN s : s[k] \in Seq(X)
    OBVIOUS
  <1>2. \A k \in DOMAIN s : \A i \in DOMAIN s[k] : s[k][i] \in X
    BY <1>1
  <1>3. \A a, b \in X : <<a, b>> \in R <=> Aside(c[a], c[b])
    OBVIOUS
  <1> HIDE DEF R
  <1>4. PairwiseTogether(s, R)
    <2>1. ASSUME NEW k \in DOMAIN s
          PROVE  Pairwise(s[k], R)
      <3>1. \A i \in DOMAIN s[k] : s[k][i] \in X
        BY <1>2, <2>1
      <3> QED BY <1>3, <2>1, <3>1 DEF Pairwise, Spread
    <2>2. ASSUME NEW k \in DOMAIN s, NEW l \in DOMAIN s, k # l,
                 NEW i \in DOMAIN s[k], NEW j \in DOMAIN s[l]
          PROVE  <<s[k][i], s[l][j]>> \in R
      <3>1. s[k][i] \in X /\ s[l][j] \in X
        BY <1>2, <2>2
      <3>2. Aside(Covered(s[k], c), Covered(s[l], c))
        BY <2>2
      <3>3. c[s[k][i]] \subseteq Covered(s[k], c) /\ c[s[l][j]] \subseteq Covered(s[l], c)
        BY <2>2 DEF Covered
      <3>4. Aside(c[s[k][i]], c[s[l][j]])
        BY <3>2, <3>3 DEF Aside
      <3> QED BY <1>3, <3>1, <3>4
    <2> QED BY <2>1, <2>2 DEF PairwiseTogether
  <1>5. f \in Seq(X) /\ ToSet(f) = UNION {ToSet(s[k]) : k \in DOMAIN s}
    BY FlattenHas
  <1>6. Pairwise(f, R)
    BY <1>4, FlattenPairwise
  <1> HIDE DEF f
  <1>7. \A i \in DOMAIN f : f[i] \in X
    BY <1>5
  <1>8. Spread(f, c)
    BY <1>3, <1>6, <1>7 DEF Pairwise, Spread
  <1>9. Covered(f, c) = UNION {Covered(s[k], c) : k \in DOMAIN s}
    <2>1. ASSUME NEW x \in Covered(f, c)
          PROVE  \E k \in DOMAIN s : x \in Covered(s[k], c)
      <3>1. PICK i \in DOMAIN f : x \in c[f[i]]
        BY <2>1 DEF Covered
      <3>2. f[i] \in ToSet(f)
        BY DEF ToSet
      <3>3. PICK k \in DOMAIN s : f[i] \in ToSet(s[k])
        BY <1>5, <3>2
      <3>4. PICK j \in DOMAIN s[k] : s[k][j] = f[i]
        BY <3>3 DEF ToSet
      <3> QED BY <3>1, <3>4 DEF Covered
    <2>2. ASSUME NEW k \in DOMAIN s, NEW x \in Covered(s[k], c)
          PROVE  x \in Covered(f, c)
      <3>1. PICK j \in DOMAIN s[k] : x \in c[s[k][j]]
        BY <2>2 DEF Covered
      <3>2. s[k][j] \in ToSet(s[k])
        BY DEF ToSet
      <3>3. s[k][j] \in ToSet(f)
        BY <1>5, <3>2
      <3>4. PICK i \in DOMAIN f : f[i] = s[k][j]
        BY <3>3 DEF ToSet
      <3> QED BY <3>1, <3>4 DEF Covered
    <2> QED BY <2>1, <2>2
  <1> QED BY <1>5, <1>8, <1>9 DEF f

\* A sequence without repetitions is as long as it has elements.
LEMMA LengthIs ==
    ASSUME NEW E, NEW s \in Seq(E), \A i, j \in DOMAIN s : s[i] = s[j] => i = j
    PROVE  IsFiniteSet(ToSet(s)) /\ Cardinality(ToSet(s)) = Len(s)
  <1> DEFINE n == Len(s)
             S == ToSet(s)
             f == [i \in 1..n |-> s[i]]
  <1>1. n \in Nat /\ DOMAIN s = 1..n
    OBVIOUS
  <1>2. f \in [1..n -> S] /\ \A i, j \in 1..n : f[i] = f[j] => i = j
    BY <1>1 DEF ToSet
  <1>3. \A x \in S : \E i \in 1..n : f[i] = x
    BY <1>1 DEF ToSet
  <1> HIDE DEF f, S, n
  <1>4. f \in Bijection(1..n, S)
    BY <1>2, <1>3 DEF Bijection, Injection, Surjection, IsInjective
  <1>5. ExistsBijection(1..n, S)
    BY <1>4 DEF ExistsBijection
  <1>6. IsFiniteSet(S) /\ Cardinality(S) = n
    BY <1>1, <1>5, FS_CountingElements, FS_NatBijection
  <1> QED BY <1>6 DEF S, n

\* One more item is finite, too.
LEMMA OneMore ==
    ASSUME NEW S, IsFiniteSet(S), NEW x, x \notin S
    PROVE  IsFiniteSet(S \cup {x}) /\ Cardinality(S \cup {x}) = Cardinality(S) + 1
  BY FS_AddElement

\* An insertion keeps it, whether it succeeds, splits the root or fails.

=============================================================================
