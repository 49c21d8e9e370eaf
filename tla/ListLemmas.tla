----------------------------- MODULE ListLemmas -----------------------------
(***************************************************************************)
(* What removing an element from a list, inserting one and looking for the *)
(* first of a kind do, for the proofs about the schedulers' queues.        *)
(***************************************************************************)
EXTENDS Integers, Sequences, SequencesExt, SequenceTheorems, FiniteSetTheorems,
        WellFoundedInduction, Sums, TLAPS

\* A set of numbers that is not empty has a least element.
LEMMA LeastNat ==
  ASSUME NEW T, T \subseteq Nat, T # {}
  PROVE  \E x \in T : \A y \in T : x <= y
<1>1. PICK x \in T : \A y \in T : <<y, x>> \notin OpToRel(<, Nat)
  BY WFMin, NatLessThanWellFounded, Zenon
<1>2. \A y \in T : ~(y < x)
  BY <1>1, Zenon DEF OpToRel
<1>3. x \in Nat /\ \A y \in T : y \in Nat
  OBVIOUS
<1>4. \A y \in T : x <= y
  BY <1>2, <1>3
<1>5. QED
  BY <1>4

\* The place of the first element of a kind that is at the places I.
LEMMA FirstOfKind ==
  ASSUME NEW n \in Nat, NEW I \in SUBSET (1 .. n), NEW k, k = IF I # {} THEN Min(I) ELSE 0
  PROVE  \/ k = 0 /\ I = {}
         \/ k \in I /\ \A i \in 1 .. k - 1 : i \in 1 .. n /\ i \notin I
<1>1. CASE I = {}
  BY <1>1
<1>2. CASE I # {}
  <2>1. PICK x \in I : \A y \in I : x <= y
    <3>1. I \subseteq Nat
      OBVIOUS
    <3>2. QED
      BY <1>2, <3>1, LeastNat
  <2>2. Min(I) \in I /\ \A y \in I : Min(I) <= y
    BY <2>1 DEF Min
  <2>3. k \in I /\ \A y \in I : k <= y
    BY <1>2, <2>2, Zenon
  <2>4. \A i \in 1 .. k - 1 : i \in 1 .. n /\ i \notin I
    BY <2>3
  <2>5. QED
    BY <2>3, <2>4
<1>3. QED
  BY <1>1, <1>2

\* The elements of a list from the m-th to the n-th.
LEMMA SubSeqElements ==
  ASSUME NEW S, NEW s \in Seq(S), NEW m \in 1 .. Len(s) + 1, NEW n \in 0 .. Len(s)
  PROVE  /\ SubSeq(s, m, n) \in Seq(S)
         /\ Len(SubSeq(s, m, n)) = IF m <= n THEN n - m + 1 ELSE 0
         /\ \A i \in 1 .. n - m + 1 : SubSeq(s, m, n)[i] = s[m + i - 1]
<1>1. \A i \in m .. n : s[i] \in S
  OBVIOUS
<1>2. m \in Int /\ n \in Int
  OBVIOUS
<1>3. QED
  BY <1>1, <1>2, SubSeqProperties

\* A list without its k-th element: the later elements move up by one.
LEMMA RemoveAtElements ==
  ASSUME NEW S, NEW s \in Seq(S), NEW k \in DOMAIN s
  PROVE  /\ RemoveAt(s, k) \in Seq(S)
         /\ Len(RemoveAt(s, k)) = Len(s) - 1
         /\ \A i \in 1 .. Len(s) - 1 : RemoveAt(s, k)[i] = IF i < k THEN s[i] ELSE s[i+1]
<1> DEFINE u == SubSeq(s, 1, k-1)
           v == SubSeq(s, k+1, Len(s))
<1>1. k \in 1 .. Len(s) /\ Len(s) \in Nat
  OBVIOUS
<1>2. u \in Seq(S) /\ Len(u) = k - 1 /\ \A i \in 1 .. k - 1 : u[i] = s[i]
  <2>1. 1 \in 1 .. Len(s) + 1 /\ k - 1 \in 0 .. Len(s)
    BY <1>1
  <2>2. /\ u \in Seq(S)
        /\ Len(u) = IF 1 <= k - 1 THEN (k - 1) - 1 + 1 ELSE 0
        /\ \A i \in 1 .. (k - 1) - 1 + 1 : u[i] = s[1 + i - 1]
    BY <2>1, SubSeqElements
  <2> HIDE DEF u
  <2>3. (k - 1) - 1 + 1 = k - 1 /\ (IF 1 <= k - 1 THEN (k - 1) - 1 + 1 ELSE 0) = k - 1
    BY <1>1
  <2>4. \A i \in 1 .. k - 1 : 1 + i - 1 = i
    BY <1>1
  <2>5. QED
    BY <2>2, <2>3, <2>4
<1>3. v \in Seq(S) /\ Len(v) = Len(s) - k /\ \A i \in 1 .. Len(s) - k : v[i] = s[k + i]
  <2>1. k + 1 \in 1 .. Len(s) + 1 /\ Len(s) \in 0 .. Len(s)
    BY <1>1
  <2>2. /\ v \in Seq(S)
        /\ Len(v) = IF k + 1 <= Len(s) THEN Len(s) - (k + 1) + 1 ELSE 0
        /\ \A i \in 1 .. Len(s) - (k + 1) + 1 : v[i] = s[k + 1 + i - 1]
    BY <2>1, SubSeqElements
  <2> HIDE DEF v
  <2>3. QED
    BY <1>1, <2>2
<1>4. RemoveAt(s, k) = u \o v
  BY DEF RemoveAt
<1> HIDE DEF u, v
<1>5. /\ u \o v \in Seq(S)
      /\ Len(u \o v) = Len(u) + Len(v)
      /\ \A i \in 1 .. Len(u) + Len(v) :
           (u \o v)[i] = IF i <= Len(u) THEN u[i] ELSE v[i - Len(u)]
  BY <1>2, <1>3, ConcatProperties
<1>6. Len(u) + Len(v) = Len(s) - 1
  BY <1>1, <1>2, <1>3
<1>7. ASSUME NEW i \in 1 .. Len(s) - 1
      PROVE  (u \o v)[i] = IF i < k THEN s[i] ELSE s[i+1]
  <2>1. (u \o v)[i] = IF i <= k - 1 THEN u[i] ELSE v[i - (k - 1)]
    BY <1>2, <1>5, <1>6
  <2>2. CASE i < k
    BY <1>1, <1>2, <2>1, <2>2
  <2>3. CASE ~(i < k)
    <3>1. i - (k - 1) \in 1 .. Len(s) - k /\ k + (i - (k - 1)) = i + 1 /\ ~(i <= k - 1)
      BY <1>1, <2>3
    <3>2. v[i - (k - 1)] = s[i + 1]
      BY <1>3, <3>1
    <3>3. QED
      BY <2>1, <2>3, <3>1, <3>2
  <2>4. QED
    BY <2>2, <2>3
<1>8. QED
  BY <1>4, <1>5, <1>6, <1>7

\* A list with an element inserted at place k: the later elements move down by one.
LEMMA InsertAtElements ==
  ASSUME NEW S, NEW s \in Seq(S), NEW k \in 1 .. Len(s) + 1, NEW e \in S
  PROVE  /\ InsertAt(s, k, e) \in Seq(S)
         /\ Len(InsertAt(s, k, e)) = Len(s) + 1
         /\ \A i \in 1 .. Len(s) + 1 :
              InsertAt(s, k, e)[i] = IF i < k THEN s[i] ELSE IF i = k THEN e ELSE s[i-1]
<1> DEFINE u == SubSeq(s, 1, k-1)
           v == SubSeq(s, k, Len(s))
           w == u \o <<e>>
<1>1. k \in 1 .. Len(s) + 1 /\ Len(s) \in Nat
  OBVIOUS
<1>2. u \in Seq(S) /\ Len(u) = k - 1 /\ \A i \in 1 .. k - 1 : u[i] = s[i]
  <2>1. 1 \in 1 .. Len(s) + 1 /\ k - 1 \in 0 .. Len(s)
    BY <1>1
  <2>2. /\ u \in Seq(S)
        /\ Len(u) = IF 1 <= k - 1 THEN (k - 1) - 1 + 1 ELSE 0
        /\ \A i \in 1 .. (k - 1) - 1 + 1 : u[i] = s[1 + i - 1]
    BY <2>1, SubSeqElements
  <2> HIDE DEF u
  <2>3. (k - 1) - 1 + 1 = k - 1 /\ (IF 1 <= k - 1 THEN (k - 1) - 1 + 1 ELSE 0) = k - 1
    BY <1>1
  <2>4. \A i \in 1 .. k - 1 : 1 + i - 1 = i
    BY <1>1
  <2>5. QED
    BY <2>2, <2>3, <2>4
<1>3. v \in Seq(S) /\ Len(v) = Len(s) - k + 1
      /\ \A i \in 1 .. Len(s) - k + 1 : v[i] = s[k + i - 1]
  <2>1. Len(s) \in 0 .. Len(s)
    BY <1>1
  <2>2. /\ v \in Seq(S)
        /\ Len(v) = IF k <= Len(s) THEN Len(s) - k + 1 ELSE 0
        /\ \A i \in 1 .. Len(s) - k + 1 : v[i] = s[k + i - 1]
    BY <2>1, SubSeqElements
  <2> HIDE DEF v
  <2>3. QED
    BY <1>1, <2>2
<1>4. InsertAt(s, k, e) = w \o v
  BY DEF InsertAt
<1> HIDE DEF u, v
<1>5. /\ w \in Seq(S) /\ Len(w) = k
      /\ \A i \in 1 .. k : w[i] = IF i < k THEN s[i] ELSE e
  <2>1. <<e>> \in Seq(S) /\ Len(<<e>>) = 1 /\ <<e>>[1] = e
    OBVIOUS
  <2>2. /\ w \in Seq(S) /\ Len(w) = Len(u) + Len(<<e>>)
        /\ \A i \in 1 .. Len(u) + Len(<<e>>) :
             w[i] = IF i <= Len(u) THEN u[i] ELSE <<e>>[i - Len(u)]
    BY <1>2, <2>1, ConcatProperties
  <2>3. Len(u) + Len(<<e>>) = k
    BY <1>1, <1>2, <2>1
  <2>4. ASSUME NEW i \in 1 .. k
        PROVE  w[i] = IF i < k THEN s[i] ELSE e
    <3>1. w[i] = IF i <= k - 1 THEN u[i] ELSE <<e>>[i - (k - 1)]
      BY <1>2, <2>2, <2>3
    <3>2. CASE i < k
      BY <1>1, <1>2, <3>1, <3>2
    <3>3. CASE ~(i < k)
      <4>1. i - (k - 1) = 1 /\ ~(i <= k - 1)
        BY <1>1, <3>3
      <4>2. QED
        BY <2>1, <3>1, <3>3, <4>1
    <3>4. QED
      BY <3>2, <3>3
  <2>5. QED
    BY <2>2, <2>3, <2>4
<1> HIDE DEF w
<1>6. /\ w \o v \in Seq(S)
      /\ Len(w \o v) = Len(w) + Len(v)
      /\ \A i \in 1 .. Len(w) + Len(v) :
           (w \o v)[i] = IF i <= Len(w) THEN w[i] ELSE v[i - Len(w)]
  BY <1>3, <1>5, ConcatProperties
<1>7. QED
  BY <1>1, <1>3, <1>4, <1>5, <1>6

-----------------------------------------------------------------------------
(* Lists joined to one list. *)

\* The elements of two lists one after the other.
LEMMA ConcatElements ==
  ASSUME NEW S, NEW s \in Seq(S), NEW t \in Seq(S)
  PROVE  /\ s \o t \in Seq(S)
         /\ ToSet(s \o t) = ToSet(s) \cup ToSet(t)
         /\ IsInjective(s) /\ IsInjective(t) /\ ToSet(s) \cap ToSet(t) = {}
              => IsInjective(s \o t)
<1>1. /\ s \o t \in Seq(S) /\ Len(s \o t) = Len(s) + Len(t)
      /\ Len(s) \in Nat /\ Len(t) \in Nat
      /\ DOMAIN s = 1 .. Len(s) /\ DOMAIN t = 1 .. Len(t)
  OBVIOUS
<1> DEFINE u == s \o t
<1>2. /\ \A i \in 1 .. Len(s) : u[i] = s[i]
      /\ \A i \in 1 .. Len(t) : u[Len(s) + i] = t[i]
      /\ DOMAIN u = 1 .. Len(s) + Len(t)
  BY <1>1
<1> HIDE DEF u
<1>3. ASSUME NEW i \in DOMAIN u
      PROVE  \/ i \in DOMAIN s /\ u[i] = s[i]
             \/ i - Len(s) \in DOMAIN t /\ u[i] = t[i - Len(s)]
  <2>1. CASE i <= Len(s)
    BY <1>1, <1>2, <2>1
  <2>2. CASE i > Len(s)
    <3>1. i - Len(s) \in 1 .. Len(t) /\ i = Len(s) + (i - Len(s))
      BY <1>1, <1>2, <2>2
    <3>2. QED
      BY <1>1, <1>2, <3>1
  <2>3. QED
    BY <1>1, <1>2, <2>1, <2>2
<1>4. ToSet(u) = ToSet(s) \cup ToSet(t)
  <2>1. ASSUME NEW x \in ToSet(u) PROVE x \in ToSet(s) \cup ToSet(t)
    BY <1>3 DEF ToSet
  <2>2. ASSUME NEW x \in ToSet(s) PROVE x \in ToSet(u)
    <3>1. PICK i \in DOMAIN s : x = s[i]
      BY DEF ToSet
    <3>2. i \in DOMAIN u /\ u[i] = x
      BY <1>1, <1>2, <3>1
    <3>3. QED
      BY <3>2 DEF ToSet
  <2>3. ASSUME NEW x \in ToSet(t) PROVE x \in ToSet(u)
    <3>1. PICK i \in DOMAIN t : x = t[i]
      BY DEF ToSet
    <3>2. Len(s) + i \in DOMAIN u /\ u[Len(s) + i] = x
      BY <1>1, <1>2, <3>1
    <3>3. QED
      BY <3>2 DEF ToSet
  <2>4. QED
    BY <2>1, <2>2, <2>3
<1>5. ASSUME IsInjective(s), IsInjective(t), ToSet(s) \cap ToSet(t) = {}
      PROVE  IsInjective(u)
  <2> SUFFICES ASSUME NEW a \in DOMAIN u, NEW b \in DOMAIN u, u[a] = u[b] PROVE a = b
    BY DEF IsInjective
  <2>1. a \in Int /\ b \in Int
    BY <1>1, <1>2
  <2>2. \A i \in DOMAIN s, j \in DOMAIN t : s[i] # t[j]
    BY <1>5 DEF ToSet
  <2>3. CASE a \in DOMAIN s /\ u[a] = s[a] /\ b \in DOMAIN s /\ u[b] = s[b]
    BY <1>5, <2>3 DEF IsInjective
  <2>4. CASE /\ a - Len(s) \in DOMAIN t /\ u[a] = t[a - Len(s)]
             /\ b - Len(s) \in DOMAIN t /\ u[b] = t[b - Len(s)]
    <3>1. a - Len(s) = b - Len(s)
      BY <1>5, <2>4 DEF IsInjective
    <3>2. QED
      BY <1>1, <2>1, <3>1
  <2>5. QED
    BY <1>3, <2>2, <2>3, <2>4
<1>6. QED
  BY <1>1, <1>4, <1>5 DEF u

\* One element is appended.
LEMMA AppendElements ==
  ASSUME NEW S, NEW s \in Seq(S), NEW x \in S
  PROVE  /\ Append(s, x) \in Seq(S) /\ Append(s, x) # <<>>
         /\ ToSet(Append(s, x)) = ToSet(s) \cup {x}
         /\ IsInjective(s) /\ x \notin ToSet(s) => IsInjective(Append(s, x))
<1> DEFINE t == <<x>>
<1>1. t \in Seq(S) /\ IsInjective(t) /\ ToSet(t) = {x}
  BY DEF IsInjective, ToSet
<1>2. Append(s, x) = s \o t /\ Append(s, x) # <<>>
  OBVIOUS
<1> HIDE DEF t
<1>3. /\ s \o t \in Seq(S) /\ ToSet(s \o t) = ToSet(s) \cup ToSet(t)
      /\ IsInjective(s) /\ IsInjective(t) /\ ToSet(s) \cap ToSet(t) = {}
           => IsInjective(s \o t)
  BY <1>1, ConcatElements
<1>4. x \notin ToSet(s) => ToSet(s) \cap ToSet(t) = {}
  BY <1>1
<1>5. QED
  BY <1>1, <1>2, <1>3, <1>4

\* The function that FlattenSeq is defined by, up to the n-th list.
Flattening(ss, n) ==
  CHOOSE f : f = [i \in 1 .. n |-> IF i = 1 THEN ss[i] ELSE f[i-1] \o ss[i]]

\* It is well defined.
LEMMA FlatteningDef ==
  ASSUME NEW ss, NEW n \in Nat
  PROVE  Flattening(ss, n) =
           [i \in 1 .. n |-> IF i = 1 THEN ss[i] ELSE Flattening(ss, n)[i-1] \o ss[i]]
<1> DEFINE Flat(f, m) == f = [i \in 1 .. m |-> IF i = 1 THEN ss[i] ELSE f[i-1] \o ss[i]]
           Bad == {m \in Nat : ~\E f : Flat(f, m)}
<1>1. ASSUME Bad = {} PROVE \E f : Flat(f, n)
  BY <1>1
<1>2. ASSUME Bad # {} PROVE FALSE
  <2>1. PICK m \in Bad : \A j \in Bad : m <= j
    BY <1>2, LeastNat
  <2>2. m # 0
    <3> DEFINE f == [i \in 1 .. 0 |-> ss[i]]
    <3>1. f = [i \in 1 .. 0 |-> IF i = 1 THEN ss[i] ELSE f[i-1] \o ss[i]]
      <4>1. \A i \in 1 .. 0 : FALSE
        OBVIOUS
      <4>2. QED
        BY <4>1, Zenon
    <3>2. QED
      BY <3>1
  <2>3. m - 1 \in Nat /\ m \in Nat
    BY <2>2
  <2> HIDE DEF Flat
  <2>4. PICK f : Flat(f, m - 1)
    <3>1. ~(m <= m - 1)
      BY <2>3
    <3>2. m - 1 \notin Bad
      BY <2>1, <3>1
    <3>3. QED
      BY <2>3, <3>2
  <2> USE DEF Flat
  <2> DEFINE g == [i \in 1 .. m |-> IF i = m THEN (IF m = 1 THEN ss[m] ELSE f[m-1] \o ss[m])
                                    ELSE f[i]]
  <2>5. ASSUME NEW i \in 1 .. m
        PROVE  g[i] = IF i = 1 THEN ss[i] ELSE g[i-1] \o ss[i]
    <3>1. CASE i = m /\ m # 1
      <4>1. i - 1 \in 1 .. m /\ i - 1 # m
        BY <2>3, <3>1
      <4>2. g[i-1] = f[i-1]
        BY <4>1
      <4>3. QED
        BY <3>1, <4>2
    <3>2. CASE i = m /\ m = 1
      BY <3>2
    <3>3. CASE i # m
      <4>1. i \in 1 .. m - 1
        BY <2>3, <3>3
      <4>2. f[i] = IF i = 1 THEN ss[i] ELSE f[i-1] \o ss[i]
        BY <2>4, <4>1
      <4>3. CASE i = 1
        BY <3>3, <4>2, <4>3
      <4>4. CASE i # 1
        <5>1. i - 1 \in 1 .. m /\ i - 1 # m
          BY <2>3, <4>1, <4>4
        <5>2. g[i-1] = f[i-1]
          BY <5>1
        <5>3. QED
          BY <3>3, <4>2, <4>4, <5>2
      <4>5. QED
        BY <4>3, <4>4
    <3>4. QED
      BY <3>1, <3>2, <3>3
  <2> HIDE DEF Flat
  <2>6. Flat(g, m)
    <3>1. g = [i \in 1 .. m |-> g[i]]
      BY Zenon
    <3> HIDE DEF g
    <3>2. g = [i \in 1 .. m |-> IF i = 1 THEN ss[i] ELSE g[i-1] \o ss[i]]
      BY <2>5, <3>1, Zenon
    <3>3. QED
      BY <3>2 DEF Flat
  <2>7. QED
    BY <2>1, <2>6
<1>3. \E f : f = [i \in 1 .. n |-> IF i = 1 THEN ss[i] ELSE f[i-1] \o ss[i]]
  BY <1>1, <1>2
<1>4. QED
  BY <1>3, Zenon DEF Flattening

\* Lists that share no element, one after the other.
LEMMA FlattenSeqElements ==
  ASSUME NEW S, NEW ss \in Seq(Seq(S)),
         \A i \in DOMAIN ss : IsInjective(ss[i]),
         \A i, j \in DOMAIN ss : i # j => ToSet(ss[i]) \cap ToSet(ss[j]) = {}
  PROVE  /\ FlattenSeq(ss) \in Seq(S)
         /\ IsInjective(FlattenSeq(ss))
         /\ ToSet(FlattenSeq(ss)) = UNION {ToSet(ss[i]) : i \in DOMAIN ss}
<1> DEFINE n == Len(ss)
           f == Flattening(ss, n)
           Upto(k) == UNION {ToSet(ss[i]) : i \in 1 .. k}
           Good(k) == f[k] \in Seq(S) /\ IsInjective(f[k]) /\ ToSet(f[k]) = Upto(k)
           Bad == {k \in 1 .. n : ~Good(k)}
<1>1. n \in Nat /\ DOMAIN ss = 1 .. n /\ \A i \in 1 .. n : ss[i] \in Seq(S)
  OBVIOUS
<1>2. CASE n = 0
  <2>1. FlattenSeq(ss) = ss
    BY <1>2, Zenon DEF FlattenSeq
  <2>2. ss = <<>> /\ DOMAIN ss = {}
    BY <1>1, <1>2
  <2>3. ss \in Seq(S) /\ IsInjective(ss) /\ ToSet(ss) = {}
    BY <2>2 DEF IsInjective, ToSet
  <2>4. QED
    BY <2>1, <2>2, <2>3
<1>3. CASE n # 0
  <2>1. FlattenSeq(ss) = f[n]
    BY <1>3, Zenon DEF FlattenSeq, Flattening
  <2>2. \A i \in 1 .. n : f[i] = IF i = 1 THEN ss[i] ELSE f[i-1] \o ss[i]
    <3>1. f = [i \in 1 .. n |-> IF i = 1 THEN ss[i] ELSE f[i-1] \o ss[i]]
      BY <1>1, FlatteningDef
    <3> HIDE DEF f
    <3>2. QED
      BY <3>1
  <2> HIDE DEF f, Good
  <2>3. ASSUME NEW k \in 1 .. n, k # 1, Good(k - 1) PROVE Good(k)
    <3>1. k - 1 \in 1 .. n /\ f[k] = f[k-1] \o ss[k]
      <4>1. k - 1 \in 1 .. n
        BY <1>1, <2>3
      <4>2. f[k] = IF k = 1 THEN ss[k] ELSE f[k-1] \o ss[k]
        BY <2>2
      <4>3. QED
        BY <2>3, <4>1, <4>2
    <3>2. /\ f[k-1] \in Seq(S) /\ IsInjective(f[k-1]) /\ ToSet(f[k-1]) = Upto(k - 1)
          /\ ss[k] \in Seq(S) /\ IsInjective(ss[k])
      BY <1>1, <2>3 DEF Good
    <3>3. Upto(k - 1) \cap ToSet(ss[k]) = {}
      <4>1. \A i \in 1 .. k - 1 : i \in DOMAIN ss /\ i # k
        BY <1>1
      <4>2. \A i \in 1 .. k - 1 : ToSet(ss[i]) \cap ToSet(ss[k]) = {}
        BY <1>1, <4>1
      <4>3. QED
        BY <4>2
    <3>4. Upto(k) = Upto(k - 1) \cup ToSet(ss[k])
      <4>1. 1 .. k = (1 .. k - 1) \cup {k}
        BY <1>1
      <4>2. QED
        BY <4>1
    <3> HIDE DEF Upto
    <3>5. /\ f[k] \in Seq(S) /\ ToSet(f[k]) = Upto(k - 1) \cup ToSet(ss[k])
          /\ IsInjective(f[k])
      BY <3>1, <3>2, <3>3, ConcatElements
    <3>6. QED
      BY <3>4, <3>5 DEF Good
  <2>4. Good(1)
    <3>1. 1 \in 1 .. n /\ f[1] = ss[1] /\ 1 \in DOMAIN ss
      BY <1>1, <1>3, <2>2
    <3>2. Upto(1) = ToSet(ss[1])
      <4>1. 1 .. 1 = {1}
        OBVIOUS
      <4>2. QED
        BY <4>1
    <3>3. ss[1] \in Seq(S) /\ IsInjective(ss[1])
      BY <1>1, <3>1
    <3>4. QED
      BY <3>1, <3>2, <3>3 DEF Good
  <2>5. Bad = {}
    <3> SUFFICES ASSUME Bad # {} PROVE FALSE
      OBVIOUS
    <3>1. PICK k \in Bad : \A j \in Bad : k <= j
      <4>1. Bad \subseteq Nat
        BY <1>1
      <4>2. QED
        BY <4>1, LeastNat
    <3>2. k # 1 /\ k \in 1 .. n /\ ~Good(k)
      BY <2>4, <3>1
    <3>3. k - 1 \in 1 .. n /\ ~(k <= k - 1)
      BY <1>1, <3>2
    <3>4. Good(k - 1)
      BY <3>1, <3>3
    <3>5. QED
      BY <2>3, <3>2, <3>4
  <2>6. Good(n)
    BY <1>1, <1>3, <2>5
  <2>7. QED
    BY <1>1, <2>1, <2>6 DEF Good
<1>4. QED
  BY <1>2, <1>3

\* A list and its first element.
LEMMA HeadTailElements ==
  ASSUME NEW S, NEW s \in Seq(S), s # <<>>
  PROVE  /\ Head(s) \in S /\ Tail(s) \in Seq(S) /\ Len(Tail(s)) = Len(s) - 1
         /\ ToSet(s) = {Head(s)} \cup ToSet(Tail(s))
         /\ IsInjective(s) => IsInjective(Tail(s)) /\ Head(s) \notin ToSet(Tail(s))
<1> DEFINE t == Tail(s)
<1>1. /\ Len(s) \in Nat \ {0} /\ DOMAIN s = 1 .. Len(s)
      /\ Head(s) = s[1] /\ Head(s) \in S
      /\ t \in Seq(S) /\ Len(t) = Len(s) - 1
      /\ \A i \in 1 .. Len(s) - 1 : t[i] = s[i+1]
  OBVIOUS
<1>2. DOMAIN t = 1 .. Len(s) - 1
  BY <1>1
<1> HIDE DEF t
<1>3. ToSet(s) = {Head(s)} \cup ToSet(t)
  <2>1. ASSUME NEW x \in ToSet(s) PROVE x \in {Head(s)} \cup ToSet(t)
    <3>1. PICK i \in 1 .. Len(s) : x = s[i]
      BY <1>1 DEF ToSet
    <3>2. CASE i = 1
      BY <1>1, <3>1, <3>2
    <3>3. CASE i # 1
      <4>1. i - 1 \in 1 .. Len(s) - 1 /\ (i - 1) + 1 = i
        BY <1>1, <3>3
      <4>2. t[i-1] = x
        BY <1>1, <3>1, <4>1
      <4>3. QED
        BY <1>2, <4>1, <4>2 DEF ToSet
    <3>4. QED
      BY <3>2, <3>3
  <2>2. ASSUME NEW i \in 1 .. Len(s) - 1 PROVE t[i] \in ToSet(s)
    <3>1. i + 1 \in DOMAIN s /\ t[i] = s[i+1]
      BY <1>1
    <3>2. QED
      BY <3>1 DEF ToSet
  <2>3. Head(s) \in ToSet(s)
    BY <1>1 DEF ToSet
  <2>4. QED
    BY <1>2, <2>1, <2>2, <2>3 DEF ToSet
<1>4. ASSUME IsInjective(s) PROVE IsInjective(t) /\ Head(s) \notin ToSet(t)
  <2>1. \A i \in 1 .. Len(s) - 1 : t[i] = s[i+1] /\ i + 1 \in DOMAIN s /\ i + 1 # 1
    BY <1>1
  <2>2. 1 \in DOMAIN s
    BY <1>1
  <2>3. \A i \in 1 .. Len(s) - 1 : t[i] # s[1]
    BY <1>4, <2>1, <2>2 DEF IsInjective
  <2>4. \A a, b \in 1 .. Len(s) - 1 : t[a] = t[b] => a + 1 = b + 1
    BY <1>4, <2>1 DEF IsInjective
  <2>5. \A a, b \in 1 .. Len(s) - 1 : a + 1 = b + 1 => a = b
    BY <1>1
  <2>6. QED
    BY <1>1, <1>2, <2>3, <2>4, <2>5 DEF IsInjective, ToSet
<1>5. QED
  BY <1>1, <1>3, <1>4 DEF t

\* A list cut in two after the n-th element.
LEMMA SplitElements ==
  ASSUME NEW S, NEW q \in Seq(S), IsInjective(q), NEW n \in 0 .. Len(q)
  PROVE  /\ SubSeq(q, 1, n) \in Seq(S) /\ IsInjective(SubSeq(q, 1, n))
         /\ ToSet(SubSeq(q, 1, n)) = {q[i] : i \in 1 .. n}
         /\ SubSeq(q, n + 1, Len(q)) \in Seq(S) /\ IsInjective(SubSeq(q, n + 1, Len(q)))
         /\ ToSet(SubSeq(q, n + 1, Len(q))) = ToSet(q) \ {q[i] : i \in 1 .. n}
         /\ n < Len(q) => Head(SubSeq(q, n + 1, Len(q))) = q[n + 1]
<1> DEFINE m == Len(q)
           u == SubSeq(q, 1, n)
           v == SubSeq(q, n + 1, Len(q))
<1>1. m \in Nat /\ DOMAIN q = 1 .. m /\ n \in 0 .. m /\ n \in Nat
  OBVIOUS
<1>2. u \in Seq(S) /\ DOMAIN u = 1 .. n /\ \A i \in 1 .. n : u[i] = q[i]
  <2>1. 1 \in 1 .. Len(q) + 1
    BY <1>1
  <2>2. /\ u \in Seq(S) /\ Len(u) = IF 1 <= n THEN n - 1 + 1 ELSE 0
        /\ \A i \in 1 .. n - 1 + 1 : u[i] = q[1 + i - 1]
    BY <2>1, SubSeqElements
  <2> HIDE DEF u
  <2>3. Len(u) = n
    BY <1>1, <2>2
  <2>4. ASSUME NEW i \in 1 .. n PROVE u[i] = q[i]
    <3>1. i \in 1 .. n - 1 + 1 /\ 1 + i - 1 = i
      BY <1>1
    <3>2. QED
      BY <2>2, <3>1
  <2>5. QED
    BY <2>2, <2>3, <2>4
<1>3. v \in Seq(S) /\ DOMAIN v = 1 .. m - n /\ \A i \in 1 .. m - n : v[i] = q[n + i]
  <2>1. n + 1 \in 1 .. Len(q) + 1 /\ Len(q) \in 0 .. Len(q)
    BY <1>1
  <2>2. /\ v \in Seq(S) /\ Len(v) = IF n + 1 <= Len(q) THEN Len(q) - (n + 1) + 1 ELSE 0
        /\ \A i \in 1 .. Len(q) - (n + 1) + 1 : v[i] = q[n + 1 + i - 1]
    BY <2>1, SubSeqElements
  <2> HIDE DEF v
  <2>3. Len(v) = IF n + 1 <= m THEN m - (n + 1) + 1 ELSE 0
    BY <2>2, Zenon
  <2>4. \A i \in 1 .. m - (n + 1) + 1 : v[i] = q[n + 1 + i - 1]
    BY <2>2
  <2> HIDE DEF m
  <2>5. Len(v) = m - n
    BY <1>1, <2>3
  <2>6. ASSUME NEW i \in 1 .. m - n PROVE v[i] = q[n + i]
    <3>1. i \in 1 .. m - (n + 1) + 1 /\ n + 1 + i - 1 = n + i
      BY <1>1
    <3>2. QED
      BY <2>4, <3>1
  <2>7. QED
    BY <2>2, <2>5, <2>6
<1>4. n < m => Head(v) = q[n + 1]
  <2> SUFFICES ASSUME n < m PROVE Head(v) = q[n + 1]
    OBVIOUS
  <2>1. 1 \in 1 .. m - n
    BY <1>1
  <2>2. v[1] = q[n + 1]
    BY <1>3, <2>1
  <2> HIDE DEF v
  <2>3. v # <<>>
    BY <1>3, <2>1
  <2>4. Head(v) = v[1]
    BY <1>3, <2>3
  <2>5. QED
    BY <2>2, <2>4
<1> HIDE DEF u, v, m
<1>5. IsInjective(u) /\ ToSet(u) = {q[i] : i \in 1 .. n}
  <2>1. \A i \in 1 .. n : i \in DOMAIN q
    BY <1>1
  <2>2. QED
    BY <1>2, <2>1 DEF IsInjective, ToSet
<1>6. IsInjective(v)
  <2> SUFFICES ASSUME NEW a \in 1 .. m - n, NEW b \in 1 .. m - n, v[a] = v[b] PROVE a = b
    BY <1>3 DEF IsInjective
  <2>1. n + a \in DOMAIN q /\ n + b \in DOMAIN q /\ q[n + a] = q[n + b]
    BY <1>1, <1>3
  <2>2. n + a = n + b
    BY <2>1 DEF IsInjective
  <2>3. QED
    BY <1>1, <2>2
<1>7. ToSet(v) = ToSet(q) \ {q[i] : i \in 1 .. n}
  <2>1. ASSUME NEW x \in ToSet(v) PROVE x \in ToSet(q) \ {q[i] : i \in 1 .. n}
    <3>1. PICK i \in 1 .. m - n : x = q[n + i]
      BY <1>3 DEF ToSet
    <3>2. n + i \in DOMAIN q /\ \A j \in 1 .. n : j \in DOMAIN q /\ j # n + i
      BY <1>1
    <3>3. QED
      BY <3>1, <3>2 DEF ToSet, IsInjective
  <2>2. ASSUME NEW x \in ToSet(q) \ {q[i] : i \in 1 .. n} PROVE x \in ToSet(v)
    <3>1. PICK i \in DOMAIN q : x = q[i]
      BY DEF ToSet
    <3>2. i - n \in 1 .. m - n /\ i = n + (i - n)
      BY <1>1, <3>1
    <3>3. QED
      BY <1>3, <3>1, <3>2 DEF ToSet
  <2>3. QED
    BY <2>1, <2>2
<1>8. QED
  BY <1>2, <1>3, <1>4, <1>5, <1>6, <1>7 DEF u, v, m

-----------------------------------------------------------------------------
(* How many elements of a list are in a set. *)

CountIn(s, D) == Cardinality({i \in DOMAIN s : s[i] \in D})

\* The count is a number; it is 0 if none is in the set, and 1 at most if only one is.
LEMMA CountInNat ==
  ASSUME NEW S, NEW s \in Seq(S), NEW D
  PROVE  /\ CountIn(s, D) \in Nat
         /\ CountIn(s, D) = 0 <=> \A i \in DOMAIN s : s[i] \notin D
         /\ CountIn(s, D) <= 1 =>
              \A i, j \in DOMAIN s : s[i] \in D /\ s[j] \in D => i = j
<1> DEFINE I == {i \in DOMAIN s : s[i] \in D}
<1>1. Len(s) \in Nat /\ DOMAIN s = 1 .. Len(s)
  OBVIOUS
<1>2. IsFiniteSet(I) /\ Cardinality(I) \in Nat
  <2>1. IsFiniteSet(1 .. Len(s))
    BY <1>1, FS_Interval
  <2>2. I \subseteq 1 .. Len(s)
    BY <1>1
  <2> HIDE DEF I
  <2>3. QED
    BY <2>1, <2>2, FS_Subset, FS_CardinalityType
<1>3. CountIn(s, D) = Cardinality(I)
  BY DEF CountIn
<1>4. \A i \in DOMAIN s : s[i] \in D <=> i \in I
  OBVIOUS
<1>5. I \subseteq DOMAIN s
  OBVIOUS
<1> HIDE DEF I
<1>6. Cardinality(I) = 0 <=> I = {}
  BY <1>2, FS_EmptySet
<1>7. ASSUME Cardinality(I) <= 1, NEW i \in I, NEW j \in I
      PROVE  i = j
  <2>1. Cardinality(I) = 1
    BY <1>2, <1>6, <1>7
  <2>2. PICK x : I = {x}
    BY <1>2, <2>1, FS_Singleton
  <2>3. QED
    BY <2>2
<1>8. QED
  BY <1>2, <1>3, <1>4, <1>5, <1>6, <1>7

\* The list t is s with the element e inserted at place k.
Inserted(s, t, k, e) ==
  /\ Len(t) = Len(s) + 1
  /\ \A i \in 1 .. Len(s) + 1 : t[i] = IF i < k THEN s[i] ELSE IF i = k THEN e ELSE s[i-1]

\* An element more counts if it is in the set.
LEMMA CountInInserted ==
  ASSUME NEW S, NEW s \in Seq(S), NEW t \in Seq(S), NEW k \in 1 .. Len(s) + 1, NEW e,
         Inserted(s, t, k, e), NEW D
  PROVE  CountIn(t, D) = CountIn(s, D) + IF e \in D THEN 1 ELSE 0
<1> DEFINE I == {i \in DOMAIN s : s[i] \in D}
           T == {i \in DOMAIN t : t[i] \in D}
           f == [i \in I |-> IF i < k THEN i ELSE i + 1]
           J == T \ {k}
<1>1. /\ Len(s) \in Nat /\ DOMAIN s = 1 .. Len(s) /\ DOMAIN t = 1 .. Len(s) + 1
      /\ k \in DOMAIN t /\ t[k] = e
      /\ \A i \in 1 .. Len(s) + 1 : t[i] = IF i < k THEN s[i] ELSE IF i = k THEN e ELSE s[i-1]
  BY DEF Inserted
<1>2. f \in Bijection(I, J)
  <2>1. ASSUME NEW i \in I PROVE f[i] \in J
    <3>1. i \in 1 .. Len(s) /\ s[i] \in D
      BY <1>1
    <3>2. CASE i < k
      BY <1>1, <3>1, <3>2
    <3>3. CASE ~(i < k)
      <4>1. f[i] = i + 1 /\ i + 1 \in 1 .. Len(s) + 1 /\ i + 1 # k /\ ~(i + 1 < k)
        BY <1>1, <3>1, <3>3
      <4>2. t[i+1] = s[i]
        BY <1>1, <3>1, <4>1
      <4>3. QED
        BY <1>1, <3>1, <4>1, <4>2
    <3>4. QED
      BY <3>2, <3>3
  <2>2. ASSUME NEW i \in I, NEW j \in I, f[i] = f[j] PROVE i = j
    BY <1>1, <2>2
  <2>3. ASSUME NEW m \in J PROVE \E i \in I : f[i] = m
    <3>1. m \in 1 .. Len(s) + 1 /\ m # k /\ t[m] \in D
      BY <1>1
    <3>2. CASE m < k
      <4>1. m \in 1 .. Len(s) /\ s[m] = t[m]
        BY <1>1, <3>1, <3>2
      <4>2. m \in I /\ f[m] = m
        BY <1>1, <3>1, <3>2, <4>1
      <4>3. QED
        BY <4>2
    <3>3. CASE ~(m < k)
      <4>1. m - 1 \in 1 .. Len(s) /\ s[m-1] = t[m] /\ ~(m - 1 < k)
        BY <1>1, <3>1, <3>3
      <4>2. m - 1 \in I /\ f[m-1] = m
        BY <1>1, <3>1, <3>3, <4>1
      <4>3. QED
        BY <4>2
    <3>4. QED
      BY <3>2, <3>3
  <2>4. f \in [I -> J]
    BY <2>1
  <2> HIDE DEF f, I, J
  <2>5. f \in Injection(I, J)
    BY <2>2, <2>4 DEF Injection, IsInjective
  <2>6. f \in Surjection(I, J)
    BY <2>3, <2>4 DEF Surjection
  <2>7. QED
    BY <2>5, <2>6 DEF Bijection
<1>3. IsFiniteSet(I) /\ CountIn(s, D) = Cardinality(I) /\ CountIn(t, D) = Cardinality(T)
  <2>1. I \subseteq 1 .. Len(s) /\ IsFiniteSet(1 .. Len(s))
    BY <1>1, FS_Interval
  <2>2. CountIn(s, D) = Cardinality(I) /\ CountIn(t, D) = Cardinality(T)
    BY DEF CountIn
  <2> HIDE DEF I, T
  <2>3. QED
    BY <2>1, <2>2, FS_Subset
<1>4. T = IF e \in D THEN J \cup {k} ELSE J
  BY <1>1
<1>5. k \notin J
  OBVIOUS
<1> HIDE DEF I, J, T, f
<1>6. IsFiniteSet(J) /\ Cardinality(J) = Cardinality(I)
  BY <1>2, <1>3, FS_Bijection DEF ExistsBijection
<1>7. Cardinality(J) \in Nat
  BY <1>6, FS_CardinalityType
<1>8. CASE e \in D
  BY <1>3, <1>4, <1>5, <1>6, <1>8, FS_AddElement
<1>9. CASE e \notin D
  BY <1>3, <1>4, <1>6, <1>7, <1>9
<1>10. QED
  BY <1>8, <1>9

\* How many members count, with one more at the end.
LEMMA CountInAppended ==
  ASSUME NEW S, NEW s \in Seq(S), NEW e \in S, NEW D
  PROVE  CountIn(Append(s, e), D) = CountIn(s, D) + IF e \in D THEN 1 ELSE 0
<1> DEFINE t == Append(s, e)
<1>1. /\ t \in Seq(S) /\ Len(s) \in Nat /\ Len(t) = Len(s) + 1
      /\ \A i \in 1 .. Len(s) + 1 : t[i] = IF i <= Len(s) THEN s[i] ELSE e
  OBVIOUS
<1> HIDE DEF t
<1>2. Inserted(s, t, Len(s) + 1, e) /\ Len(s) + 1 \in 1 .. Len(s) + 1
  BY <1>1 DEF Inserted
<1>3. CountIn(t, D) = CountIn(s, D) + IF e \in D THEN 1 ELSE 0
  BY <1>1, <1>2, CountInInserted
<1>4. QED
  BY <1>3, Zenon DEF t

\* How many members count, without the first.
LEMMA CountInTail ==
  ASSUME NEW S, NEW s \in Seq(S), s # <<>>, NEW D
  PROVE  CountIn(s, D) = CountIn(Tail(s), D) + IF Head(s) \in D THEN 1 ELSE 0
<1> DEFINE t == Tail(s)
<1>1. /\ t \in Seq(S) /\ Len(t) \in Nat /\ Len(s) = Len(t) + 1 /\ Head(s) = s[1]
      /\ \A i \in 1 .. Len(t) : t[i] = s[i+1]
  OBVIOUS
<1> HIDE DEF t
<1>2. Inserted(t, s, 1, Head(s)) /\ 1 \in 1 .. Len(t) + 1
  BY <1>1 DEF Inserted
<1>3. CountIn(s, D) = CountIn(t, D) + IF Head(s) \in D THEN 1 ELSE 0
  BY <1>1, <1>2, CountInInserted
<1>4. QED
  BY <1>3, Zenon DEF t

\* How many members count, without the k-th.
LEMMA CountInRemoved ==
  ASSUME NEW S, NEW s \in Seq(S), NEW k \in DOMAIN s, NEW D
  PROVE  CountIn(s, D) = CountIn(RemoveAt(s, k), D) + IF s[k] \in D THEN 1 ELSE 0
<1> DEFINE t == RemoveAt(s, k)
<1>1. /\ t \in Seq(S) /\ Len(t) = Len(s) - 1
      /\ \A i \in 1 .. Len(s) - 1 : t[i] = IF i < k THEN s[i] ELSE s[i+1]
  BY RemoveAtElements
<1> HIDE DEF t
<1>2. k \in 1 .. Len(s) /\ Len(s) \in Nat /\ Len(s) = Len(t) + 1
  BY <1>1
<1>3. Inserted(t, s, k, s[k]) /\ k \in 1 .. Len(t) + 1
  BY <1>1, <1>2 DEF Inserted
<1>4. CountIn(s, D) = CountIn(t, D) + IF s[k] \in D THEN 1 ELSE 0
  BY <1>1, <1>3, CountInInserted
<1>5. QED
  BY <1>4, Zenon DEF t

\* How many members of two lists count.
LEMMA CountInConcat ==
  ASSUME NEW S, NEW s \in Seq(S), NEW t \in Seq(S), NEW D
  PROVE  CountIn(s \o t, D) = CountIn(s, D) + CountIn(t, D)
<1> DEFINE u == s \o t
           I == {i \in DOMAIN s : s[i] \in D}
           J == {i \in DOMAIN t : t[i] \in D}
           U == {i \in DOMAIN u : u[i] \in D}
           K == U \ I
           f == [i \in J |-> Len(s) + i]
<1>1. /\ Len(s) \in Nat /\ Len(t) \in Nat /\ u \in Seq(S)
      /\ DOMAIN s = 1 .. Len(s) /\ DOMAIN t = 1 .. Len(t) /\ DOMAIN u = 1 .. Len(s) + Len(t)
      /\ \A i \in 1 .. Len(s) : u[i] = s[i]
      /\ \A i \in 1 .. Len(t) : u[Len(s) + i] = t[i]
  OBVIOUS
<1> HIDE DEF u
<1>2. f \in Bijection(J, K)
  <2>1. ASSUME NEW j \in J PROVE f[j] \in K
    BY <1>1
  <2>2. ASSUME NEW i \in J, NEW j \in J, f[i] = f[j] PROVE i = j
    BY <1>1, <2>2
  <2>3. ASSUME NEW m \in K PROVE \E j \in J : f[j] = m
    <3>1. m \in 1 .. Len(s) + Len(t) /\ u[m] \in D /\ m \notin 1 .. Len(s)
      BY <1>1
    <3>2. m - Len(s) \in 1 .. Len(t) /\ Len(s) + (m - Len(s)) = m
      BY <1>1, <3>1
    <3>3. m - Len(s) \in J /\ f[m - Len(s)] = m
      BY <1>1, <3>1, <3>2
    <3>4. QED
      BY <3>3
  <2>4. f \in [J -> K]
    BY <2>1
  <2> HIDE DEF f, J, K
  <2>5. f \in Injection(J, K)
    BY <2>2, <2>4 DEF Injection, IsInjective
  <2>6. f \in Surjection(J, K)
    BY <2>3, <2>4 DEF Surjection
  <2>7. QED
    BY <2>5, <2>6 DEF Bijection
<1>3. /\ IsFiniteSet(I) /\ IsFiniteSet(J)
      /\ CountIn(s, D) = Cardinality(I) /\ CountIn(t, D) = Cardinality(J)
      /\ CountIn(u, D) = Cardinality(U)
  <2>1. /\ I \subseteq 1 .. Len(s) /\ IsFiniteSet(1 .. Len(s))
        /\ J \subseteq 1 .. Len(t) /\ IsFiniteSet(1 .. Len(t))
    <3>1. IsFiniteSet(1 .. Len(s)) /\ IsFiniteSet(1 .. Len(t))
      BY <1>1, FS_Interval
    <3>2. I \subseteq 1 .. Len(s) /\ J \subseteq 1 .. Len(t)
      BY <1>1
    <3>3. QED
      BY <3>1, <3>2
  <2>2. /\ CountIn(s, D) = Cardinality(I) /\ CountIn(t, D) = Cardinality(J)
        /\ CountIn(u, D) = Cardinality(U)
    BY DEF CountIn
  <2> HIDE DEF I, J, U
  <2>3. QED
    BY <2>1, <2>2, FS_Subset
<1>4. U = I \cup K /\ I \cap K = {}
  BY <1>1
<1> HIDE DEF I, J, K, U, f
<1>5. IsFiniteSet(K) /\ Cardinality(K) = Cardinality(J)
  BY <1>2, <1>3, FS_Bijection DEF ExistsBijection
<1>6. Cardinality(I) \in Nat /\ Cardinality(K) \in Nat /\ Cardinality({}) = 0
  BY <1>3, <1>5, FS_CardinalityType, FS_EmptySet
<1>7. Cardinality(U) = Cardinality(I) + Cardinality(K)
  <2>1. Cardinality(I \cup K) = Cardinality(I) + Cardinality(K) - Cardinality(I \cap K)
    BY <1>3, <1>5, FS_Union
  <2>2. Cardinality(I \cap K) = 0
    BY <1>4, <1>6
  <2>3. QED
    BY <1>4, <1>6, <2>1, <2>2
<1>8. QED
  BY <1>3, <1>5, <1>7 DEF u

-----------------------------------------------------------------------------
(* Sums. *)

\* The function that Total is defined by.
PartialSums(f, n) ==
  CHOOSE sum : sum = [i \in 0 .. n |-> IF i = 0 THEN 0 ELSE sum[i-1] + f[i]]

\* It is well defined.
LEMMA PartialSumsDef ==
  ASSUME NEW f, NEW n \in Nat
  PROVE  PartialSums(f, n) =
           [i \in 0 .. n |-> IF i = 0 THEN 0 ELSE PartialSums(f, n)[i-1] + f[i]]
<1> DEFINE Sums(r, m) == r = [i \in 0 .. m |-> IF i = 0 THEN 0 ELSE r[i-1] + f[i]]
           Bad == {m \in Nat : ~\E r : Sums(r, m)}
<1>1. ASSUME Bad = {} PROVE \E r : Sums(r, n)
  BY <1>1
<1>2. ASSUME Bad # {} PROVE FALSE
  <2>1. PICK m \in Bad : \A j \in Bad : m <= j
    BY <1>2, LeastNat
  <2>2. m # 0
    <3> DEFINE r == [i \in 0 .. 0 |-> 0]
    <3>1. r = [i \in 0 .. 0 |-> IF i = 0 THEN 0 ELSE r[i-1] + f[i]]
      <4>1. \A i \in 0 .. 0 : i = 0
        OBVIOUS
      <4>2. \A i \in 0 .. 0 : 0 = IF i = 0 THEN 0 ELSE r[i-1] + f[i]
        BY <4>1
      <4>3. QED
        BY <4>2, Zenon
    <3>2. QED
      BY <3>1
  <2>3. m - 1 \in Nat /\ m \in Nat
    BY <2>2
  <2> HIDE DEF Sums
  <2>4. PICK r : Sums(r, m - 1)
    <3>1. ~(m <= m - 1)
      BY <2>3
    <3>2. m - 1 \notin Bad
      BY <2>1, <3>1
    <3>3. QED
      BY <2>3, <3>2
  <2> USE DEF Sums
  <2> DEFINE s == [i \in 0 .. m |-> IF i = m THEN r[m-1] + f[m] ELSE r[i]]
  <2>5. ASSUME NEW i \in 0 .. m
        PROVE  s[i] = IF i = 0 THEN 0 ELSE s[i-1] + f[i]
    <3>1. CASE i = 0
      BY <2>2, <2>3, <2>4, <3>1
    <3>2. CASE i # 0
      <4>1. i - 1 \in 0 .. m - 1 /\ i - 1 \in 0 .. m /\ i - 1 # m
        BY <2>3, <3>2
      <4>2. s[i-1] = r[i-1]
        BY <4>1
      <4>3. CASE i = m
        BY <3>2, <4>2, <4>3
      <4>4. CASE i # m
        <5>1. i \in 0 .. m - 1
          BY <2>3, <4>4
        <5>2. r[i] = r[i-1] + f[i]
          BY <2>4, <3>2, <5>1
        <5>3. QED
          BY <3>2, <4>2, <4>4, <5>2
      <4>5. QED
        BY <4>3, <4>4
    <3>3. QED
      BY <3>1, <3>2
  <2> HIDE DEF Sums
  <2>6. Sums(s, m)
    <3>1. s = [i \in 0 .. m |-> s[i]]
      BY Zenon
    <3> HIDE DEF s
    <3>2. s = [i \in 0 .. m |-> IF i = 0 THEN 0 ELSE s[i-1] + f[i]]
      BY <2>5, <3>1, Zenon
    <3>3. QED
      BY <3>2 DEF Sums
  <2>7. QED
    BY <2>1, <2>6
<1>3. \E r : r = [i \in 0 .. n |-> IF i = 0 THEN 0 ELSE r[i-1] + f[i]]
  BY <1>1, <1>2
<1>4. QED
  BY <1>3, Zenon DEF PartialSums

\* A sum of no terms, and of one term more.
LEMMA TotalDef ==
  ASSUME NEW f
  PROVE  /\ Total(f, 0) = 0
         /\ \A n \in Nat : Total(f, n + 1) = Total(f, n) + f[n + 1]
<1>1. \A n \in Nat : Total(f, n) = PartialSums(f, n)[n]
  BY Zenon DEF Total, PartialSums
<1>2. ASSUME NEW n \in Nat
      PROVE  /\ PartialSums(f, n)[0] = 0
             /\ \A i \in 1 .. n : PartialSums(f, n)[i] = PartialSums(f, n)[i-1] + f[i]
  <2> DEFINE r == PartialSums(f, n)
  <2>1. r = [i \in 0 .. n |-> IF i = 0 THEN 0 ELSE r[i-1] + f[i]]
    BY PartialSumsDef
  <2> HIDE DEF r
  <2>2. r[0] = 0 /\ \A i \in 1 .. n : r[i] = r[i-1] + f[i]
    BY <2>1
  <2>3. QED
    BY <2>2 DEF r
<1>3. Total(f, 0) = 0
  BY <1>1, <1>2
<1>4. ASSUME NEW n \in Nat
      PROVE  Total(f, n + 1) = Total(f, n) + f[n + 1]
  <2> DEFINE r == PartialSums(f, n)
             s == PartialSums(f, n + 1)
             Bad == {i \in 0 .. n : s[i] # r[i]}
  <2>1. n + 1 \in Nat /\ n + 1 \in 1 .. n + 1 /\ (n + 1) - 1 = n /\ n \in 0 .. n
    OBVIOUS
  <2>2. /\ r[0] = 0 /\ s[0] = 0
        /\ \A i \in 1 .. n : r[i] = r[i-1] + f[i]
        /\ \A i \in 1 .. n + 1 : s[i] = s[i-1] + f[i]
    BY <1>2, <2>1
  <2>3. Total(f, n) = r[n] /\ Total(f, n + 1) = s[n+1]
    BY <1>1, <2>1
  <2> HIDE DEF r, s
  <2>4. ASSUME Bad # {} PROVE FALSE
    <3>1. PICK i \in Bad : \A j \in Bad : i <= j
      <4>1. Bad \subseteq Nat
        OBVIOUS
      <4> HIDE DEF Bad
      <4>2. QED
        BY <2>4, <4>1, LeastNat
    <3>2. i # 0
      BY <2>2, <3>1
    <3>3. i - 1 \in 0 .. n /\ i \in 1 .. n /\ i \in 1 .. n + 1 /\ ~(i <= i - 1)
      BY <3>2
    <3>4. s[i-1] = r[i-1]
      BY <3>1, <3>3
    <3>5. s[i] = r[i]
      BY <2>2, <3>3, <3>4
    <3>6. QED
      BY <3>1, <3>5
  <2>5. s[n] = r[n]
    BY <2>1, <2>4
  <2>6. s[n+1] = s[n] + f[n+1]
    BY <2>1, <2>2
  <2>7. QED
    BY <2>3, <2>5, <2>6
<1>5. QED
  BY <1>3, <1>4

\* A sum of integers is an integer, and one of natural numbers a natural number.
LEMMA TotalType ==
  ASSUME NEW f, NEW n \in Nat, \A i \in 1 .. n : f[i] \in Int
  PROVE  /\ Total(f, n) \in Int
         /\ (\A i \in 1 .. n : f[i] \in Nat) => Total(f, n) \in Nat
<1> DEFINE Good(i) == /\ Total(f, i) \in Int
                      /\ (\A j \in 1 .. n : f[j] \in Nat) => Total(f, i) \in Nat
           Bad == {i \in 0 .. n : ~Good(i)}
<1>1. CASE Bad = {}
  BY <1>1
<1>2. CASE Bad # {}
  <2>1. PICK i \in Bad : \A j \in Bad : i <= j
    <3>1. Bad \subseteq Nat
      OBVIOUS
    <3> HIDE DEF Bad
    <3>2. QED
      BY <1>2, <3>1, LeastNat
  <2>2. i # 0
    BY <2>1, TotalDef
  <2>3. i - 1 \in 0 .. n /\ i - 1 \in Nat /\ i \in 1 .. n /\ ~(i <= i - 1) /\ (i - 1) + 1 = i
    BY <2>2
  <2>4. Good(i - 1)
    BY <2>1, <2>3
  <2>5. Total(f, i) = Total(f, i - 1) + f[i] /\ f[i] \in Int
    BY <2>3, TotalDef
  <2>6. Good(i)
    BY <2>3, <2>4, <2>5
  <2>7. QED
    BY <2>1, <2>6
<1>3. QED
  BY <1>1, <1>2

\* The k numbers after the m-th of f are those after the n-th of g.
Parallel(f, m, g, n, k) ==
  /\ m \in Nat /\ n \in Nat /\ k \in Nat
  /\ Total(f, m) \in Int /\ Total(g, n) \in Int
  /\ \A j \in 1 .. k : f[m+j] \in Int /\ g[n+j] = f[m+j]

\* Where two lists run in parallel, their sums grow by the same.
LEMMA TotalShift ==
  ASSUME NEW f, NEW g, NEW m, NEW n, NEW k, Parallel(f, m, g, n, k)
  PROVE  Total(f, m + k) - Total(f, m) = Total(g, n + k) - Total(g, n)
<1> USE DEF Parallel
<1> DEFINE Good(j) == /\ Total(f, m + j) \in Int /\ Total(g, n + j) \in Int
                      /\ Total(f, m + j) - Total(f, m) = Total(g, n + j) - Total(g, n)
           Bad == {j \in 0 .. k : ~Good(j)}
<1>1. CASE Bad = {}
  <2>1. k \in 0 .. k
    OBVIOUS
  <2>2. Good(k)
    BY <1>1, <2>1
  <2>3. QED
    BY <2>2
<1>2. CASE Bad # {}
  <2>1. PICK j \in Bad : \A i \in Bad : j <= i
    <3>1. Bad \subseteq Nat
      OBVIOUS
    <3> HIDE DEF Bad
    <3>2. QED
      BY <1>2, <3>1, LeastNat
  <2>2. j # 0
    <3>1. m + 0 = m /\ n + 0 = n
      OBVIOUS
    <3>2. Good(0)
      BY <3>1
    <3>3. QED
      BY <2>1, <3>2
  <2>3. /\ j - 1 \in 0 .. k /\ j - 1 \in Nat /\ j \in 1 .. k /\ ~(j <= j - 1)
        /\ m + (j - 1) \in Nat /\ n + (j - 1) \in Nat
        /\ (m + (j - 1)) + 1 = m + j /\ (n + (j - 1)) + 1 = n + j
    BY <2>2
  <2>4. Good(j - 1)
    BY <2>1, <2>3
  <2>5. /\ Total(f, m + j) = Total(f, m + (j - 1)) + f[m+j]
        /\ Total(g, n + j) = Total(g, n + (j - 1)) + g[n+j]
    <3>1. Total(f, (m + (j - 1)) + 1) = Total(f, m + (j - 1)) + f[(m + (j - 1)) + 1]
      BY <2>3, TotalDef
    <3>2. Total(g, (n + (j - 1)) + 1) = Total(g, n + (j - 1)) + g[(n + (j - 1)) + 1]
      BY <2>3, TotalDef
    <3>3. QED
      BY <2>3, <3>1, <3>2
  <2>6. f[m+j] \in Int /\ g[n+j] = f[m+j]
    BY <2>3
  <2>7. Good(j)
    BY <2>4, <2>5, <2>6
  <2>8. QED
    BY <2>1, <2>7
<1>3. QED
  BY <1>1, <1>2

\* Two lists with the same terms.
LEMMA TotalSame ==
  ASSUME NEW f, NEW g, NEW n \in Nat, \A i \in 1 .. n : f[i] \in Int /\ g[i] = f[i]
  PROVE  Total(g, n) = Total(f, n)
<1>1. Total(f, 0) = 0 /\ Total(g, 0) = 0
  BY TotalDef
<1>2. \A j \in 1 .. n : 0 + j = j
  OBVIOUS
<1>3. Total(f, 0 + n) - Total(f, 0) = Total(g, 0 + n) - Total(g, 0)
  <2>1. Parallel(f, 0, g, 0, n)
    BY <1>1, <1>2 DEF Parallel
  <2>2. QED
    BY <2>1, TotalShift
<1>4. Total(f, n) \in Int /\ Total(g, n) \in Int /\ 0 + n = n
  BY TotalType
<1>5. QED
  BY <1>1, <1>3, <1>4

\* A sum of zeros.
LEMMA TotalOfNothing ==
  ASSUME NEW f, NEW n \in Nat, \A i \in 1 .. n : f[i] = 0
  PROVE  Total(f, n) = 0
<1> DEFINE Bad == {i \in 0 .. n : Total(f, i) # 0}
<1>1. CASE Bad = {}
  BY <1>1
<1>2. CASE Bad # {}
  <2>1. PICK i \in Bad : \A j \in Bad : i <= j
    <3>1. Bad \subseteq Nat
      OBVIOUS
    <3> HIDE DEF Bad
    <3>2. QED
      BY <1>2, <3>1, LeastNat
  <2>2. i # 0
    BY <2>1, TotalDef
  <2>3. i - 1 \in 0 .. n /\ i - 1 \in Nat /\ i \in 1 .. n /\ ~(i <= i - 1) /\ (i - 1) + 1 = i
    BY <2>2
  <2>4. Total(f, i - 1) = 0
    BY <2>1, <2>3
  <2>5. Total(f, i) = Total(f, i - 1) + f[i]
    BY <2>3, TotalDef
  <2>6. QED
    BY <2>1, <2>3, <2>4, <2>5
<1>3. QED
  BY <1>1, <1>2

\* The m numbers of f, then the n numbers of g, are those of h.
Joined(f, m, g, n, h) ==
  /\ m \in Nat /\ n \in Nat
  /\ \A j \in 1 .. m : f[j] \in Int /\ h[j] = f[j]
  /\ \A j \in 1 .. n : g[j] \in Int /\ h[m+j] = g[j]

\* One list after the other.
LEMMA TotalOfConcat ==
  ASSUME NEW f, NEW m, NEW g, NEW n, NEW h, Joined(f, m, g, n, h)
  PROVE  Total(h, m + n) = Total(f, m) + Total(g, n)
<1> USE DEF Joined
<1>1. Total(h, m) = Total(f, m) /\ Total(f, m) \in Int /\ Total(g, n) \in Int
  BY TotalSame, TotalType
<1>2. Total(g, 0) = 0 /\ \A j \in 1 .. n : 0 + j = j
  BY TotalDef
<1>3. Total(h, m + n) - Total(h, m) = Total(g, 0 + n) - Total(g, 0)
  <2>1. Parallel(h, m, g, 0, n)
    BY <1>1, <1>2 DEF Parallel
  <2>2. QED
    BY <2>1, TotalShift
<1>4. m + n \in Nat /\ \A j \in 1 .. m + n : h[j] \in Int
  <2> SUFFICES ASSUME NEW j \in 1 .. m + n PROVE h[j] \in Int
    OBVIOUS
  <2>1. CASE j <= m
    BY <2>1
  <2>2. CASE j > m
    <3>1. j - m \in 1 .. n /\ m + (j - m) = j
      BY <2>2
    <3>2. QED
      BY <3>1
  <2>3. QED
    BY <2>1, <2>2
<1>5. Total(h, m + n) \in Int /\ 0 + n = n
  BY <1>4, TotalType
<1>6. QED
  BY <1>1, <1>2, <1>3, <1>5

\* The first term and the rest.
LEMMA TotalOfTail ==
  ASSUME NEW f, NEW g, NEW n \in Nat \ {0},
         \A i \in 1 .. n : f[i] \in Int, \A i \in 1 .. n - 1 : g[i] = f[i+1]
  PROVE  Total(f, n) = f[1] + Total(g, n - 1)
<1>1. /\ Total(f, 0) = 0 /\ Total(g, 0) = 0 /\ 0 + 1 = 1 /\ f[1] \in Int
      /\ Total(f, 0 + 1) = Total(f, 0) + f[0 + 1]
  BY TotalDef
<1>2. Total(f, 1) = f[1]
  BY <1>1
<1>3. n - 1 \in Nat /\ \A j \in 1 .. n - 1 : /\ 0 + j = j /\ 1 + j = j + 1
                                              /\ j + 1 \in 1 .. n
  OBVIOUS
<1>4. Total(f, 1 + (n - 1)) - Total(f, 1) = Total(g, 0 + (n - 1)) - Total(g, 0)
  <2>1. Parallel(f, 1, g, 0, n - 1)
    BY <1>1, <1>2, <1>3 DEF Parallel
  <2>2. QED
    BY <2>1, TotalShift
<1>5. Total(f, n) \in Int /\ Total(g, n - 1) \in Int
  BY <1>3, TotalType
<1>6. 1 + (n - 1) = n /\ 0 + (n - 1) = n - 1
  OBVIOUS
<1>7. QED
  BY <1>1, <1>2, <1>4, <1>5, <1>6

\* Two lists that differ in one term.
LEMMA TotalChanged ==
  ASSUME NEW f, NEW g, NEW n \in Nat, NEW i \in 1 .. n,
         \A j \in 1 .. n : f[j] \in Int /\ g[j] \in Int,
         \A j \in 1 .. n : j # i => g[j] = f[j]
  PROVE  Total(g, n) = Total(f, n) + (g[i] - f[i])
<1>1. /\ i - 1 \in Nat /\ (i - 1) + 1 = i /\ n - i \in Nat /\ i + (n - i) = n
      /\ \A j \in 1 .. i - 1 : j \in 1 .. n /\ j # i
      /\ \A j \in 1 .. n - i : i + j \in 1 .. n /\ i + j # i
  OBVIOUS
<1>2. Total(g, i - 1) = Total(f, i - 1) /\ Total(f, i - 1) \in Int
  BY <1>1, TotalSame, TotalType
<1>3. /\ Total(f, (i - 1) + 1) = Total(f, i - 1) + f[(i - 1) + 1]
      /\ Total(g, (i - 1) + 1) = Total(g, i - 1) + g[(i - 1) + 1]
  BY <1>1, TotalDef
<1>4. /\ Total(f, i) = Total(f, i - 1) + f[i] /\ Total(g, i) = Total(f, i - 1) + g[i]
      /\ f[i] \in Int /\ g[i] \in Int /\ i \in Nat
  BY <1>1, <1>2, <1>3
<1>5. Total(f, i) \in Int /\ Total(g, i) \in Int
  BY <1>2, <1>4
<1>6. Total(f, i + (n - i)) - Total(f, i) = Total(g, i + (n - i)) - Total(g, i)
  <2>1. Parallel(f, i, g, i, n - i)
    BY <1>1, <1>4, <1>5 DEF Parallel
  <2>2. QED
    BY <2>1, TotalShift
<1>7. Total(f, n) \in Int /\ Total(g, n) \in Int
  BY TotalType
<1>8. QED
  BY <1>1, <1>2, <1>4, <1>5, <1>6, <1>7
=============================================================================
