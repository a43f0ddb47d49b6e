----------------------------- MODULE ListLemmas -----------------------------
(***************************************************************************)
(* Facts about the operators on lists (xList: nodes that leave their list  *)
(* when they are unlinked) that the proofs of several modules need.        *)
(***************************************************************************)
EXTENDS Lists, Integers, FiniteSetsExt, SequencesExt, SequenceTheorems,
        FiniteSetTheorems, WellFoundedInduction, TLAPS

Smaller == {p \in Nat \X Nat : p[1] < p[2]}

LEMMA SmallerWellFounded == IsWellFoundedOn(Smaller, Nat)
BY NatLessThanWellFounded DEF OpToRel, Smaller

LEMMA LeastExists ==
    ASSUME NEW T \in SUBSET Nat, T # {}
    PROVE  \E x \in T : \A y \in T : x <= y
<1>1. PICK x \in T : \A y \in T : ~(<<y, x>> \in Smaller)
  BY SmallerWellFounded, WFMin
<1>2. ASSUME NEW y \in T
      PROVE  x <= y
  <2>1. <<y, x>>[1] = y /\ <<y, x>>[2] = x /\ <<y, x>> \in Nat \X Nat
    OBVIOUS
  <2>2. ~(y < x)
    BY <1>1, <2>1 DEF Smaller
  <2>. QED BY <2>2
<1>. QED BY <1>2

LEMMA MinIsLeast ==
    ASSUME NEW T \in SUBSET Nat, T # {}
    PROVE  Min(T) \in T /\ \A y \in T : Min(T) <= y
BY LeastExists DEF Min

\* What is left of a list behind its first n elements.
LEMMA RestProperties ==
    ASSUME NEW S, NEW s \in Seq(S), NEW n \in 0..Len(s)
    PROVE  LET v == SubSeq(s, n + 1, Len(s)) IN
           /\ v \in Seq(S) /\ Len(v) = Len(s) - n
           /\ \A i \in 1..Len(s) - n : v[i] = s[n + i]
<1>1. PICK v : v = SubSeq(s, n + 1, Len(s))
  OBVIOUS
<1>2. Len(s) \in Nat /\ n \in Nat /\ n <= Len(s)
  BY LenProperties
<1>3. \A i \in n + 1..Len(s) : s[i] \in S
  BY <1>2, ElementOfSeq
<1>4. n + 1 \in Int /\ Len(s) \in Int /\ Len(s) - (n + 1) + 1 = Len(s) - n
  BY <1>2
<1>5. /\ v \in Seq(S) /\ Len(v) = IF n + 1 <= Len(s) THEN Len(s) - (n + 1) + 1 ELSE 0
      /\ \A i \in 1..Len(s) - (n + 1) + 1 : v[i] = s[(n + 1) + i - 1]
  BY <1>1, <1>3, <1>4, SubSeqProperties
<1>6. Len(v) = Len(s) - n
  <2>1. /\ n + 1 <= Len(s) => Len(v) = Len(s) - (n + 1) + 1
        /\ ~(n + 1 <= Len(s)) => Len(v) = 0
    BY <1>5
  <2>2. n + 1 <= Len(s) \/ n = Len(s)
    <3>1. n \in Nat /\ Len(s) \in Nat /\ n <= Len(s)
      BY <1>2
    <3>. QED BY ONLY <3>1
  <2>3. CASE n + 1 <= Len(s)
    BY <1>4, <2>1, <2>3
  <2>4. CASE n = Len(s)
    <3>1. ~(n + 1 <= n) /\ n - n = 0
      BY <1>2
    <3>. QED BY <2>1, <2>4, <3>1
  <2>. QED BY <2>2, <2>3, <2>4
<1>7. ASSUME NEW i \in 1..Len(s) - n PROVE v[i] = s[n + i]
  <2>1. (n + 1) + i - 1 = n + i
    BY <1>2
  <2>. QED BY <1>4, <1>5, <2>1
<1>. QED BY <1>1, <1>5, <1>6, <1>7

\* Where the first occurrence of x was, the tail has moved up.
LEMMA RemoveFirstProperties ==
    ASSUME NEW S, NEW s \in Seq(S), NEW x \in ToSet(s)
    PROVE  \E p \in 1..Len(s) :
              /\ s[p] = x
              /\ RemoveFirst(s, x) \in Seq(S)
              /\ Len(RemoveFirst(s, x)) = Len(s) - 1
              /\ \A k \in 1..Len(s) - 1 :
                    RemoveFirst(s, x)[k] = IF k < p THEN s[k] ELSE s[k + 1]
<1>. DEFINE T == {i \in 1..Len(s) : s[i] = x}
            p == Min(T)
<1>0. Len(s) \in Nat /\ DOMAIN s = 1..Len(s) /\ \A i \in 1..Len(s) : s[i] \in S
  BY LenProperties, ElementOfSeq
<1>1. T \in SUBSET Nat /\ T # {}
  BY <1>0 DEF ToSet
<1>2. p \in 1..Len(s) /\ s[p] = x
  <2>1. p \in T
    BY <1>1, MinIsLeast
  <2>. QED BY <2>1
<1>3. RemoveFirst(s, x) = SubSeq(s, 1, p - 1) \o SubSeq(s, p + 1, Len(s))
  BY <1>1 DEF RemoveFirst, RemoveAt, SelectInSeq
<1>. HIDE DEF p
<1>4. /\ SubSeq(s, 1, p - 1) \in Seq(S) /\ Len(SubSeq(s, 1, p - 1)) = p - 1
      /\ \A i \in 1..p - 1 : SubSeq(s, 1, p - 1)[i] = s[i]
  <2>1. p - 1 \in Int /\ 1 \in Int /\ \A i \in 1..p - 1 : s[i] \in S
    BY <1>0, <1>2
  <2>. QED BY <1>2, <2>1, SubSeqProperties
<1>5. /\ SubSeq(s, p + 1, Len(s)) \in Seq(S) /\ Len(SubSeq(s, p + 1, Len(s))) = Len(s) - p
      /\ \A i \in 1..Len(s) - p : SubSeq(s, p + 1, Len(s))[i] = s[p + i]
  <2>1. PICK n \in 0..Len(s) : n = p
    BY <1>0, <1>2
  <2>2. /\ SubSeq(s, n + 1, Len(s)) \in Seq(S) /\ Len(SubSeq(s, n + 1, Len(s))) = Len(s) - n
        /\ \A i \in 1..Len(s) - n : SubSeq(s, n + 1, Len(s))[i] = s[n + i]
    BY RestProperties
  <2>. QED BY <2>1, <2>2
<1>6. /\ RemoveFirst(s, x) \in Seq(S)
      /\ Len(RemoveFirst(s, x)) = Len(s) - 1
      /\ \A k \in 1..Len(s) - 1 :
            RemoveFirst(s, x)[k] = IF k < p THEN s[k] ELSE s[k + 1]
  <2>1. /\ RemoveFirst(s, x) \in Seq(S)
        /\ Len(RemoveFirst(s, x)) = (p - 1) + (Len(s) - p)
        /\ \A k \in 1..(p - 1) + (Len(s) - p) :
              RemoveFirst(s, x)[k] = IF k <= p - 1 THEN SubSeq(s, 1, p - 1)[k]
                                     ELSE SubSeq(s, p + 1, Len(s))[k - (p - 1)]
    BY <1>3, <1>4, <1>5, ConcatProperties
  <2>2. (p - 1) + (Len(s) - p) = Len(s) - 1
    BY <1>0, <1>2
  <2>3. ASSUME NEW k \in 1..Len(s) - 1
        PROVE  RemoveFirst(s, x)[k] = IF k < p THEN s[k] ELSE s[k + 1]
    <3>1. CASE k < p
      BY <1>2, <1>4, <2>1, <2>2, <3>1
    <3>2. CASE ~(k < p)
      <4>1. k - (p - 1) \in 1..Len(s) - p /\ p + (k - (p - 1)) = k + 1 /\ ~(k <= p - 1)
        BY <1>0, <1>2, <3>2
      <4>. QED BY <1>5, <2>1, <2>2, <4>1, <3>2
    <3>. QED BY <3>1, <3>2
  <2>. QED BY <2>1, <2>2, <2>3
<1>. QED BY <1>2, <1>6

\* A list that names everything once goes on doing so, and keeps its order.
LEMMA RemoveFirstOfInjective ==
    ASSUME NEW S, NEW s \in Seq(S), IsInjective(s), NEW x \in ToSet(s)
    PROVE  LET t == RemoveFirst(s, x) IN
           /\ t \in Seq(S) /\ Len(t) = Len(s) - 1
           /\ IsInjective(t) /\ ToSet(t) = ToSet(s) \ {x}
           /\ \A m, n \in 1..Len(t) : m < n =>
                 \E i, j \in 1..Len(s) : i < j /\ t[m] = s[i] /\ t[n] = s[j]
<1>. DEFINE t == RemoveFirst(s, x)
<1>0. Len(s) \in Nat /\ DOMAIN s = 1..Len(s)
  BY LenProperties
<1>1. PICK p \in 1..Len(s) :
         /\ s[p] = x
         /\ t \in Seq(S)
         /\ Len(t) = Len(s) - 1
         /\ \A k \in 1..Len(s) - 1 : t[k] = IF k < p THEN s[k] ELSE s[k + 1]
  BY RemoveFirstProperties
<1>. HIDE DEF t
<1>2. DOMAIN t = 1..Len(s) - 1
  BY <1>1, LenProperties
<1>. DEFINE old(k) == IF k < p THEN k ELSE k + 1
<1>3. \A k \in 1..Len(s) - 1 : old(k) \in 1..Len(s) /\ old(k) # p /\ t[k] = s[old(k)]
  BY <1>0, <1>1
<1>4. \A m, n \in 1..Len(s) - 1 : m < n => old(m) < old(n)
  BY <1>0
<1>5. \A i \in 1..Len(s) : i # p => \E k \in 1..Len(s) - 1 : old(k) = i
  <2>1. ASSUME NEW i \in 1..Len(s), i # p
        PROVE  \E k \in 1..Len(s) - 1 : old(k) = i
    <3>1. CASE i < p
      <4>1. i \in 1..Len(s) - 1 /\ old(i) = i
        BY <1>0, <3>1
      <4>. QED BY <4>1
    <3>2. CASE ~(i < p)
      <4>1. i - 1 \in 1..Len(s) - 1 /\ old(i - 1) = i
        BY <1>0, <2>1, <3>2
      <4>. QED BY <4>1
    <3>. QED BY <3>1, <3>2
  <2>. QED BY <2>1
<1>6. IsInjective(t)
  <2>1. ASSUME NEW m \in 1..Len(s) - 1, NEW n \in 1..Len(s) - 1, t[m] = t[n]
        PROVE  m = n
    <3>1. old(m) = old(n)
      BY <1>0, <1>3, <2>1 DEF IsInjective
    <3>. QED BY <1>0, <3>1
  <2>. QED BY <1>2, <2>1 DEF IsInjective
<1>7. ToSet(t) = ToSet(s) \ {x}
  <2>1. ASSUME NEW y \in ToSet(t) PROVE y \in ToSet(s) \ {x}
    <3>1. PICK k \in 1..Len(s) - 1 : y = t[k]
      BY <1>2 DEF ToSet
    <3>2. old(k) \in 1..Len(s) /\ old(k) # p /\ y = s[old(k)]
      BY <1>3, <3>1
    <3>. QED BY <1>0, <1>1, <3>2 DEF ToSet, IsInjective
  <2>2. ASSUME NEW y \in ToSet(s) \ {x} PROVE y \in ToSet(t)
    <3>1. PICK i \in 1..Len(s) : y = s[i]
      BY <1>0 DEF ToSet
    <3>2. i # p
      BY <1>1, <3>1
    <3>3. PICK k \in 1..Len(s) - 1 : old(k) = i
      BY <1>5, <3>2
    <3>. QED BY <1>2, <1>3, <3>1, <3>3 DEF ToSet
  <2>. QED BY <2>1, <2>2
<1>8. \A m, n \in 1..Len(t) : m < n =>
         \E i, j \in 1..Len(s) : i < j /\ t[m] = s[i] /\ t[n] = s[j]
  BY <1>1, <1>3, <1>4
<1>. QED BY <1>1, <1>6, <1>7, <1>8 DEF t

\* A new last element.
LEMMA AppendToInjective ==
    ASSUME NEW S, NEW s \in Seq(S), IsInjective(s), NEW x \in S, x \notin ToSet(s)
    PROVE  LET t == Append(s, x) IN
           /\ t \in Seq(S) /\ Len(t) = Len(s) + 1
           /\ IsInjective(t) /\ ToSet(t) = ToSet(s) \cup {x}
           /\ \A k \in 1..Len(s) : t[k] = s[k]
           /\ t[Len(s) + 1] = x
<1>. DEFINE t == Append(s, x)
<1>0. Len(s) \in Nat /\ DOMAIN s = 1..Len(s)
  BY LenProperties
<1>1. /\ t \in Seq(S) /\ Len(t) = Len(s) + 1
      /\ \A k \in 1..Len(s) : t[k] = s[k]
      /\ t[Len(s) + 1] = x
  BY AppendProperties
<1>2. DOMAIN t = 1..Len(s) + 1
  BY <1>1, LenProperties
<1>. HIDE DEF t
<1>3. \A k \in 1..Len(s) + 1 : k \in 1..Len(s) \/ k = Len(s) + 1
  BY <1>0
<1>4. \A k \in 1..Len(s) : k \in 1..Len(s) + 1 /\ s[k] # x
  BY <1>0 DEF ToSet
<1>5. IsInjective(t)
  BY <1>0, <1>1, <1>2, <1>3, <1>4 DEF IsInjective
<1>6. ToSet(t) = ToSet(s) \cup {x}
  BY <1>0, <1>1, <1>2, <1>3, <1>4 DEF ToSet
<1>. QED BY <1>1, <1>5, <1>6 DEF t

\* The head of a list goes to its end.
LEMMA TailOfInjective ==
    ASSUME NEW S, NEW s \in Seq(S), IsInjective(s), s # <<>>
    PROVE  /\ Tail(s) \in Seq(S) /\ Len(Tail(s)) = Len(s) - 1 /\ Len(s) \in Nat \ {0}
           /\ IsInjective(Tail(s)) /\ Head(s) \in S /\ Head(s) = s[1]
           /\ ToSet(Tail(s)) = ToSet(s) \ {Head(s)} /\ Head(s) \in ToSet(s)
           /\ \A k \in 1..Len(s) - 1 : Tail(s)[k] = s[k + 1]
<1>0. Len(s) \in Nat \ {0} /\ DOMAIN s = 1..Len(s)
  BY LenProperties, EmptySeq
<1>1. /\ Head(s) \in S /\ Tail(s) \in Seq(S) /\ Len(Tail(s)) = Len(s) - 1
      /\ \A k \in 1..Len(s) - 1 : Tail(s)[k] = s[k + 1]
      /\ DOMAIN Tail(s) = 1..Len(s) - 1
  BY HeadTailProperties, LenProperties
<1>2. Head(s) = s[1]
  BY <1>0
<1>3. \A k \in 1..Len(s) - 1 : k + 1 \in 1..Len(s) /\ k + 1 # 1
  BY <1>0
<1>4. \A i \in 1..Len(s) : i = 1 \/ \E k \in 1..Len(s) - 1 : i = k + 1
  <2>1. ASSUME NEW i \in 1..Len(s), i # 1
        PROVE  i - 1 \in 1..Len(s) - 1 /\ i = (i - 1) + 1
    BY <1>0, <2>1
  <2>. QED BY <2>1
<1>5. IsInjective(Tail(s))
  BY <1>0, <1>1, <1>3 DEF IsInjective
<1>6. 1 \in 1..Len(s)
  BY <1>0
<1>7. ASSUME NEW y \in ToSet(Tail(s)) PROVE y \in ToSet(s) \ {s[1]}
  <2>1. PICK k \in 1..Len(s) - 1 : y = s[k + 1]
    BY <1>1 DEF ToSet
  <2>. QED BY <1>0, <1>3, <1>6, <2>1 DEF ToSet, IsInjective
<1>8. ASSUME NEW y \in ToSet(s) \ {s[1]} PROVE y \in ToSet(Tail(s))
  <2>1. PICK i \in 1..Len(s) : y = s[i]
    BY <1>0 DEF ToSet
  <2>2. PICK k \in 1..Len(s) - 1 : i = k + 1
    BY <1>4, <2>1
  <2>. QED BY <1>1, <2>1, <2>2 DEF ToSet
<1>9. Head(s) \in ToSet(s)
  BY <1>0, <1>2, <1>6 DEF ToSet
<1>. QED BY <1>0, <1>1, <1>2, <1>5, <1>7, <1>8, <1>9
LEMMA RotateInjective ==
    ASSUME NEW S, NEW s \in Seq(S), IsInjective(s), s # <<>>
    PROVE  LET t == Append(Tail(s), Head(s)) IN
           /\ t \in Seq(S) /\ Len(t) = Len(s) /\ Len(s) \in Nat \ {0}
           /\ IsInjective(t) /\ ToSet(t) = ToSet(s)
           /\ \A k \in 1..Len(s) - 1 : t[k] = s[k + 1]
           /\ t[Len(s)] = s[1] /\ Head(s) = s[1] /\ Head(s) \in ToSet(s)
<1>1. /\ Tail(s) \in Seq(S) /\ Len(Tail(s)) = Len(s) - 1 /\ Len(s) \in Nat \ {0}
      /\ IsInjective(Tail(s)) /\ Head(s) \in S /\ Head(s) = s[1]
      /\ ToSet(Tail(s)) = ToSet(s) \ {Head(s)} /\ Head(s) \in ToSet(s)
      /\ \A k \in 1..Len(s) - 1 : Tail(s)[k] = s[k + 1]
  BY TailOfInjective
<1>2. PICK u \in Seq(S), h \in S : u = Tail(s) /\ h = Head(s)
  BY <1>1
<1>3. /\ Append(u, h) \in Seq(S) /\ Len(Append(u, h)) = Len(u) + 1
      /\ IsInjective(Append(u, h)) /\ ToSet(Append(u, h)) = ToSet(u) \cup {h}
      /\ \A k \in 1..Len(u) : Append(u, h)[k] = u[k]
      /\ Append(u, h)[Len(u) + 1] = h
  <2>1. IsInjective(u) /\ h \notin ToSet(u)
    BY <1>1, <1>2
  <2>. QED BY <2>1, AppendToInjective
<1>4. Len(u) = Len(s) - 1 /\ Len(u) + 1 = Len(s)
  BY <1>1, <1>2
<1>. QED BY <1>1, <1>2, <1>3, <1>4

LEMMA RemoveFirstOfOther ==
    ASSUME NEW S, NEW s \in Seq(S), NEW x, x \notin ToSet(s)
    PROVE  RemoveFirst(s, x) = s
<1>1. DOMAIN s = 1..Len(s)
  BY LenProperties
<1>2. ~\E i \in 1..Len(s) : s[i] = x
  BY <1>1 DEF ToSet
<1>. QED BY <1>2 DEF RemoveFirst

-----------------------------------------------------------------------------
(* Lists without a set of nodes *)

LEMMA Induct ==
    ASSUME NEW T \in SUBSET Nat, 0 \in T, \A n \in T : n + 1 \in T
    PROVE  T = Nat
<1>1. SUFFICES ASSUME T # Nat PROVE FALSE
  OBVIOUS
<1>2. PICK x \in Nat \ T : \A y \in Nat \ T : x <= y
  <2>1. (Nat \ T) \in SUBSET Nat /\ (Nat \ T) # {}
    BY <1>1
  <2>. QED BY <2>1, LeastExists
<1>3. x # 0 /\ x - 1 \in Nat
  BY <1>2
<1>. QED BY <1>2, <1>3

\* The list up to n without D, given the list up to n - 1.
KeptStep(s, D, n, before) ==
    IF n = 0 THEN <<>> ELSE IF s[n] \in D THEN before ELSE Append(before, s[n])

\* t is the list s up to n without D: a selection of its positions in order.
IsKept(S, s, D, n, t) ==
    /\ t \in Seq(S)
    /\ \E f \in [1..Len(t) -> 1..n] :
          /\ \A i \in 1..Len(t) : t[i] = s[f[i]] /\ s[f[i]] \notin D
          /\ \A i, j \in 1..Len(t) : i < j => f[i] < f[j]
          /\ \A p \in 1..n : s[p] \notin D => \E i \in 1..Len(t) : f[i] = p

LEMMA KeptExtends ==
    ASSUME NEW S, NEW s \in Seq(S), NEW D, NEW n \in 0..Len(s) - 1, NEW t, IsKept(S, s, D, n, t)
    PROVE  IsKept(S, s, D, n + 1, KeptStep(s, D, n + 1, t))
<1>1. PICK f \in [1..Len(t) -> 1..n] :
         /\ \A i \in 1..Len(t) : t[i] = s[f[i]] /\ s[f[i]] \notin D
         /\ \A i, j \in 1..Len(t) : i < j => f[i] < f[j]
         /\ \A p \in 1..n : s[p] \notin D => \E i \in 1..Len(t) : f[i] = p
  BY DEF IsKept
<1>2. Len(s) \in Nat /\ n \in Nat /\ n + 1 \in 1..Len(s) /\ n + 1 # 0 /\ s[n + 1] \in S
      /\ t \in Seq(S) /\ Len(t) \in Nat
  <2>1. Len(s) \in Nat /\ n \in Nat /\ n + 1 \in 1..Len(s) /\ n + 1 # 0
    BY LenProperties
  <2>. QED BY <2>1, LenProperties, ElementOfSeq DEF IsKept
<1>3. CASE s[n + 1] \in D
  <2>1. KeptStep(s, D, n + 1, t) = t
    BY <1>2, <1>3 DEF KeptStep
  <2>2. f \in [1..Len(t) -> 1..n + 1]
    BY <1>2
  <2>3. \A p \in 1..n + 1 : s[p] \notin D => \E i \in 1..Len(t) : f[i] = p
    BY <1>1, <1>2, <1>3
  <2>4. IsKept(S, s, D, n + 1, t)
    BY <1>1, <1>2, <2>2, <2>3 DEF IsKept
  <2>. QED BY <2>1, <2>4
<1>4. CASE s[n + 1] \notin D
  <2>1. PICK x \in S : x = s[n + 1]
    BY <1>2
  <2>2. PICK u : u = Append(t, x)
    OBVIOUS
  <2>3. KeptStep(s, D, n + 1, t) = u
    BY <1>2, <1>4, <2>1, <2>2 DEF KeptStep
  <2>4. /\ u \in Seq(S) /\ Len(u) = Len(t) + 1
        /\ \A i \in 1..Len(t) : u[i] = t[i]
        /\ u[Len(t) + 1] = x
    BY <1>2, <2>2, AppendProperties
  <2>. DEFINE g == [i \in 1..Len(u) |-> IF i = Len(u) THEN n + 1 ELSE f[i]]
  <2>5. \A i \in 1..Len(u) : i = Len(u) \/ i \in 1..Len(t)
    BY <1>2, <2>4
  <2>6. g \in [1..Len(u) -> 1..n + 1]
    BY <1>1, <1>2, <2>4, <2>5
  <2>7. \A i \in 1..Len(t) : i \in 1..Len(u) /\ i # Len(u) /\ g[i] = f[i] /\ f[i] \in 1..n
    BY <1>1, <1>2, <2>4
  <2>8. Len(u) \in 1..Len(u) /\ g[Len(u)] = n + 1
    BY <1>2, <2>4
  <2>. HIDE DEF g
  <2>9. \A i \in 1..Len(u) : u[i] = s[g[i]] /\ s[g[i]] \notin D
    BY <1>1, <1>2, <1>4, <2>1, <2>4, <2>5, <2>7, <2>8
  <2>10. ASSUME NEW i \in 1..Len(u), NEW j \in 1..Len(u), i < j
         PROVE  g[i] < g[j]
    <3>1. i \in 1..Len(t)
      BY <1>2, <2>4, <2>10
    <3>2. CASE j = Len(u)
      BY <1>2, <2>7, <2>8, <3>1, <3>2
    <3>3. CASE j \in 1..Len(t)
      BY <1>1, <2>7, <2>10, <3>1, <3>3
    <3>. QED BY <2>5, <3>2, <3>3
  <2>11. ASSUME NEW p \in 1..n + 1, s[p] \notin D
         PROVE  \E i \in 1..Len(u) : g[i] = p
    <3>1. CASE p = n + 1
      BY <2>8, <3>1
    <3>2. CASE p # n + 1
      <4>1. p \in 1..n
        BY <1>2, <3>2
      <4>2. PICK i \in 1..Len(t) : f[i] = p
        BY <1>1, <2>11, <4>1
      <4>. QED BY <2>7, <4>2
    <3>. QED BY <3>1, <3>2
  <2>12. IsKept(S, s, D, n + 1, u)
    BY <2>4, <2>6, <2>9, <2>10, <2>11 DEF IsKept
  <2>. QED BY <2>3, <2>12
<1>. QED BY <1>3, <1>4

\* The recursion of Unlinked has a solution, and it is the list without D.
LEMMA UnlinkedIsKept ==
    ASSUME NEW S, NEW s \in Seq(S), NEW D
    PROVE  IsKept(S, s, D, Len(s), Unlinked(s, D))
<1>. DEFINE Solves(g, n) ==
              /\ DOMAIN g = 0..n
              /\ g = [m \in 0..n |-> KeptStep(s, D, m, g[m - 1])]
            T == {n \in Nat : n <= Len(s) => \E g : Solves(g, n) /\ IsKept(S, s, D, n, g[n])}
<1>0. Len(s) \in Nat
  BY LenProperties
<1>1. 0 \in T
  <2>. DEFINE g == [m \in 0..0 |-> <<>>]
  <2>1. Solves(g, 0)
    BY DEF KeptStep
  <2>2. IsKept(S, s, D, 0, <<>>)
    <3>1. <<>> \in Seq(S) /\ Len(<<>>) = 0
      BY EmptySeq
    <3>2. [i \in {} |-> 0] \in [1..0 -> 1..0]
      OBVIOUS
    <3>. QED BY <3>1, <3>2 DEF IsKept
  <2>3. g[0] = <<>>
    OBVIOUS
  <2>. QED BY <2>1, <2>2, <2>3
<1>2. ASSUME NEW n \in T PROVE n + 1 \in T
  <2>1. SUFFICES ASSUME n + 1 <= Len(s)
                 PROVE  \E g : Solves(g, n + 1) /\ IsKept(S, s, D, n + 1, g[n + 1])
    OBVIOUS
  <2>2. n \in Nat /\ n \in 0..Len(s) - 1
    BY <1>0, <2>1
  <2>3. PICK g : Solves(g, n) /\ IsKept(S, s, D, n, g[n])
    BY <1>0, <2>1, <2>2
  <2>. DEFINE t == KeptStep(s, D, n + 1, g[n])
              h == [m \in 0..n + 1 |-> IF m = n + 1 THEN t ELSE g[m]]
  <2>4. \A m \in 0..n : h[m] = g[m] /\ (m # 0 => m - 1 \in 0..n)
    BY <2>2
  <2>5. h[n + 1] = t /\ (n + 1) - 1 = n /\ h[n] = g[n]
    BY <2>2
  <2>6. ASSUME NEW m \in 0..n + 1
        PROVE  h[m] = KeptStep(s, D, m, h[m - 1])
    <3>1. CASE m = n + 1
      BY <2>5, <3>1
    <3>2. CASE m # n + 1
      <4>1. m \in 0..n
        BY <2>2, <3>2
      <4>2. h[m] = KeptStep(s, D, m, g[m - 1])
        BY <2>3, <2>4, <4>1
      <4>3. CASE m = 0
        BY <4>2, <4>3 DEF KeptStep
      <4>4. CASE m # 0
        BY <2>4, <4>1, <4>2, <4>4
      <4>. QED BY <4>3, <4>4
    <3>. QED BY <3>1, <3>2
  <2>7. Solves(h, n + 1)
    BY <2>6
  <2>8. IsKept(S, s, D, n + 1, h[n + 1])
    BY <2>2, <2>3, <2>5, KeptExtends
  <2>. QED BY <2>7, <2>8
<1>3. T = Nat
  <2>. HIDE DEF T
  <2>1. T \in SUBSET Nat
    BY DEF T
  <2>. QED BY <1>1, <1>2, <2>1, Induct
<1>4. PICK g : Solves(g, Len(s)) /\ IsKept(S, s, D, Len(s), g[Len(s)])
  BY <1>0, <1>3
<1>. DEFINE kept == CHOOSE k : k = [n \in 0..Len(s) |->
                                     IF n = 0 THEN <<>>
                                     ELSE IF s[n] \in D THEN k[n - 1] ELSE Append(k[n - 1], s[n])]
<1>5. Unlinked(s, D) = kept[Len(s)]
  BY DEF Unlinked
<1>6. kept = [n \in 0..Len(s) |-> KeptStep(s, D, n, kept[n - 1])]
  BY <1>4 DEF KeptStep
<1>. HIDE DEF kept
<1>7. \A n \in 0..Len(s) : kept[n] = g[n]
  <2>. DEFINE U == {n \in Nat : n <= Len(s) => kept[n] = g[n]}
  <2>1. \A n \in 0..Len(s) : kept[n] = KeptStep(s, D, n, kept[n - 1])
                             /\ g[n] = KeptStep(s, D, n, g[n - 1])
    BY <1>4, <1>6
  <2>2. 0 \in U
    <3>1. 0 \in 0..Len(s)
      BY <1>0
    <3>. QED BY <2>1, <3>1 DEF KeptStep
  <2>3. ASSUME NEW n \in U PROVE n + 1 \in U
    <3>1. SUFFICES ASSUME n + 1 <= Len(s) PROVE kept[n + 1] = g[n + 1]
      OBVIOUS
    <3>2. n \in Nat /\ n + 1 \in 0..Len(s) /\ (n + 1) - 1 = n /\ kept[n] = g[n]
      BY <1>0, <3>1
    <3>. QED BY <2>1, <3>2
  <2>4. U = Nat
    <3>. HIDE DEF U
    <3>1. U \in SUBSET Nat
      BY DEF U
    <3>. QED BY <2>2, <2>3, <3>1, Induct
  <2>. QED BY <1>0, <2>4
<1>. QED BY <1>0, <1>4, <1>5, <1>7

LEMMA UnlinkedProperties ==
    ASSUME NEW S, NEW s \in Seq(S), NEW D
    PROVE  LET t == Unlinked(s, D) IN
           /\ t \in Seq(S) /\ ToSet(t) = ToSet(s) \ D
           /\ IsInjective(s) => IsInjective(t)
           /\ \A m, n \in 1..Len(t) : m < n =>
                 \E i, j \in 1..Len(s) : i < j /\ t[m] = s[i] /\ t[n] = s[j]
<1>1. PICK t : t = Unlinked(s, D) /\ IsKept(S, s, D, Len(s), t)
  BY UnlinkedIsKept
<1>2. PICK f \in [1..Len(t) -> 1..Len(s)] :
         /\ \A i \in 1..Len(t) : t[i] = s[f[i]] /\ s[f[i]] \notin D
         /\ \A i, j \in 1..Len(t) : i < j => f[i] < f[j]
         /\ \A p \in 1..Len(s) : s[p] \notin D => \E i \in 1..Len(t) : f[i] = p
  BY <1>1 DEF IsKept
<1>3. /\ t \in Seq(S) /\ Len(t) \in Nat /\ DOMAIN t = 1..Len(t)
      /\ Len(s) \in Nat /\ DOMAIN s = 1..Len(s)
  <2>1. t \in Seq(S)
    BY <1>1 DEF IsKept
  <2>. QED BY <2>1, LenProperties
<1>4. \A i \in 1..Len(t) : f[i] \in 1..Len(s) /\ f[i] \in Int
  <2>1. \A i \in 1..Len(t) : f[i] \in 1..Len(s)
    BY f \in [1..Len(t) -> 1..Len(s)], Zenon
  <2>. QED BY <1>3, <2>1
<1>5. ToSet(t) = ToSet(s) \ D
  <2>1. ASSUME NEW y \in ToSet(t) PROVE y \in ToSet(s) \ D
    <3>1. PICK i \in 1..Len(t) : y = t[i]
      BY <1>3 DEF ToSet
    <3>. QED BY <1>2, <1>3, <1>4, <3>1 DEF ToSet
  <2>2. ASSUME NEW y \in ToSet(s) \ D PROVE y \in ToSet(t)
    <3>1. PICK p \in 1..Len(s) : y = s[p]
      BY <1>3 DEF ToSet
    <3>2. PICK i \in 1..Len(t) : f[i] = p
      BY <1>2, <3>1
    <3>. QED BY <1>2, <1>3, <3>1, <3>2 DEF ToSet
  <2>. QED BY <2>1, <2>2
<1>6. ASSUME IsInjective(s) PROVE IsInjective(t)
  <2>1. ASSUME NEW i \in 1..Len(t), NEW j \in 1..Len(t), t[i] = t[j]
        PROVE  i = j
    <3>1. f[i] = f[j]
      BY <1>2, <1>3, <1>4, <1>6, <2>1 DEF IsInjective
    <3>2. ~(i < j) /\ ~(j < i)
      BY <1>2, <1>4, <3>1
    <3>. QED BY <1>3, <3>2
  <2>. QED BY <1>3, <2>1 DEF IsInjective
<1>7. \A m, n \in 1..Len(t) : m < n =>
         \E i, j \in 1..Len(s) : i < j /\ t[m] = s[i] /\ t[n] = s[j]
  BY <1>2, <1>4
<1>. QED BY <1>1, <1>3, <1>5, <1>6, <1>7

-----------------------------------------------------------------------------
(* The order of a list *)

\* x is before y on the list s.
Before(s, x, y) == \E i, j \in 1..Len(s) : i < j /\ s[i] = x /\ s[j] = y

LEMMA UnlinkedKeepsOrder ==
    ASSUME NEW S, NEW s \in Seq(S), NEW D, NEW x, NEW y,
           Before(s, x, y), x \notin D, y \notin D
    PROVE  Before(Unlinked(s, D), x, y)
<1>1. PICK t : t = Unlinked(s, D) /\ IsKept(S, s, D, Len(s), t)
  BY UnlinkedIsKept
<1>2. PICK f \in [1..Len(t) -> 1..Len(s)] :
         /\ \A i \in 1..Len(t) : t[i] = s[f[i]] /\ s[f[i]] \notin D
         /\ \A i, j \in 1..Len(t) : i < j => f[i] < f[j]
         /\ \A p \in 1..Len(s) : s[p] \notin D => \E i \in 1..Len(t) : f[i] = p
  BY <1>1 DEF IsKept
<1>3. Len(s) \in Nat /\ Len(t) \in Nat
  BY <1>1, LenProperties DEF IsKept
<1>4. PICK i, j \in 1..Len(s) : i < j /\ s[i] = x /\ s[j] = y
  BY DEF Before
<1>5. PICK m \in 1..Len(t), n \in 1..Len(t) : f[m] = i /\ f[n] = j
  BY <1>2, <1>4
<1>6. m < n
  <2>1. n < m => f[n] < f[m]
    BY <1>2
  <2>2. ~(n < m) /\ n # m
    BY <1>3, <1>4, <1>5, <2>1
  <2>. QED BY <1>3, <2>2
<1>7. Before(t, x, y)
  BY <1>2, <1>4, <1>5, <1>6 DEF Before
<1>. QED BY <1>1, <1>7

LEMMA AppendKeepsOrder ==
    ASSUME NEW S, NEW s \in Seq(S), NEW z \in S, NEW x, NEW y
    PROVE  /\ Before(s, x, y) => Before(Append(s, z), x, y)
           /\ x \in ToSet(s) => Before(Append(s, z), x, z)
<1>1. PICK t : t = Append(s, z)
  OBVIOUS
<1>2. /\ Len(t) = Len(s) + 1 /\ \A i \in 1..Len(s) : t[i] = s[i]
      /\ t[Len(s) + 1] = z /\ Len(s) \in Nat /\ DOMAIN s = 1..Len(s)
  BY <1>1, AppendProperties, LenProperties
<1>3. ASSUME Before(s, x, y) PROVE Before(t, x, y)
  <2>1. PICK i, j \in 1..Len(s) : i < j /\ s[i] = x /\ s[j] = y
    BY <1>3 DEF Before
  <2>2. i \in 1..Len(t) /\ j \in 1..Len(t) /\ t[i] = x /\ t[j] = y
    BY <1>2, <2>1
  <2>. QED BY <2>1, <2>2 DEF Before
<1>4. ASSUME x \in ToSet(s) PROVE Before(t, x, z)
  <2>1. PICK i \in 1..Len(s) : s[i] = x
    BY <1>2, <1>4 DEF ToSet
  <2>2. i \in 1..Len(t) /\ Len(s) + 1 \in 1..Len(t) /\ i < Len(s) + 1 /\ t[i] = x
    BY <1>2, <2>1
  <2>. QED BY <1>2, <2>2 DEF Before
<1>. QED BY <1>1, <1>3, <1>4

\* Nothing is before the head, and what is behind another element stays behind
\* it when the head goes to the end.
LEMMA RotateKeepsOrder ==
    ASSUME NEW S, NEW s \in Seq(S), IsInjective(s), s # <<>>, NEW x, NEW y
    PROVE  /\ ~Before(s, x, Head(s))
           /\ Before(s, x, y) /\ x # Head(s) => Before(Append(Tail(s), Head(s)), x, y)
           /\ x \in ToSet(s) /\ x # Head(s) => Before(Append(Tail(s), Head(s)), x, Head(s))
<1>1. PICK h \in S, u \in Seq(S) : h = Head(s) /\ u = Tail(s)
  BY TailOfInjective
<1>2. /\ Len(u) = Len(s) - 1 /\ Len(s) \in Nat \ {0} /\ h = s[1]
      /\ ToSet(u) = ToSet(s) \ {h} /\ \A k \in 1..Len(s) - 1 : u[k] = s[k + 1]
      /\ DOMAIN s = 1..Len(s)
  BY <1>1, TailOfInjective, LenProperties
<1>3. ~Before(s, x, h)
  BY <1>2 DEF Before, IsInjective
<1>4. ASSUME Before(s, x, y), x # h PROVE Before(Append(u, h), x, y)
  <2>1. PICK i, j \in 1..Len(s) : i < j /\ s[i] = x /\ s[j] = y
    BY <1>4 DEF Before
  <2>2. i # 1
    BY <1>2, <1>4, <2>1
  <2>3. i - 1 \in 1..Len(s) - 1 /\ j - 1 \in 1..Len(s) - 1 /\ i - 1 < j - 1
        /\ (i - 1) + 1 = i /\ (j - 1) + 1 = j
    BY <1>2, <2>1, <2>2
  <2>4. u[i - 1] = x /\ u[j - 1] = y
    BY <1>2, <2>1, <2>3
  <2>5. Before(u, x, y)
    BY <1>2, <2>3, <2>4 DEF Before
  <2>. QED BY <2>5, AppendKeepsOrder
<1>5. ASSUME x \in ToSet(s), x # h PROVE Before(Append(u, h), x, h)
  <2>1. x \in ToSet(u)
    BY <1>2, <1>5
  <2>. QED BY <2>1, AppendKeepsOrder
<1>. QED BY <1>1, <1>3, <1>4, <1>5

-----------------------------------------------------------------------------
(* Lists that are joined and split *)

LEMMA ToSetOfAppend ==
    ASSUME NEW S, NEW s \in Seq(S)
    PROVE  /\ ToSet(s) \in SUBSET S
           /\ \A x \in S : Append(s, x) \in Seq(S) /\ ToSet(Append(s, x)) = ToSet(s) \cup {x}
<1>1. ToSet(s) \subseteq S
  BY LenProperties, ElementOfSeq DEF ToSet
<1>2. ASSUME NEW x \in S
      PROVE  Append(s, x) \in Seq(S) /\ ToSet(Append(s, x)) = ToSet(s) \cup {x}
  <2>1. PICK t \in Seq(S) : t = Append(s, x)
    BY AppendProperties
  <2>2. /\ Len(s) \in Nat /\ DOMAIN s = 1..Len(s) /\ DOMAIN t = 1..Len(s) + 1
        /\ t[Len(s) + 1] = x /\ \A i \in 1..Len(s) : t[i] = s[i]
    BY <2>1, AppendProperties, LenProperties
  <2>3. \A i \in DOMAIN t : i \in 1..Len(s) \/ i = Len(s) + 1
    BY <2>2
  <2>4. \A i \in 1..Len(s) + 1 : i \in DOMAIN t
    BY <2>2
  <2>5. ToSet(t) \subseteq ToSet(s) \cup {x}
    BY <2>2, <2>3 DEF ToSet
  <2>6. Len(s) + 1 \in DOMAIN t /\ \A i \in 1..Len(s) : i \in DOMAIN t
    BY <2>2
  <2>7. ToSet(s) \cup {x} \subseteq ToSet(t)
    BY <2>2, <2>6 DEF ToSet
  <2>. QED BY <2>1, <2>5, <2>7
<1>. QED BY <1>1, <1>2

LEMMA ConcatOfInjective ==
    ASSUME NEW S, NEW s \in Seq(S), NEW t \in Seq(S)
    PROVE  /\ s \o t \in Seq(S) /\ ToSet(s \o t) = ToSet(s) \cup ToSet(t)
           /\ IsInjective(s \o t) <=> /\ IsInjective(s) /\ IsInjective(t)
                                      /\ ToSet(s) \cap ToSet(t) = {}
<1>1. PICK u : u = s \o t
  OBVIOUS
<1>2. /\ Len(s) \in Nat /\ DOMAIN s = 1..Len(s) /\ Len(t) \in Nat /\ DOMAIN t = 1..Len(t)
      /\ u \in Seq(S) /\ Len(u) = Len(s) + Len(t) /\ DOMAIN u = 1..Len(s) + Len(t)
  BY <1>1, LenProperties, ConcatProperties
<1>3. /\ \A i \in 1..Len(s) : u[i] = s[i] /\ i \in DOMAIN u
      /\ \A i \in 1..Len(t) : u[Len(s) + i] = t[i] /\ Len(s) + i \in DOMAIN u
  <2>1. \A k \in 1..Len(s) + Len(t) : u[k] = IF k <= Len(s) THEN s[k] ELSE t[k - Len(s)]
    BY <1>1, ConcatProperties
  <2>2. ASSUME NEW i \in 1..Len(t) PROVE u[Len(s) + i] = t[i] /\ Len(s) + i \in DOMAIN u
    <3>1. Len(s) + i \in 1..Len(s) + Len(t) /\ ~(Len(s) + i <= Len(s)) /\ Len(s) + i - Len(s) = i
      BY <1>2
    <3>. QED BY <1>2, <2>1, <3>1
  <2>. QED BY <1>2, <2>1, <2>2
<1>4. \A k \in DOMAIN u : k \in 1..Len(s) \/ \E i \in 1..Len(t) : k = Len(s) + i
  <2>1. ASSUME NEW k \in DOMAIN u, k \notin 1..Len(s) PROVE \E i \in 1..Len(t) : k = Len(s) + i
    <3>1. k - Len(s) \in 1..Len(t) /\ k = Len(s) + (k - Len(s))
      BY <1>2, <2>1
    <3>. QED BY <3>1
  <2>. QED BY <2>1
<1>5. ToSet(u) = ToSet(s) \cup ToSet(t)
  <2>1. ToSet(s) \cup ToSet(t) \subseteq ToSet(u)
    BY <1>2, <1>3 DEF ToSet
  <2>2. ToSet(u) \subseteq ToSet(s) \cup ToSet(t)
    BY <1>2, <1>3, <1>4 DEF ToSet
  <2>. QED BY <2>1, <2>2
<1>6. ASSUME IsInjective(u)
      PROVE  IsInjective(s) /\ IsInjective(t) /\ ToSet(s) \cap ToSet(t) = {}
  <2>1. IsInjective(s)
    BY <1>2, <1>3, <1>6 DEF IsInjective
  <2>2. IsInjective(t)
    <3>1. ASSUME NEW i \in 1..Len(t), NEW j \in 1..Len(t), t[i] = t[j] PROVE i = j
      <4>1. Len(s) + i = Len(s) + j
        BY <1>3, <1>6, <3>1 DEF IsInjective
      <4>. QED BY <1>2, <4>1
    <3>. QED BY <1>2, <3>1 DEF IsInjective
  <2>3. ASSUME NEW x \in ToSet(s), x \in ToSet(t) PROVE FALSE
    <3>1. PICK i \in 1..Len(s) : s[i] = x
      BY <1>2 DEF ToSet
    <3>2. PICK j \in 1..Len(t) : t[j] = x
      BY <1>2, <2>3 DEF ToSet
    <3>3. i = Len(s) + j
      BY <1>3, <1>6, <3>1, <3>2 DEF IsInjective
    <3>. QED BY <1>2, <3>3
  <2>. QED BY <2>1, <2>2, <2>3
<1>7. ASSUME IsInjective(s), IsInjective(t), ToSet(s) \cap ToSet(t) = {}
      PROVE  IsInjective(u)
  <2>1. SUFFICES ASSUME NEW k \in DOMAIN u, NEW l \in DOMAIN u, u[k] = u[l] PROVE k = l
    BY DEF IsInjective
  <2>2. \A i \in 1..Len(s) : s[i] \in ToSet(s)
    BY <1>2 DEF ToSet
  <2>3. \A i \in 1..Len(t) : t[i] \in ToSet(t)
    BY <1>2 DEF ToSet
  <2>4. CASE k \in 1..Len(s) /\ l \in 1..Len(s)
    BY <1>2, <1>3, <1>7, <2>1, <2>4 DEF IsInjective
  <2>5. CASE k \in 1..Len(s) /\ l \notin 1..Len(s)
    BY <1>3, <1>4, <1>7, <2>1, <2>2, <2>3, <2>5
  <2>6. CASE k \notin 1..Len(s) /\ l \in 1..Len(s)
    BY <1>3, <1>4, <1>7, <2>1, <2>2, <2>3, <2>6
  <2>7. CASE k \notin 1..Len(s) /\ l \notin 1..Len(s)
    <3>1. PICK i \in 1..Len(t), j \in 1..Len(t) : k = Len(s) + i /\ l = Len(s) + j
      BY <1>4, <2>7
    <3>2. t[i] = t[j]
      BY <1>3, <2>1, <3>1
    <3>. QED BY <1>2, <1>7, <3>1, <3>2 DEF IsInjective
  <2>. QED BY <2>4, <2>5, <2>6, <2>7
<1>. QED BY <1>1, <1>2, <1>5, <1>6, <1>7

\* A list is its front and the rest of it.
LEMMA SplitInTwo ==
    ASSUME NEW S, NEW s \in Seq(S), NEW n \in 0..Len(s)
    PROVE  /\ SubSeq(s, 1, n) \in Seq(S) /\ Len(SubSeq(s, 1, n)) = n
           /\ SubSeq(s, n + 1, Len(s)) \in Seq(S)
           /\ SubSeq(s, 1, n) \o SubSeq(s, n + 1, Len(s)) = s
<1>1. PICK u : u = SubSeq(s, 1, n)
  OBVIOUS
<1>2. PICK v : v = SubSeq(s, n + 1, Len(s))
  OBVIOUS
<1>3. Len(s) \in Nat /\ n \in Nat /\ n <= Len(s) /\ DOMAIN s = 1..Len(s)
  BY LenProperties
<1>4. u \in Seq(S) /\ Len(u) = n /\ \A i \in 1..n : u[i] = s[i]
  <2>1. \A i \in 1..n : s[i] \in S
    BY <1>3, ElementOfSeq
  <2>. QED BY <1>1, <1>3, <2>1, SubSeqProperties
<1>5. v \in Seq(S) /\ Len(v) = Len(s) - n /\ \A i \in 1..Len(s) - n : v[i] = s[n + i]
  BY <1>2, RestProperties
<1>6. u \o v \in Seq(S) /\ Len(u \o v) = Len(s)
  <2>1. n + (Len(s) - n) = Len(s)
    BY <1>3
  <2>. QED BY <1>4, <1>5, <2>1, ConcatProperties
<1>7. \A k \in 1..Len(s) : (u \o v)[k] = s[k]
  <2>1. ASSUME NEW k \in 1..Len(s) PROVE (u \o v)[k] = s[k]
    <3>1. (u \o v)[k] = IF k <= n THEN u[k] ELSE v[k - n]
      BY <1>3, <1>4, <1>5, ConcatProperties
    <3>2. CASE k <= n
      BY <1>3, <1>4, <3>1, <3>2
    <3>3. CASE ~(k <= n)
      <4>1. k - n \in 1..Len(s) - n /\ n + (k - n) = k
        BY <1>3, <3>3
      <4>. QED BY <1>5, <3>1, <3>3, <4>1
    <3>. QED BY <3>2, <3>3
  <2>. QED BY <2>1
<1>8. u \o v = s
  BY <1>6, <1>7, SeqEqual
<1>. QED BY <1>1, <1>2, <1>4, <1>5, <1>8

\* The front of a list goes, without D, behind the rest, and the elements of D
\* to another list: nothing is lost or doubled.
LEMMA FrontAndRest ==
    ASSUME NEW S, NEW s \in Seq(S), IsInjective(s), NEW n \in 0..Len(s), NEW D
    PROVE  LET front == SubSeq(s, 1, n)
               stay  == SubSeq(s, n + 1, Len(s)) \o Unlinked(front, D)
               leave == Unlinked(front, ToSet(front) \ D)
           IN /\ stay \in Seq(S) /\ IsInjective(stay)
              /\ leave \in Seq(S) /\ IsInjective(leave)
              /\ ToSet(stay) \cap ToSet(leave) = {}
              /\ ToSet(stay) \cup ToSet(leave) = ToSet(s)
<1>1. PICK u \in Seq(S), v \in Seq(S) : u = SubSeq(s, 1, n) /\ v = SubSeq(s, n + 1, Len(s))
  <2>1. SubSeq(s, 1, n) \in Seq(S) /\ SubSeq(s, n + 1, Len(s)) \in Seq(S)
    BY SplitInTwo
  <2>. QED BY <2>1
<1>2. /\ IsInjective(u) /\ IsInjective(v) /\ ToSet(u) \cap ToSet(v) = {}
      /\ ToSet(s) = ToSet(u) \cup ToSet(v)
  <2>1. u \o v = s
    BY <1>1, SplitInTwo
  <2>2. IsInjective(u \o v)
    BY <2>1
  <2>3. ToSet(u \o v) = ToSet(u) \cup ToSet(v)
    BY ConcatOfInjective
  <2>4. IsInjective(u) /\ IsInjective(v) /\ ToSet(u) \cap ToSet(v) = {}
    BY <2>2, ConcatOfInjective
  <2>. QED BY <2>1, <2>3, <2>4
<1>3. PICK x \in Seq(S) : x = Unlinked(u, D) /\ IsInjective(x) /\ ToSet(x) = ToSet(u) \ D
  BY <1>2, UnlinkedProperties
<1>4. PICK y \in Seq(S) : /\ y = Unlinked(u, ToSet(u) \ D) /\ IsInjective(y)
                          /\ ToSet(y) = ToSet(u) \ (ToSet(u) \ D)
  BY <1>2, UnlinkedProperties
<1>5. ToSet(v) \cap ToSet(x) = {}
  BY <1>2, <1>3
<1>6. v \o x \in Seq(S) /\ IsInjective(v \o x) /\ ToSet(v \o x) = ToSet(v) \cup ToSet(x)
  BY <1>2, <1>3, <1>5, ConcatOfInjective
<1>7. ToSet(v \o x) \cap ToSet(y) = {} /\ ToSet(v \o x) \cup ToSet(y) = ToSet(s)
  BY <1>2, <1>3, <1>4, <1>6
<1>. QED BY <1>1, <1>3, <1>4, <1>6, <1>7

\* The order in a list that is put together from two.
LEMMA ConcatOrder ==
    ASSUME NEW S, NEW s \in Seq(S), NEW t \in Seq(S), NEW x, NEW y
    PROVE  Before(s \o t, x, y) <=>
              Before(s, x, y) \/ Before(t, x, y) \/ (x \in ToSet(s) /\ y \in ToSet(t))
<1>1. PICK u : u = s \o t
  OBVIOUS
<1>2. PICK m \in Nat, n \in Nat : m = Len(s) /\ n = Len(t)
  BY LenProperties
<1>3. /\ DOMAIN s = 1..m /\ DOMAIN t = 1..n /\ Len(u) = m + n
      /\ \A i \in 1..m : i \in 1..m + n /\ u[i] = s[i]
      /\ \A i \in 1..n : m + i \in 1..m + n /\ u[m + i] = t[i]
  <2>1. /\ Len(u) = m + n
        /\ \A i \in 1..m + n : u[i] = IF i <= m THEN s[i] ELSE t[i - m]
    BY <1>1, <1>2, ConcatProperties
  <2>2. \A i \in 1..m : i \in 1..m + n /\ i <= m
    OBVIOUS
  <2>3. \A i \in 1..n : m + i \in 1..m + n /\ ~(m + i <= m) /\ (m + i) - m = i
    OBVIOUS
  <2>4. DOMAIN s = 1..m /\ DOMAIN t = 1..n
    BY <1>2, LenProperties
  <2>5. \A i \in 1..n : u[m + i] = t[i]
    BY <2>1, <2>3
  <2>. QED BY <2>1, <2>2, <2>3, <2>4, <2>5
<1>4. \A i \in 1..m + n : i \in 1..m \/ \E k \in 1..n : i = m + k
  <2>1. SUFFICES ASSUME NEW i \in 1..m + n, i \notin 1..m PROVE \E k \in 1..n : i = m + k
    OBVIOUS
  <2>2. i - m \in 1..n /\ i = m + (i - m)
    BY <2>1
  <2>. QED BY <2>2
<1>5. ASSUME Before(u, x, y)
      PROVE  Before(s, x, y) \/ Before(t, x, y) \/ (x \in ToSet(s) /\ y \in ToSet(t))
  <2>1. PICK i \in 1..m + n, j \in 1..m + n : i < j /\ u[i] = x /\ u[j] = y
    BY <1>3, <1>5 DEF Before
  <2>2. CASE i \in 1..m /\ j \in 1..m
    BY <1>2, <1>3, <2>1, <2>2 DEF Before
  <2>3. CASE i \in 1..m /\ j \notin 1..m
    <3>1. PICK k \in 1..n : j = m + k
      BY <1>4, <2>3
    <3>2. x = s[i] /\ y = t[k]
      BY <1>3, <2>1, <2>3, <3>1
    <3>. QED BY <1>3, <2>3, <3>2 DEF ToSet
  <2>4. CASE i \notin 1..m
    <3>1. PICK l \in 1..n : i = m + l
      BY <1>4, <2>4
    <3>2. PICK k \in 1..n : j = m + k
      <4>1. j \notin 1..m
        BY <2>1, <2>4
      <4>. QED BY <1>4, <4>1
    <3>3. x = t[l] /\ y = t[k] /\ l < k
      BY <1>3, <2>1, <3>1, <3>2
    <3>. QED BY <1>2, <3>3 DEF Before
  <2>. QED BY <2>2, <2>3, <2>4
<1>6. ASSUME Before(s, x, y) PROVE Before(u, x, y)
  <2>1. PICK i \in 1..m, j \in 1..m : i < j /\ s[i] = x /\ s[j] = y
    BY <1>2, <1>6 DEF Before
  <2>. QED BY <1>3, <2>1 DEF Before
<1>7. ASSUME Before(t, x, y) PROVE Before(u, x, y)
  <2>1. PICK i \in 1..n, j \in 1..n : i < j /\ t[i] = x /\ t[j] = y
    BY <1>2, <1>7 DEF Before
  <2>2. m + i < m + j
    BY <2>1
  <2>. QED BY <1>3, <2>1, <2>2 DEF Before
<1>8. ASSUME x \in ToSet(s), y \in ToSet(t) PROVE Before(u, x, y)
  <2>1. PICK i \in 1..m : s[i] = x
    BY <1>3, <1>8 DEF ToSet
  <2>2. PICK j \in 1..n : t[j] = y
    BY <1>3, <1>8 DEF ToSet
  <2>3. i < m + j
    OBVIOUS
  <2>. QED BY <1>3, <2>1, <2>2, <2>3 DEF Before
<1>. QED BY <1>1, <1>5, <1>6, <1>7, <1>8

\* Only elements of a list are in an order there.
LEMMA OrderedAreInList ==
    ASSUME NEW S, NEW s \in Seq(S), NEW x, NEW y, Before(s, x, y)
    PROVE  x \in ToSet(s) /\ y \in ToSet(s)
BY LenProperties DEF Before, ToSet

\* The other way: what is left of a list is in the order it had there.
LEMMA UnlinkedHadOrder ==
    ASSUME NEW S, NEW s \in Seq(S), NEW D, NEW x, NEW y, Before(Unlinked(s, D), x, y)
    PROVE  Before(s, x, y)
<1>1. PICK t : /\ t = Unlinked(s, D)
               /\ \A m, n \in 1..Len(t) : m < n =>
                     \E i, j \in 1..Len(s) : i < j /\ t[m] = s[i] /\ t[n] = s[j]
  BY UnlinkedProperties
<1>2. PICK m, n \in 1..Len(t) : m < n /\ t[m] = x /\ t[n] = y
  BY <1>1 DEF Before
<1>. QED BY <1>1, <1>2 DEF Before

\* What stays behind the front of a list keeps its order, also when some of the
\* front follow it again.
LEMMA RestKeepsOrder ==
    ASSUME NEW S, NEW s \in Seq(S), IsInjective(s), NEW n \in 0..Len(s), NEW D,
           NEW x, NEW y, y \notin ToSet(SubSeq(s, 1, n)),
           Before(SubSeq(s, n + 1, Len(s)) \o Unlinked(SubSeq(s, 1, n), D), x, y)
    PROVE  Before(s, x, y) /\ x \notin ToSet(SubSeq(s, 1, n))
<1>1. PICK u \in Seq(S), v \in Seq(S) :
         u = SubSeq(s, 1, n) /\ v = SubSeq(s, n + 1, Len(s)) /\ u \o v = s
  <2>1. /\ SubSeq(s, 1, n) \in Seq(S) /\ SubSeq(s, n + 1, Len(s)) \in Seq(S)
        /\ SubSeq(s, 1, n) \o SubSeq(s, n + 1, Len(s)) = s
    BY SplitInTwo
  <2>. QED BY <2>1
<1>2. PICK w \in Seq(S) : w = Unlinked(u, D) /\ ToSet(w) \subseteq ToSet(u)
  BY UnlinkedProperties
<1>3. Before(v \o w, x, y) /\ y \notin ToSet(w)
  BY <1>1, <1>2
<1>4. Before(v, x, y)
  <2>1. Before(w, x, y) => y \in ToSet(w)
    BY OrderedAreInList
  <2>2. Before(v, x, y) \/ Before(w, x, y) \/ (x \in ToSet(v) /\ y \in ToSet(w))
    BY <1>3, ConcatOrder
  <2>. QED BY <1>3, <2>1, <2>2
<1>5. Before(s, x, y)
  <2>1. Before(u \o v, x, y)
    BY <1>4, ConcatOrder
  <2>. QED BY <1>1, <2>1
<1>6. x \in ToSet(v)
  BY <1>4, OrderedAreInList
<1>7. ToSet(u) \cap ToSet(v) = {}
  <2>1. IsInjective(u \o v)
    BY <1>1
  <2>. QED BY <2>1, ConcatOfInjective
<1>. QED BY <1>1, <1>5, <1>6, <1>7

\* The empty list.
LEMMA EmptyToSet == ToSet(<<>>) = {} /\ IsInjective(<<>>)
<1>1. PICK e : e = <<>>
  OBVIOUS
<1>2. e \in Seq(Nat) /\ Len(e) = 0
  BY <1>1, EmptySeq
<1>3. DOMAIN e = {}
  BY <1>2, LenProperties
<1>. QED BY <1>1, <1>3 DEF ToSet, IsInjective

\* A list without duplicates is as long as its set is large.
LEMMA CardinalityOfInjective ==
    ASSUME NEW S, NEW s \in Seq(S), IsInjective(s)
    PROVE  IsFiniteSet(ToSet(s)) /\ Cardinality(ToSet(s)) = Len(s)
<1>1. Len(s) \in Nat /\ DOMAIN s = 1..Len(s)
  BY LenProperties
<1>2. s \in [1..Len(s) -> ToSet(s)]
  <2>1. s \in [1..Len(s) -> S]
    BY LenProperties
  <2>2. \A i \in 1..Len(s) : s[i] \in ToSet(s)
    BY <1>1 DEF ToSet
  <2>. QED BY <2>1, <2>2
<1>3. \A x \in ToSet(s) : \E i \in 1..Len(s) : s[i] = x
  BY <1>1 DEF ToSet
<1>4. s \in Bijection(1..Len(s), ToSet(s))
  BY <1>2, <1>3 DEF Bijection, Injection, Surjection
<1>5. IsFiniteSet(1..Len(s)) /\ Cardinality(1..Len(s)) = Len(s)
  <2>1. 1 \in Int /\ Len(s) \in Int /\ (1 > Len(s) => Len(s) = 0) /\ Len(s) - 1 + 1 = Len(s)
    BY <1>1
  <2>. QED BY <2>1, FS_Interval
<1>6. ExistsBijection(1..Len(s), ToSet(s))
  BY <1>4 DEF ExistsBijection
<1>. QED BY <1>5, <1>6, FS_Bijection

\* The front of a list.
LEMMA FrontOfInjective ==
    ASSUME NEW S, NEW s \in Seq(S), IsInjective(s), NEW n \in Nat, n <= Len(s)
    PROVE  LET t == SubSeq(s, 1, n) IN
           t \in Seq(S) /\ Len(t) = n /\ IsInjective(t) /\ ToSet(t) \subseteq ToSet(s)
<1>1. n \in 0..Len(s)
  BY LenProperties
<1>2. PICK u \in Seq(S), v \in Seq(S) :
         u = SubSeq(s, 1, n) /\ v = SubSeq(s, n + 1, Len(s)) /\ Len(u) = n /\ u \o v = s
  <2>1. /\ SubSeq(s, 1, n) \in Seq(S) /\ Len(SubSeq(s, 1, n)) = n
        /\ SubSeq(s, n + 1, Len(s)) \in Seq(S)
        /\ SubSeq(s, 1, n) \o SubSeq(s, n + 1, Len(s)) = s
    BY <1>1, SplitInTwo
  <2>. QED BY <2>1
<1>3. IsInjective(u \o v)
  BY <1>2
<1>4. IsInjective(u) /\ ToSet(u \o v) = ToSet(u) \cup ToSet(v)
  BY <1>3, ConcatOfInjective
<1>. QED BY <1>2, <1>4

\* The elements of a list at given positions.
Selected(S, s, at, t) ==
    /\ s \in Seq(S) /\ IsInjective(s) /\ at \in Seq(1..Len(s)) /\ IsInjective(at)
    /\ t = [k \in 1..Len(at) |-> s[at[k]]]

LEMMA SelectedOfInjective ==
    ASSUME NEW S, NEW s, NEW at, NEW t, Selected(S, s, at, t)
    PROVE  /\ t \in Seq(S) /\ IsInjective(t)
           /\ ToSet(t) = {s[p] : p \in ToSet(at)}
<1>0. /\ s \in Seq(S) /\ IsInjective(s) /\ at \in Seq(1..Len(s)) /\ IsInjective(at)
      /\ t = [k \in 1..Len(at) |-> s[at[k]]]
  BY DEF Selected
<1>1. /\ Len(at) \in Nat /\ DOMAIN at = 1..Len(at) /\ DOMAIN s = 1..Len(s)
      /\ \A k \in 1..Len(at) : at[k] \in 1..Len(s)
      /\ \A i \in 1..Len(s) : s[i] \in S
  BY <1>0, LenProperties, ElementOfSeq
<1>2. t \in [1..Len(at) -> S]
  BY <1>0, <1>1
<1>3. t \in Seq(S) /\ DOMAIN t = 1..Len(at)
  BY <1>0, <1>1, <1>2, SeqDef
<1>4. IsInjective(t)
  <2>1. ASSUME NEW k \in 1..Len(at), NEW l \in 1..Len(at), t[k] = t[l] PROVE k = l
    <3>1. at[k] = at[l]
      BY <1>0, <1>1, <2>1 DEF IsInjective
    <3>. QED BY <1>0, <1>1, <3>1 DEF IsInjective
  <2>. QED BY <1>3, <2>1 DEF IsInjective
<1>5. ToSet(t) = {s[p] : p \in ToSet(at)}
  BY <1>0, <1>1, <1>3 DEF ToSet
<1>. QED BY <1>3, <1>4, <1>5

-----------------------------------------------------------------------------
(* Pieces of a list: what is behind its first a elements, up to the n-th *)

IsPiece(S, t, s, a, n) ==
    /\ t \in Seq(S) /\ t = SubSeq(s, a + 1, n) /\ Len(t) = n - a
    /\ \A i \in 1..n - a : t[i] = s[a + i]

LEMMA PieceProperties ==
    ASSUME NEW S, NEW s \in Seq(S), NEW a \in Nat, NEW n \in Nat, a <= n, n <= Len(s)
    PROVE  IsPiece(S, SubSeq(s, a + 1, n), s, a, n)
<1>1. PICK t : t = SubSeq(s, a + 1, n)
  OBVIOUS
<1>2. Len(s) \in Nat
  BY LenProperties
<1>3. \A i \in a + 1..n : s[i] \in S
  BY <1>2, ElementOfSeq
<1>4. /\ t \in Seq(S) /\ Len(t) = IF a + 1 <= n THEN n - (a + 1) + 1 ELSE 0
      /\ \A i \in 1..n - (a + 1) + 1 : t[i] = s[a + 1 + i - 1]
  BY <1>1, <1>3, SubSeqProperties
<1>5. Len(t) = n - a
  BY <1>4
<1>6. ASSUME NEW i \in 1..n - a PROVE t[i] = s[a + i]
  <2>1. i \in 1..n - (a + 1) + 1 /\ a + 1 + i - 1 = a + i
    OBVIOUS
  <2>. QED BY <1>4, <2>1
<1>. QED BY <1>1, <1>4, <1>5, <1>6 DEF IsPiece

LEMMA PieceOfPiece ==
    ASSUME NEW S, NEW s \in Seq(S), NEW a \in Nat, NEW n \in Nat, a <= n, n <= Len(s),
           NEW x \in Nat, NEW y \in Nat, x <= y, y <= n - a
    PROVE  SubSeq(SubSeq(s, a + 1, n), x + 1, y) = SubSeq(s, a + x + 1, a + y)
<1>0. Len(s) \in Nat
  BY LenProperties
<1>1. PICK t : t = SubSeq(s, a + 1, n) /\ IsPiece(S, t, s, a, n)
  BY PieceProperties
<1>2. PICK u : u = SubSeq(t, x + 1, y) /\ IsPiece(S, u, t, x, y)
  <2>1. t \in Seq(S) /\ y <= Len(t)
    BY <1>1 DEF IsPiece
  <2>. QED BY <2>1, PieceProperties
<1>3. PICK c \in Nat, d \in Nat : c = a + x /\ d = a + y
  OBVIOUS
<1>4. PICK v : v = SubSeq(s, c + 1, d) /\ IsPiece(S, v, s, c, d)
  <2>1. c <= d /\ d <= Len(s)
    BY <1>0, <1>3
  <2>. QED BY <2>1, PieceProperties
<1>5. u \in Seq(S) /\ v \in Seq(S) /\ Len(u) = y - x /\ Len(v) = y - x
  BY <1>2, <1>3, <1>4 DEF IsPiece
<1>6. ASSUME NEW i \in 1..y - x PROVE u[i] = v[i]
  <2>1. i \in 1..d - c /\ x + i \in 1..n - a /\ a + (x + i) = c + i
    BY <1>3
  <2>. QED BY <1>1, <1>2, <1>4, <2>1 DEF IsPiece
<1>7. u = v
  BY <1>5, <1>6, SeqEqual
<1>. QED BY <1>1, <1>2, <1>3, <1>4, <1>7

LEMMA PiecesJoin ==
    ASSUME NEW S, NEW s \in Seq(S), NEW a \in Nat, NEW b \in Nat, NEW n \in Nat,
           a <= b, b <= n, n <= Len(s)
    PROVE  SubSeq(s, a + 1, b) \o SubSeq(s, b + 1, n) = SubSeq(s, a + 1, n)
<1>0. Len(s) \in Nat /\ b <= Len(s) /\ a <= n
  BY LenProperties
<1>1. PICK t : t = SubSeq(s, a + 1, b) /\ IsPiece(S, t, s, a, b)
  BY <1>0, PieceProperties
<1>2. PICK u : u = SubSeq(s, b + 1, n) /\ IsPiece(S, u, s, b, n)
  BY PieceProperties
<1>3. PICK v : v = SubSeq(s, a + 1, n) /\ IsPiece(S, v, s, a, n)
  BY <1>0, PieceProperties
<1>4. PICK w \in Seq(S) : /\ w = t \o u /\ Len(w) = Len(t) + Len(u)
                          /\ \A i \in 1..Len(t) + Len(u) :
                                w[i] = IF i <= Len(t) THEN t[i] ELSE u[i - Len(t)]
  <2>0. t \in Seq(S) /\ u \in Seq(S)
    BY <1>1, <1>2 DEF IsPiece
  <2>1. /\ t \o u \in Seq(S) /\ Len(t \o u) = Len(t) + Len(u)
        /\ \A i \in 1..Len(t) + Len(u) :
              (t \o u)[i] = IF i <= Len(t) THEN t[i] ELSE u[i - Len(t)]
    BY <2>0, ConcatProperties
  <2>. QED BY <2>1
<1>5. Len(t) = b - a /\ Len(u) = n - b /\ Len(w) = n - a /\ Len(v) = n - a /\ v \in Seq(S)
  BY <1>1, <1>2, <1>3, <1>4 DEF IsPiece
<1>6. ASSUME NEW i \in 1..n - a PROVE w[i] = v[i]
  <2>0. v[i] = s[a + i]
    BY <1>3 DEF IsPiece
  <2>1. i \in 1..Len(t) + Len(u)
    BY <1>5
  <2>2. CASE i <= b - a
    <3>1. i \in 1..b - a
      BY <2>2
    <3>2. t[i] = s[a + i]
      BY <1>1, <3>1 DEF IsPiece
    <3>. QED BY <1>4, <1>5, <2>0, <2>1, <2>2, <3>2
  <2>3. CASE ~(i <= b - a)
    <3>1. i - (b - a) \in 1..n - b /\ b + (i - (b - a)) = a + i
      BY <2>3
    <3>2. w[i] = u[i - (b - a)]
      BY <1>4, <1>5, <2>1, <2>3
    <3>3. u[i - (b - a)] = s[b + (i - (b - a))]
      BY <1>2, <3>1 DEF IsPiece
    <3>. QED BY <2>0, <3>1, <3>2, <3>3
  <2>. QED BY <2>2, <2>3
<1>7. w = v
  BY <1>4, <1>5, <1>6, SeqEqual
<1>. QED BY <1>1, <1>2, <1>3, <1>4, <1>7
=============================================================================
