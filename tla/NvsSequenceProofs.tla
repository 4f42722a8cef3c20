-------------------------- MODULE NvsSequenceProofs --------------------------
(***************************************************************************)
(* What the operators on sets of numbers and on sequences return that the  *)
(* models of the storage and of blobs are built from: Min, Append,         *)
(* InsertAt, RemoveAt, Front, Tail, and sequences without repetition, as   *)
(* the lists of pages are.                                                 *)
(***************************************************************************)
EXTENDS Integers, FiniteSetsExt, SequencesExt,
        FiniteSetTheorems, SequenceTheorems, WellFoundedInduction, TLAPS

Less == OpToRel(<, Nat)

\* The relation over which WFMin takes minima is < on the naturals.
LEMMA LessPairs == \A m, n \in Nat : m < n => <<m, n>> \in Less
<1> SUFFICES ASSUME NEW m \in Nat, NEW n \in Nat, m < n
             PROVE  <<m, n>> \in {ss \in Nat \X Nat : ss[1] < ss[2]}
  BY DEF Less, OpToRel
<1>1. <<m, n>>[1] < <<m, n>>[2]
  OBVIOUS
<1>2. <<m, n>> \in Nat \X Nat
  OBVIOUS
<1> QED
  BY <1>1, <1>2, Zenon

\* Min of a set of naturals is its least element.
LEMMA MinProperty ==
  ASSUME NEW S \in SUBSET Nat, S # {}
  PROVE  Min(S) \in S /\ \A y \in S : Min(S) <= y
<1>1. IsWellFoundedOn(Less, Nat)
  BY NatLessThanWellFounded, Zenon DEF Less
<1>2. PICK x \in S : \A y \in S : ~ (<<y, x>> \in Less)
  BY <1>1, WFMin
<1>3. ASSUME NEW y \in S
      PROVE  x <= y
  <2>1. ~ (y < x)
    BY <1>2, LessPairs
  <2> QED
    BY <2>1
<1> QED
  BY <1>3 DEF Min

\* Append adds one element.
LEMMA AppendElements ==
  ASSUME NEW T, NEW s \in Seq(T), NEW e \in T
  PROVE  Append(s, e) \in Seq(T) /\ Range(Append(s, e)) = Range(s) \cup {e}
<1> DEFINE t == Append(s, e)
<1>1. t \in Seq(T) /\ DOMAIN t = 1 .. Len(s) + 1 /\ t[Len(s) + 1] = e
  OBVIOUS
<1>2. \A n \in 1 .. Len(s) : t[n] = s[n]
  OBVIOUS
<1>3. DOMAIN s = 1 .. Len(s) /\ Len(s) \in Nat
  OBVIOUS
<1> HIDE DEF t
<1>4. Range(t) = Range(s) \cup {e}
  BY <1>1, <1>2, <1>3 DEF Range
<1> QED
  BY <1>1, <1>4 DEF t

\* InsertAt puts an element at a position and keeps the others.
LEMMA InsertAtProperty ==
  ASSUME NEW T, NEW s \in Seq(T), NEW e \in T, NEW i \in 1 .. Len(s) + 1
  PROVE  /\ InsertAt(s, i, e) \in Seq(T)
         /\ Len(InsertAt(s, i, e)) = Len(s) + 1
         /\ DOMAIN InsertAt(s, i, e) = 1 .. Len(s) + 1
         /\ InsertAt(s, i, e)[i] = e
         /\ \A n \in 1 .. i - 1 : InsertAt(s, i, e)[n] = s[n]
         /\ \A n \in i + 1 .. Len(s) + 1 : InsertAt(s, i, e)[n] = s[n - 1]
<1> DEFINE a == SubSeq(s, 1, i - 1)
           b == SubSeq(s, i, Len(s))
<1>1. a \in Seq(T) /\ Len(a) = i - 1 /\ \A n \in 1 .. i - 1 : a[n] = s[n]
  OBVIOUS
<1>2. b \in Seq(T) /\ Len(b) = Len(s) + 1 - i /\ \A n \in 1 .. Len(s) + 1 - i : b[n] = s[i + n - 1]
  OBVIOUS
<1>3. InsertAt(s, i, e) = (a \o <<e>>) \o b
  BY DEF InsertAt
<1> HIDE DEF a, b
<1> DEFINE c == a \o <<e>>
<1>4. c \in Seq(T) /\ Len(c) = i /\ c[i] = e /\ \A n \in 1 .. i - 1 : c[n] = s[n]
  BY <1>1
<1> HIDE DEF c
<1>5. /\ c \o b \in Seq(T) /\ Len(c \o b) = Len(s) + 1
      /\ \A n \in 1 .. Len(s) + 1 : (c \o b)[n] = IF n <= i THEN c[n] ELSE b[n - i]
  BY <1>2, <1>4
<1>6. \A n \in 1 .. Len(s) + 1 : n > i => b[n - i] = s[n - 1]
  BY <1>2
<1>7. DOMAIN (c \o b) = 1 .. Len(s) + 1
  BY <1>5
<1> QED
  BY <1>3, <1>4, <1>5, <1>6, <1>7 DEF c

\* RemoveAt drops the element at a position and keeps the others.
LEMMA RemoveAtProperty ==
  ASSUME NEW T, NEW s \in Seq(T), NEW i \in 1 .. Len(s)
  PROVE  /\ RemoveAt(s, i) \in Seq(T)
         /\ Len(RemoveAt(s, i)) = Len(s) - 1
         /\ DOMAIN RemoveAt(s, i) = 1 .. Len(s) - 1
         /\ \A n \in 1 .. Len(s) - 1 : RemoveAt(s, i)[n] = IF n < i THEN s[n] ELSE s[n + 1]
<1> DEFINE a == SubSeq(s, 1, i - 1)
           b == SubSeq(s, i + 1, Len(s))
<1>1. a \in Seq(T) /\ Len(a) = i - 1 /\ \A n \in 1 .. i - 1 : a[n] = s[n]
  OBVIOUS
<1>2. b \in Seq(T) /\ Len(b) = Len(s) - i /\ \A n \in 1 .. Len(s) - i : b[n] = s[i + n]
  OBVIOUS
<1>3. RemoveAt(s, i) = a \o b
  BY DEF RemoveAt
<1> HIDE DEF a, b
<1>4. Len(s) \in Nat /\ i \in Nat /\ 1 <= i /\ i <= Len(s)
  OBVIOUS
<1>5. a \o b \in Seq(T) /\ Len(a \o b) = Len(a) + Len(b)
  BY <1>1, <1>2, ConcatProperties
<1>6. \A n \in 1 .. Len(s) - 1 : (a \o b)[n] = IF n < i THEN s[n] ELSE s[n + 1]
  <2> SUFFICES ASSUME NEW n \in 1 .. Len(s) - 1
               PROVE  (a \o b)[n] = IF n < i THEN s[n] ELSE s[n + 1]
    OBVIOUS
  <2>1. CASE n < i
    BY <1>1, <1>2, <1>4, <2>1
  <2>2. CASE n >= i
    <3>1. (a \o b)[n] = b[n - (i - 1)]
      BY <1>1, <1>2, <1>4, <2>2
    <3>2. b[n - (i - 1)] = s[i + (n - (i - 1))]
      BY <1>2, <1>4, <2>2
    <3> QED
      BY <3>1, <3>2, <1>4, <2>2
  <2>3. n < i \/ n >= i
    BY <1>4
  <2> QED
    BY <2>1, <2>2, <2>3
<1>7. Len(a \o b) = Len(s) - 1
  BY <1>1, <1>2, <1>4, <1>5
<1>8. DOMAIN (a \o b) = 1 .. Len(s) - 1
  BY <1>5, <1>7
<1> QED
  BY <1>3, <1>5, <1>6, <1>7, <1>8, Zenon

\* Front drops the last element; Last is that element.
LEMMA FrontProperty ==
  ASSUME NEW T, NEW s \in Seq(T), s # <<>>
  PROVE  /\ Front(s) \in Seq(T)
         /\ Len(Front(s)) = Len(s) - 1
         /\ \A n \in 1 .. Len(s) - 1 : Front(s)[n] = s[n]
         /\ Last(s) \in T /\ Last(s) = s[Len(s)]
<1> DEFINE m == Len(s) - 1
           t == SubSeq(s, 1, m)
<1>1. Len(s) \in Nat /\ Len(s) >= 1 /\ m \in Nat
  OBVIOUS
<1>2. 1 \in Int /\ m \in Int /\ \A i \in 1 .. m : s[i] \in T
  OBVIOUS
<1> HIDE DEF m
<1>3. /\ t \in Seq(T)
      /\ Len(t) = IF 1 <= m THEN m - 1 + 1 ELSE 0
      /\ \A i \in 1 .. m - 1 + 1 : t[i] = s[1 + i - 1]
  BY ONLY <1>2, SubSeqProperties
<1> HIDE DEF t
<1>4. Len(t) = m /\ \A i \in 1 .. m : t[i] = s[i]
  BY <1>1, <1>3
<1>5. s[Len(s)] \in T
  BY <1>1
<1> QED
  BY <1>3, <1>4, <1>5 DEF Front, Last, t, m

-----------------------------------------------------------------------------
(* Sequences without repetition. *)

\* Appending a new element to a sequence keeps it without repetition.
LEMMA AppendOnce ==
  ASSUME NEW T, NEW s \in Seq(T), NEW e \in T, IsInjective(s), e \notin Range(s)
  PROVE  IsInjective(Append(s, e))
<1> DEFINE t == Append(s, e)
<1>1. DOMAIN t = 1 .. Len(s) + 1 /\ t[Len(s) + 1] = e /\ \A n \in 1 .. Len(s) : t[n] = s[n]
  OBVIOUS
<1>2. DOMAIN s = 1 .. Len(s) /\ Len(s) \in Nat
  OBVIOUS
<1> HIDE DEF t
<1>3. IsInjective(t)
  BY <1>1, <1>2 DEF IsInjective, Range
<1> QED
  BY <1>3 DEF t

\* So does inserting it.
LEMMA InsertOnce ==
  ASSUME NEW T, NEW s \in Seq(T), NEW e \in T, NEW i \in 1 .. Len(s) + 1
  PROVE  /\ Range(InsertAt(s, i, e)) = Range(s) \cup {e}
         /\ IsInjective(s) /\ e \notin Range(s) => IsInjective(InsertAt(s, i, e))
<1>1. Len(s) \in Nat /\ DOMAIN s = 1 .. Len(s)
  OBVIOUS
<1> DEFINE t == InsertAt(s, i, e)
<1>2. /\ DOMAIN t = 1 .. Len(s) + 1 /\ t[i] = e
      /\ \A n \in 1 .. i - 1 : t[n] = s[n]
      /\ \A n \in i + 1 .. Len(s) + 1 : t[n] = s[n - 1]
  <2>1. DOMAIN InsertAt(s, i, e) = 1 .. Len(s) + 1
    BY InsertAtProperty
  <2>2. InsertAt(s, i, e)[i] = e
    BY InsertAtProperty
  <2>3. \A n \in 1 .. i - 1 : InsertAt(s, i, e)[n] = s[n]
    BY InsertAtProperty
  <2>4. \A n \in i + 1 .. Len(s) + 1 : InsertAt(s, i, e)[n] = s[n - 1]
    BY InsertAtProperty
  <2> QED
    BY <2>1, <2>2, <2>3, <2>4, Zenon
<1> HIDE DEF t
<1>3. Range(t) = Range(s) \cup {e}
  <2>1. \A n \in DOMAIN t : t[n] \in Range(s) \cup {e}
    <3> TAKE n \in DOMAIN t
    <3>1. CASE n < i
      <4>1. n \in DOMAIN s /\ t[n] = s[n]
        BY <1>1, <1>2, <3>1
      <4> QED
        BY <4>1 DEF Range
    <3>2. CASE n = i
      BY <1>2, <3>2
    <3>3. CASE n > i
      <4>1. n - 1 \in DOMAIN s
        BY <1>1, <1>2, <3>3
      <4>2. t[n] = s[n - 1]
        BY <1>1, <1>2, <3>3
      <4> QED
        BY <4>1, <4>2 DEF Range
    <3> QED
      BY <1>1, <1>2, <3>1, <3>2, <3>3
  <2>2. \A n \in DOMAIN s : s[n] \in Range(t)
    <3> TAKE n \in DOMAIN s
    <3>1. CASE n < i
      BY <1>1, <1>2, <3>1 DEF Range
    <3>2. CASE n >= i
      <4>1. n + 1 \in DOMAIN t /\ t[n + 1] = s[n]
        BY <1>1, <1>2, <3>2
      <4> QED
        BY <4>1 DEF Range
    <3> QED
      BY <1>1, <3>1, <3>2
  <2>3. e \in Range(t)
    BY <1>1, <1>2 DEF Range
  <2> QED
    BY <2>1, <2>2, <2>3 DEF Range
<1>4. IsInjective(s) /\ e \notin Range(s) => IsInjective(t)
  <2> SUFFICES ASSUME IsInjective(s), e \notin Range(s),
                      NEW m \in DOMAIN t, NEW n \in DOMAIN t, t[m] = t[n]
               PROVE  m = n
    BY DEF IsInjective
  <2> DEFINE at(k) == IF k < i THEN k ELSE k - 1
  <2>1. \A k \in DOMAIN t : k # i => at(k) \in DOMAIN s /\ t[k] = s[at(k)]
    BY <1>1, <1>2
  <2>2. m = i <=> n = i
    BY <1>2, <2>1 DEF Range
  <2>3. m # i => at(m) = at(n)
    BY <2>1, <2>2 DEF IsInjective
  <2> QED
    BY <1>1, <1>2, <2>2, <2>3
<1> QED
  BY <1>3, <1>4 DEF t

\* Removing an element of a sequence without repetition leaves the others.
LEMMA RemoveOnce ==
  ASSUME NEW T, NEW s \in Seq(T), NEW i \in 1 .. Len(s), IsInjective(s)
  PROVE  /\ Range(RemoveAt(s, i)) = Range(s) \ {s[i]}
         /\ IsInjective(RemoveAt(s, i))
<1> DEFINE t == RemoveAt(s, i)
<1>1. Len(s) \in Nat /\ DOMAIN s = 1 .. Len(s)
  OBVIOUS
<1>2. /\ DOMAIN t = 1 .. Len(s) - 1
      /\ \A n \in 1 .. Len(s) - 1 : t[n] = IF n < i THEN s[n] ELSE s[n + 1]
  BY RemoveAtProperty, Zenon
<1> HIDE DEF t
<1>3. \A n \in DOMAIN t : t[n] \in Range(s) \ {s[i]}
  BY <1>1, <1>2 DEF Range, IsInjective
<1>4. \A n \in DOMAIN s : n # i => s[n] \in Range(t)
  <2> SUFFICES ASSUME NEW n \in DOMAIN s, n # i PROVE s[n] \in Range(t)
    OBVIOUS
  <2>1. CASE n < i
    BY <1>1, <1>2, <2>1 DEF Range
  <2>2. CASE n > i
    <3>1. n - 1 \in DOMAIN t /\ t[n - 1] = s[n]
      BY <1>1, <1>2, <2>2
    <3> QED
      BY <3>1 DEF Range
  <2> QED
    BY <1>1, <2>1, <2>2
<1>5. Range(t) = Range(s) \ {s[i]}
  BY <1>3, <1>4 DEF Range
<1>6. IsInjective(t)
  <2> SUFFICES ASSUME NEW m \in DOMAIN t, NEW n \in DOMAIN t, t[m] = t[n] PROVE m = n
    BY DEF IsInjective
  <2> DEFINE at(k) == IF k < i THEN k ELSE k + 1
  <2>1. at(m) \in DOMAIN s /\ at(n) \in DOMAIN s /\ s[at(m)] = s[at(n)]
    BY <1>1, <1>2
  <2>2. at(m) = at(n)
    BY <2>1 DEF IsInjective
  <2> QED
    BY <1>1, <1>2, <2>2
<1> QED
  BY <1>5, <1>6 DEF t

\* Front removes the last element.
LEMMA FrontOnce ==
  ASSUME NEW T, NEW s \in Seq(T), s # <<>>, IsInjective(s)
  PROVE  Range(Front(s)) = Range(s) \ {Last(s)} /\ IsInjective(Front(s))
<1> DEFINE t == Front(s)
<1>1. Len(s) \in Nat /\ Len(s) >= 1 /\ DOMAIN s = 1 .. Len(s)
  OBVIOUS
<1>2. /\ DOMAIN t = 1 .. Len(s) - 1 /\ Last(s) = s[Len(s)]
      /\ \A n \in 1 .. Len(s) - 1 : t[n] = s[n]
  BY FrontProperty
<1> HIDE DEF t
<1>3. Range(t) = Range(s) \ {s[Len(s)]} /\ IsInjective(t)
  BY <1>1, <1>2 DEF Range, IsInjective
<1> QED
  BY <1>2, <1>3 DEF t

\* Tail removes the first element.
LEMMA TailOnce ==
  ASSUME NEW T, NEW s \in Seq(T), s # <<>>, IsInjective(s)
  PROVE  Range(Tail(s)) = Range(s) \ {Head(s)} /\ IsInjective(Tail(s))
<1> DEFINE t == Tail(s)
<1>1. Len(s) \in Nat /\ Len(s) >= 1 /\ DOMAIN s = 1 .. Len(s) /\ Head(s) = s[1]
  OBVIOUS
<1>2. DOMAIN t = 1 .. Len(s) - 1 /\ \A n \in 1 .. Len(s) - 1 : t[n] = s[n + 1]
  OBVIOUS
<1> HIDE DEF t
<1>3. \A n \in DOMAIN t : t[n] \in Range(s) \ {s[1]}
  BY <1>1, <1>2 DEF Range, IsInjective
<1>4. \A n \in DOMAIN s : n # 1 => s[n] \in Range(t)
  <2> SUFFICES ASSUME NEW n \in DOMAIN s, n # 1 PROVE s[n] \in Range(t)
    OBVIOUS
  <2>1. n - 1 \in DOMAIN t /\ t[n - 1] = s[n]
    BY <1>1, <1>2
  <2> QED
    BY <2>1 DEF Range
<1>5. Range(t) = Range(s) \ {s[1]}
  BY <1>1, <1>3, <1>4 DEF Range
<1>6. IsInjective(t)
  <2> SUFFICES ASSUME NEW m \in DOMAIN t, NEW n \in DOMAIN t, t[m] = t[n] PROVE m = n
    BY DEF IsInjective
  <2>1. m + 1 \in DOMAIN s /\ n + 1 \in DOMAIN s /\ s[m + 1] = s[n + 1]
    BY <1>1, <1>2
  <2>2. m + 1 = n + 1
    BY <2>1 DEF IsInjective
  <2> QED
    BY <1>1, <1>2, <2>2
<1> QED
  BY <1>1, <1>5, <1>6 DEF t

\* Induction on the naturals, by the least number that is not in the set.
LEMMA SetInduction ==
  ASSUME NEW T, 0 \in T, \A n \in Nat : n \in T => n + 1 \in T
  PROVE  \A n \in Nat : n \in T
<1> SUFFICES ASSUME NEW m \in Nat, m \notin T PROVE FALSE
  OBVIOUS
<1> DEFINE S == {n \in Nat : n \notin T}
           k == Min(S)
<1>1. S \in SUBSET Nat /\ S # {}
  OBVIOUS
<1> HIDE DEF S
<1>2. k \in S /\ \A y \in S : k <= y
  BY <1>1, MinProperty
<1> HIDE DEF k
<1>3. k \in Nat /\ k \notin T /\ k # 0
  BY <1>2 DEF S
<1>4. k - 1 \in Nat /\ k - 1 \notin S
  BY <1>2, <1>3
<1>5. k - 1 \in T
  BY <1>4 DEF S
<1>6. (k - 1) + 1 \in T
  BY <1>4, <1>5
<1> QED
  BY <1>3, <1>6

\* The function FlattenSeq() is defined with: its values are the beginnings of the result.
IsFlat(f, s, n) == f = [i \in 1 .. n |-> IF i = 1 THEN s[i] ELSE f[i - 1] \o s[i]]

LEMMA FlatExists ==
  ASSUME NEW s
  PROVE  \A n \in Nat : \E f : IsFlat(f, s, n)
<1> DEFINE T == {n \in Nat : \E f : IsFlat(f, s, n)}
<1>1. 0 \in T
  <2> DEFINE g == [i \in 1 .. 0 |-> s]
  <2>1. IsFlat(g, s, 0)
    BY DEF IsFlat
  <2> QED
    BY <2>1
<1>2. ASSUME NEW n \in Nat, n \in T PROVE n + 1 \in T
  <2>1. PICK f : IsFlat(f, s, n)
    BY <1>2
  <2>2. f = [i \in 1 .. n |-> IF i = 1 THEN s[i] ELSE f[i - 1] \o s[i]]
    BY <2>1 DEF IsFlat
  <2> DEFINE g == [i \in 1 .. n + 1 |->
                     IF i = n + 1 THEN IF i = 1 THEN s[i] ELSE f[i - 1] \o s[i] ELSE f[i]]
             h == [i \in 1 .. n + 1 |-> IF i = 1 THEN s[i] ELSE g[i - 1] \o s[i]]
  <2>3. ASSUME NEW i \in 1 .. n + 1 PROVE g[i] = h[i]
    <3>1. CASE i = 1
      BY <2>2, <3>1
    <3>2. CASE i # 1
      <4>1. i - 1 \in 1 .. n + 1 /\ i - 1 # n + 1 /\ i - 1 \in 1 .. n
        BY <3>2
      <4>2. g[i - 1] = f[i - 1]
        BY <4>1
      <4>3. h[i] = f[i - 1] \o s[i]
        BY <3>2, <4>2
      <4>4. g[i] = f[i - 1] \o s[i]
        <5>1. CASE i = n + 1
          BY <3>2, <5>1
        <5>2. CASE i # n + 1
          <6>1. i \in 1 .. n
            BY <5>2
          <6> QED
            BY <2>2, <3>2, <5>2, <6>1
        <5> QED
          BY <5>1, <5>2
      <4> QED
        BY <4>3, <4>4
    <3> QED
      BY <3>1, <3>2
  <2>4. g = h
    BY <2>3
  <2>5. IsFlat(g, s, n + 1)
    BY <2>4 DEF IsFlat
  <2> QED
    BY <2>5
<1> HIDE DEF T
<1>3. \A n \in Nat : n \in T
  BY <1>1, <1>2, SetInduction
<1> QED
  BY <1>3 DEF T

LEMMA FlatUnique ==
  \A n, m \in Nat : \A s, t, f, g :
    n <= m /\ (\A i \in 1 .. n : s[i] = t[i]) /\ IsFlat(f, s, n) /\ IsFlat(g, t, m)
      => \A i \in 1 .. n : f[i] = g[i]
<1> SUFFICES ASSUME NEW n \in Nat, NEW m \in Nat, NEW s, NEW t, NEW f, NEW g,
                    n <= m, \A i \in 1 .. n : s[i] = t[i], IsFlat(f, s, n), IsFlat(g, t, m)
             PROVE  \A i \in 1 .. n : f[i] = g[i]
  OBVIOUS
<1> DEFINE T == {k \in Nat : k \in 1 .. n => f[k] = g[k]}
<1>1. \A i \in 1 .. n : f[i] = (IF i = 1 THEN s[i] ELSE f[i - 1] \o s[i])
  BY DEF IsFlat
<1>2. \A i \in 1 .. m : g[i] = (IF i = 1 THEN t[i] ELSE g[i - 1] \o t[i])
  BY DEF IsFlat
<1>3. 0 \in T
  OBVIOUS
<1>4. ASSUME NEW k \in Nat, k \in T PROVE k + 1 \in T
  <2> SUFFICES ASSUME k + 1 \in 1 .. n PROVE f[k + 1] = g[k + 1]
    OBVIOUS
  <2>1. k + 1 \in 1 .. m /\ s[k + 1] = t[k + 1]
    OBVIOUS
  <2>2. CASE k = 0
    <3>1. 1 \in 1 .. n /\ 1 \in 1 .. m /\ s[1] = t[1]
      BY <2>1, <2>2
    <3>2. f[1] = s[1] /\ g[1] = t[1]
      BY <1>1, <1>2, <3>1
    <3> QED
      BY <2>2, <3>1, <3>2
  <2>3. CASE k # 0
    <3>1. k \in 1 .. n /\ k + 1 # 1 /\ (k + 1) - 1 = k
      BY <2>3
    <3>2. f[k] = g[k]
      BY <1>4, <3>1
    <3>3. f[k + 1] = f[k] \o s[k + 1] /\ g[k + 1] = g[k] \o t[k + 1]
      BY <1>1, <1>2, <2>1, <3>1
    <3> QED
      BY <2>1, <3>2, <3>3
  <2> QED
    BY <2>2, <2>3
<1> HIDE DEF T
<1>5. \A k \in Nat : k \in T
  BY <1>3, <1>4, SetInduction
<1> QED
  BY <1>5 DEF T

LEMMA FlatOf ==
  ASSUME NEW s, Len(s) \in Nat
  PROVE  /\ Len(s) = 0 => FlattenSeq(s) = s
         /\ Len(s) # 0 => \E f : IsFlat(f, s, Len(s)) /\ FlattenSeq(s) = f[Len(s)]
<1> DEFINE f == CHOOSE h : IsFlat(h, s, Len(s))
<1>1. IsFlat(f, s, Len(s))
  BY FlatExists
<1>2. f = CHOOSE h : h = [i \in 1 .. Len(s) |-> IF i = 1 THEN s[i] ELSE h[i - 1] \o s[i]]
  BY DEF IsFlat
<1> HIDE DEF f
<1>3. Len(s) # 0 => FlattenSeq(s) = f[Len(s)]
  BY <1>2, Zenon DEF FlattenSeq
<1>4. Len(s) = 0 => FlattenSeq(s) = s
  BY DEF FlattenSeq
<1> QED
  BY <1>1, <1>3, <1>4

\* What FlattenSeq() returns, by the last of the sequences.
LEMMA FlattenAppend ==
  ASSUME NEW S, NEW s \in Seq(Seq(S)), NEW d \in Seq(S)
  PROVE  /\ FlattenSeq(<<>>) = <<>>
         /\ FlattenSeq(Append(s, d)) = FlattenSeq(s) \o d
<1> DEFINE t == Append(s, d)
           n == Len(s)
<1>1. /\ n \in Nat /\ Len(t) = n + 1 /\ t[n + 1] = d /\ \A i \in 1 .. n : s[i] = t[i]
      /\ Len(s) = n
  OBVIOUS
<1>2. FlattenSeq(<<>>) = <<>>
  BY FlatOf
<1> HIDE DEF t, n
<1>3. PICK g : IsFlat(g, t, n + 1) /\ FlattenSeq(t) = g[n + 1]
  BY <1>1, FlatOf
<1>4. g[n + 1] = IF n + 1 = 1 THEN t[n + 1] ELSE g[(n + 1) - 1] \o t[n + 1]
  <2>1. n + 1 \in 1 .. n + 1
    BY <1>1
  <2> DEFINE next(i) == IF i = 1 THEN t[i] ELSE g[i - 1] \o t[i]
  <2>2. g = [i \in 1 .. n + 1 |-> next(i)]
    BY <1>3 DEF IsFlat
  <2>3. g[n + 1] = next(n + 1)
    <3> HIDE DEF next
    <3> QED
      BY <2>1, <2>2
  <2> QED
    BY <2>3
<1>5. CASE n = 0
  <2>1. s = <<>> /\ FlattenSeq(t) = d
    BY <1>1, <1>3, <1>4, <1>5
  <2>2. <<>> \o d = d
    OBVIOUS
  <2> QED
    BY <1>2, <2>1, <2>2 DEF t
<1>6. CASE n # 0
  <2>1. PICK f : IsFlat(f, s, n) /\ FlattenSeq(s) = f[n]
    BY <1>1, <1>6, FlatOf
  <2>2. n \in 1 .. n /\ n + 1 \in Nat /\ n <= n + 1
    BY <1>1, <1>6
  <2>3. f[n] = g[n]
    <3> DEFINE m == n + 1
    <3>2. /\ n \in Nat /\ m \in Nat /\ n <= m /\ IsFlat(f, s, n) /\ IsFlat(g, t, m)
          /\ \A i \in 1 .. n : s[i] = t[i]
      BY <1>1, <1>3, <2>1, <2>2
    <3> HIDE DEF m
    <3>1. \A i \in 1 .. n : f[i] = g[i]
      BY <3>2, FlatUnique
    <3> QED
      BY <2>2, <3>1
  <2>4. (n + 1) - 1 = n
    BY <1>1
  <2>5. n + 1 # 1
    BY <1>1, <1>6
  <2>6. FlattenSeq(t) = FlattenSeq(s) \o d
    BY <1>1, <1>3, <1>4, <2>1, <2>3, <2>4, <2>5
  <2> QED
    BY <1>2, <2>6 DEF t
<1> QED
  BY <1>2, <1>5, <1>6
=============================================================================
