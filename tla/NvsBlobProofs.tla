----------------------------- MODULE NvsBlobProofs -----------------------------
(***************************************************************************)
(* Proofs about NvsBlob, for every value of the constants: any number of   *)
(* pages, entries, keys, blobs and power failures.                         *)
(***************************************************************************)
EXTENDS NvsBlobProperties, NvsSequenceProofs

-----------------------------------------------------------------------------
(* The members of a finite set of numbers in order. *)

\* A member of a finite set has a rank, and a larger member a larger one.
LEMMA RankProperty ==
  ASSUME NEW S \in SUBSET Int, IsFiniteSet(S)
  PROVE  /\ Cardinality(S) \in Nat
         /\ \A n \in S : Rank(S, n) \in 1 .. Cardinality(S)
         /\ \A m, n \in S : m < n => Rank(S, m) < Rank(S, n)
<1> DEFINE upTo(n) == {m \in S : m <= n}
<1>1. Cardinality(S) \in Nat
  BY FS_CardinalityType
<1>2. \A n : IsFiniteSet(upTo(n)) /\ Cardinality(upTo(n)) \in Nat
             /\ Cardinality(upTo(n)) <= Cardinality(S)
  <2> TAKE n
  <2>1. upTo(n) \in SUBSET S
    OBVIOUS
  <2> HIDE DEF upTo
  <2> QED
    BY <2>1, FS_Subset, FS_CardinalityType
<1>3. \A n \in S : Rank(S, n) \in 1 .. Cardinality(S)
  <2> TAKE n \in S
  <2>1. n \in upTo(n)
    OBVIOUS
  <2>2. Cardinality(upTo(n)) # 0
    <3> HIDE DEF upTo
    <3> QED
      BY <1>2, <2>1, FS_EmptySet
  <2> QED
    BY <1>1, <1>2, <2>2 DEF Rank
<1>4. ASSUME NEW m \in S, NEW n \in S, m < n
      PROVE  Rank(S, m) < Rank(S, n)
  <2>1. upTo(m) \in SUBSET upTo(n) /\ n \in upTo(n) /\ n \notin upTo(m)
    <3>1. \A x \in Int : x <= m => x <= n
      BY <1>4
    <3>2. n <= n /\ ~ (n <= m)
      BY <1>4
    <3> QED
      BY <3>1, <3>2
  <2>2. Cardinality(upTo(m)) <= Cardinality(upTo(n))
        /\ Cardinality(upTo(m)) # Cardinality(upTo(n))
    <3> HIDE DEF upTo
    <3> QED
      BY <1>2, <2>1, FS_Subset
  <2> QED
    BY <1>2, <2>2 DEF Rank
<1> QED
  BY <1>1, <1>3, <1>4

\* Ranks are distinct, and every number up to that of the members is one.
LEMMA RankOnto ==
  ASSUME NEW S \in SUBSET Int, IsFiniteSet(S)
  PROVE  /\ \A m, n \in S : Rank(S, m) = Rank(S, n) => m = n
         /\ \A r \in 1 .. Cardinality(S) : \E n \in S : Rank(S, n) = r
<1> DEFINE f == [n \in S |-> Rank(S, n)]
           T == 1 .. Cardinality(S)
<1>1. \A m, n \in S : Rank(S, m) = Rank(S, n) => m = n
  <2> TAKE m, n \in S
  <2>1. m < n \/ n < m \/ m = n
    OBVIOUS
  <2> QED
    BY <2>1, RankProperty
<1>2. Cardinality(S) \in Nat
  BY RankProperty
<1>3. f \in Injection(S, T)
  <2>1. f \in [S -> T] /\ IsInjective(f)
    BY <1>1, RankProperty DEF IsInjective
  <2> HIDE DEF f
  <2> QED
    BY <2>1 DEF Injection
<1>4. IsFiniteSet(T) /\ Cardinality(T) = Cardinality(S)
  BY <1>2, FS_Interval
<1> HIDE DEF f, T
<1>5. f \in Surjection(S, T)
  BY <1>3, <1>4, FS_Injection
<1>6. \A r \in T : \E n \in S : f[n] = r
  BY <1>5 DEF Surjection
<1> QED
  BY <1>1, <1>6 DEF f, T

\* Ascending(S) is the members of S in ascending order.
LEMMA AscendingProperty ==
  ASSUME NEW S \in SUBSET Int, IsFiniteSet(S)
  PROVE  /\ Ascending(S) \in Seq(S) /\ Len(Ascending(S)) = Cardinality(S)
         /\ \A r \in 1 .. Cardinality(S) :
              Ascending(S)[r] \in S /\ Rank(S, Ascending(S)[r]) = r
         /\ \A n \in S : Ascending(S)[Rank(S, n)] = n
         /\ IsInjective(Ascending(S)) /\ Range(Ascending(S)) = S
<1> DEFINE a == Ascending(S)
<1>1. Cardinality(S) \in Nat
  BY RankProperty
<1>2. \A r \in 1 .. Cardinality(S) : a[r] \in S /\ Rank(S, a[r]) = r
  BY RankOnto DEF Ascending
<1>3. a = [r \in 1 .. Cardinality(S) |-> a[r]]
  BY DEF Ascending
<1> HIDE DEF a
<1>4. a \in Seq(S) /\ Len(a) = Cardinality(S) /\ DOMAIN a = 1 .. Cardinality(S)
  BY <1>1, <1>2, <1>3
<1>5. \A n \in S : a[Rank(S, n)] = n
  <2> TAKE n \in S
  <2>1. Rank(S, n) \in 1 .. Cardinality(S)
    BY RankProperty
  <2>2. a[Rank(S, n)] \in S /\ Rank(S, a[Rank(S, n)]) = Rank(S, n)
    BY <1>2, <2>1
  <2>3. \A m \in S : Rank(S, m) = Rank(S, n) => m = n
    BY RankOnto
  <2> QED
    BY <2>2, <2>3
<1>6. IsInjective(a)
  BY <1>2, <1>4 DEF IsInjective
<1>7. Range(a) = S
  <2>1. \A n \in S : Rank(S, n) \in DOMAIN a
    BY <1>4, RankProperty
  <2> QED
    BY <1>2, <1>4, <1>5, <2>1 DEF Range
<1> QED
  BY <1>2, <1>4, <1>5, <1>6, <1>7 DEF a

\* The ranks of a run of members are a run.
LEMMA RankRun ==
  ASSUME NEW S \in SUBSET Int, IsFiniteSet(S), NEW h \in Int, NEW i \in Int, h <= i,
         \A n \in h .. i : n \in S
  PROVE  Rank(S, i) = Rank(S, h) + (i - h)
<1> DEFINE A == {m \in S : m <= h}
           B == h + 1 .. i
<1>1. A \in SUBSET S /\ {m \in S : m <= i} = A \cup B /\ A \cap B = {}
  <2>1. \A m \in Int : m <= i <=> m <= h \/ m \in h + 1 .. i
    OBVIOUS
  <2>2. \A m \in h + 1 .. i : m \in S /\ m \in Int /\ ~ (m <= h)
    OBVIOUS
  <2> QED
    BY <2>1, <2>2
<1>2. IsFiniteSet(B) /\ Cardinality(B) = i - h
  <2>1. h + 1 \in Int /\ (IF h + 1 > i THEN 0 ELSE i - (h + 1) + 1) = i - h
    OBVIOUS
  <2> QED
    BY <2>1, FS_Interval
<1>3. Rank(S, h) = Cardinality(A) /\ Rank(S, i) = Cardinality(A \cup B)
  BY <1>1 DEF Rank
<1> HIDE DEF A, B
<1>4. IsFiniteSet(A) /\ Cardinality(A) \in Nat
  BY <1>1, FS_Subset, FS_CardinalityType
<1>5. Cardinality(A \cup B) = Cardinality(A) + Cardinality(B) - Cardinality(A \cap B)
  BY <1>2, <1>4, FS_Union
<1>6. Cardinality(A \cap B) = 0
  BY <1>1, FS_EmptySet
<1> QED
  BY <1>2, <1>3, <1>4, <1>5, <1>6

-----------------------------------------------------------------------------
(* The entries of a page. *)

ItemsIn(e) == {i \in Index : e[i] \notin {EMPTY, ERASED, BODY}}

Whole(e) ==
  /\ \A i \in ItemsIn(e) : \A j \in i + 1 .. i + Span(e[i]) - 1 : j \in Index /\ e[j] = BODY
  /\ \A j \in Index : e[j] = BODY =>
       \E i \in ItemsIn(e) : i < j /\ j < i + Span(e[i])

\* After an entry that was never written there is no other.
NoGap(e) == \A i, j \in Index : i < j /\ e[i] = EMPTY => e[j] = EMPTY

PageInv(e) == e \in [Index -> Item \cup {EMPTY, ERASED, BODY}] /\ Whole(e) /\ NoGap(e)

FirstEmpty(e) == Min({i \in Index : e[i] = EMPTY} \cup {ENTRY_COUNT})

\* An item has a kind and a key, and takes at least one entry.
LEMMA ItemProperty ==
  ASSUME NEW x \in Item
  PROVE  /\ x \notin {EMPTY, ERASED, BODY}
         /\ x.kind \in {"BLOB_IDX", "BLOB_DATA", "BLOB"} /\ x.key \in Key /\ x.chunk \in Nat
         /\ x.kind # "BLOB_DATA" => x.chunk = CHUNK_ANY
         /\ x.kind = "BLOB_IDX" => /\ x.chunkStart \in {VER_0_OFFSET, VER_1_OFFSET}
                                   /\ x.chunkCount \in Nat
         /\ x.kind # "BLOB_IDX" => x.data \in Seq(Datum)
         /\ Span(x) \in Nat /\ Span(x) >= 1
<1>1. x \notin {EMPTY, ERASED, BODY}
  BY EntryAssumption
<1>2. CASE x \in [kind : {"BLOB_IDX"}, key : Key, chunk : {CHUNK_ANY},
                  chunkStart : {VER_0_OFFSET, VER_1_OFFSET}, chunkCount : Nat, dataSize : Nat]
  BY <1>1, <1>2 DEF Span, CHUNK_ANY
<1>3. CASE x \in [kind : {"BLOB_DATA"}, key : Key, chunk : Nat, data : Seq(Datum)]
  <2>1. x.data \in Seq(Datum) /\ Len(x.data) \in Nat
    BY <1>3
  <2> QED
    BY <1>1, <1>3, <2>1 DEF Span
<1>4. CASE x \in [kind : {"BLOB"}, key : Key, chunk : {CHUNK_ANY}, data : Blob]
  <2>1. x.data \in Seq(Datum) /\ Len(x.data) \in Nat
    BY <1>4, BlobAssumption
  <2> QED
    BY <1>1, <1>4, <2>1 DEF Span, CHUNK_ANY
<1> QED
  BY <1>2, <1>3, <1>4 DEF Item

\* The index entries, and what the entries of a page hold.
LEMMA EntryProperty ==
  ASSUME NEW e, PageInv(e)
  PROVE  /\ Index \in SUBSET Nat /\ IsFiniteSet(Index) /\ \A i \in Index : i < ENTRY_COUNT
         /\ \A i \in ItemsIn(e) : /\ i \in Index /\ e[i] \in Item
                                  /\ Span(e[i]) \in Nat /\ Span(e[i]) >= 1
         /\ \A i \in Index : e[i] \in Item => i \in ItemsIn(e)
<1>1. Index \in SUBSET Nat /\ IsFiniteSet(Index) /\ \A i \in Index : i < ENTRY_COUNT
  BY EntryCountAssumption, FS_Interval DEF Index
<1>2. \A i \in ItemsIn(e) : i \in Index /\ e[i] \in Item
  BY DEF ItemsIn, PageInv
<1> QED
  BY <1>1, <1>2, ItemProperty, EntryAssumption DEF ItemsIn

\* An entry belongs to one item.
LEMMA OneOwner ==
  ASSUME NEW e, PageInv(e), NEW h \in ItemsIn(e), NEW i \in ItemsIn(e), NEW j \in Index,
         h <= j, j < h + Span(e[h]), i <= j, j < i + Span(e[i])
  PROVE  h = i
<1>1. h \in Nat /\ i \in Nat /\ j \in Nat /\ Span(e[h]) \in Nat /\ Span(e[i]) \in Nat
  BY EntryProperty
<1>2. ASSUME NEW m \in ItemsIn(e), NEW n \in ItemsIn(e), n <= j, j < m + Span(e[m]), m \in Nat,
             n \in Nat, Span(e[m]) \in Nat
      PROVE  ~ (m < n)
  <2> SUFFICES ASSUME m < n PROVE FALSE
    OBVIOUS
  <2>1. n \in m + 1 .. m + Span(e[m]) - 1
    BY <1>1, <1>2
  <2>2. e[n] = BODY
    BY <2>1 DEF PageInv, Whole
  <2> QED
    BY <2>2 DEF ItemsIn
<1>3. ~ (h < i) /\ ~ (i < h)
  BY <1>1, <1>2
<1> QED
  BY <1>1, <1>3

\* FirstEmpty is where writing goes on: nothing is beyond.
LEMMA FirstEmptyProperty ==
  ASSUME NEW e, PageInv(e)
  PROVE  /\ FirstEmpty(e) \in 0 .. ENTRY_COUNT
         /\ \A j \in Index : e[j] = EMPTY <=> j >= FirstEmpty(e)
<1> DEFINE S == {i \in Index : e[i] = EMPTY} \cup {ENTRY_COUNT}
           n == FirstEmpty(e)
<1>1. S \in SUBSET Nat /\ ENTRY_COUNT \in S /\ S # {}
  BY EntryProperty, EntryCountAssumption
<1>2. n = Min(S)
  BY DEF FirstEmpty
<1> HIDE DEF n, S
<1>3. n \in S /\ \A y \in S : n <= y
  BY <1>1, <1>2, MinProperty
<1>4. n \in 0 .. ENTRY_COUNT
  BY <1>1, <1>3, EntryCountAssumption
<1>5. \A j \in Index : e[j] = EMPTY => j >= n
  BY <1>3, <1>4, EntryProperty DEF S
<1>6. \A j \in Index : j >= n => e[j] = EMPTY
  <2> TAKE j \in Index
  <2> HAVE j >= n
  <2>1. n < ENTRY_COUNT
    BY <1>4, EntryProperty, EntryCountAssumption
  <2>2. n \in Index /\ e[n] = EMPTY
    BY <1>3, <2>1, EntryCountAssumption DEF S
  <2> QED
    BY <2>2, EntryProperty DEF PageInv, NoGap
<1> QED
  BY <1>4, <1>5, <1>6 DEF n

\* A blank page.
LEMMA BlankProperty ==
  ASSUME NEW e, e = [i \in Index |-> EMPTY]
  PROVE  PageInv(e) /\ ItemsIn(e) = {} /\ FirstEmpty(e) = 0
<1>1. ItemsIn(e) = {} /\ e \in [Index -> Item \cup {EMPTY, ERASED, BODY}]
  BY DEF ItemsIn
<1>2. PageInv(e)
  BY <1>1, EntryAssumption DEF PageInv, Whole, NoGap
<1>3. 0 \in Index /\ e[0] = EMPTY
  BY EntryCountAssumption DEF Index
<1>4. FirstEmpty(e) \in 0 .. ENTRY_COUNT /\ 0 >= FirstEmpty(e)
  BY <1>2, <1>3, FirstEmptyProperty
<1> QED
  BY <1>1, <1>2, <1>4

\* Erasing an item takes it away, whole, and nothing else.
LEMMA WithoutProperty ==
  ASSUME NEW e, PageInv(e), NEW i \in ItemsIn(e)
  PROVE  LET w == Without(e, i)
         IN  /\ PageInv(w) /\ ItemsIn(w) = ItemsIn(e) \ {i}
             /\ \A h \in ItemsIn(w) : w[h] = e[h]
             /\ \A j \in Index : w[j] = EMPTY <=> e[j] = EMPTY
<1> DEFINE w == Without(e, i)
           n == Span(e[i])
<1>1. i \in Nat /\ n \in Nat /\ n >= 1 /\ Index \in SUBSET Nat /\ i \in Index
  BY EntryProperty
<1>2. \A j \in Index : w[j] = IF i <= j /\ j < i + n THEN ERASED ELSE e[j]
  BY DEF Without
<1>3. w = [j \in Index |-> w[j]]
  BY DEF Without
<1> HIDE DEF w, n
<1>4. \A j \in Index : i <= j /\ j < i + n => j = i \/ e[j] = BODY
  <2> TAKE j \in Index
  <2> HAVE i <= j /\ j < i + n
  <2>1. j = i \/ j \in i + 1 .. i + n - 1
    BY <1>1
  <2> QED
    BY <2>1 DEF PageInv, Whole, n
<1>5. ItemsIn(w) = ItemsIn(e) \ {i}
  <2>1. \A j \in Index : j # i /\ e[j] \notin {EMPTY, ERASED, BODY} => w[j] = e[j]
    BY <1>2, <1>4
  <2>2. w[i] = ERASED
    BY <1>1, <1>2
  <2>3. \A j \in Index : w[j] = ERASED \/ w[j] = e[j]
    BY <1>2
  <2> QED
    BY <2>1, <2>2, <2>3 DEF ItemsIn
<1>6. \A h \in ItemsIn(w) : w[h] = e[h]
  BY <1>2 DEF ItemsIn
<1>7. \A j \in Index : w[j] = EMPTY <=> e[j] = EMPTY
  <2> TAKE j \in Index
  <2>1. e[i] # EMPTY
    BY DEF ItemsIn
  <2> QED
    BY <1>2, <1>4, <2>1, EntryAssumption
<1>8. w \in [Index -> Item \cup {EMPTY, ERASED, BODY}]
  <2>1. \A j \in Index : w[j] \in Item \cup {EMPTY, ERASED, BODY}
    BY <1>2 DEF PageInv
  <2> QED
    BY <1>3, <2>1
<1>9. Whole(w)
  <2>1. ASSUME NEW h \in ItemsIn(w), NEW j \in h + 1 .. h + Span(w[h]) - 1
        PROVE  j \in Index /\ w[j] = BODY
    <3>1. h \in ItemsIn(e) /\ h # i /\ w[h] = e[h]
      BY <1>5, <1>6
    <3>2. j \in Index /\ e[j] = BODY
      BY <3>1, <2>1 DEF PageInv, Whole
    <3>3. h \in Nat /\ j \in Nat /\ h <= j /\ j < h + Span(e[h])
      <4>1. j \in h + 1 .. h + Span(e[h]) - 1
        BY <3>1, <2>1
      <4>2. h \in Nat /\ Span(e[h]) \in Nat
        BY <3>1, EntryProperty
      <4> QED
        BY <4>1, <4>2
    <3>4. ~ (i <= j /\ j < i + n)
      BY <3>1, <3>2, <3>3, OneOwner DEF n
    <3> QED
      BY <1>2, <3>2, <3>4
  <2>2. ASSUME NEW j \in Index, w[j] = BODY
        PROVE  \E h \in ItemsIn(w) : h < j /\ j < h + Span(w[h])
    <3>1. ~ (i <= j /\ j < i + n) /\ e[j] = BODY
      BY <1>2, <2>2, EntryAssumption
    <3>2. PICK h \in ItemsIn(e) : h < j /\ j < h + Span(e[h])
      BY <3>1 DEF PageInv, Whole
    <3>3. h # i
      BY <1>1, <3>1, <3>2 DEF n
    <3>4. h \in ItemsIn(w) /\ w[h] = e[h]
      BY <1>5, <1>6, <3>3
    <3> QED
      BY <3>2, <3>4
  <2> QED
    BY <2>1, <2>2 DEF Whole
<1>10. NoGap(w)
  BY <1>7 DEF PageInv, NoGap
<1> QED
  BY <1>5, <1>6, <1>7, <1>8, <1>9, <1>10 DEF PageInv, w

\* Writing an item where there is room adds it, whole, after all others.
LEMMA WrittenProperty ==
  ASSUME NEW e, PageInv(e), NEW x \in Item, FirstEmpty(e) + Span(x) <= ENTRY_COUNT
  PROVE  LET w == Written(e, FirstEmpty(e), x)
             n == FirstEmpty(e)
         IN  /\ PageInv(w) /\ n \in Index /\ n \notin ItemsIn(e)
             /\ ItemsIn(w) = ItemsIn(e) \cup {n}
             /\ w[n] = x /\ \A h \in ItemsIn(e) : w[h] = e[h] /\ h < n
             /\ \A j \in Index : w[j] = EMPTY <=> j >= n + Span(x)
             /\ \A j \in Index : w[j] = ERASED => e[j] = ERASED
<1> DEFINE n == FirstEmpty(e)
           w == Written(e, n, x)
           s == Span(x)
<1>1. /\ n \in Nat /\ s \in Nat /\ s >= 1 /\ n + s <= ENTRY_COUNT
      /\ \A j \in Index : e[j] = EMPTY <=> j >= n
  BY FirstEmptyProperty, ItemProperty, EntryCountAssumption
<1>2. n \in Index /\ Index \in SUBSET Nat /\ \A j \in Index : j < ENTRY_COUNT
  BY <1>1, EntryProperty, EntryCountAssumption DEF Index
<1>3. \A j \in Index : w[j] = IF j = n THEN x ELSE IF n < j /\ j < n + s THEN BODY ELSE e[j]
  BY DEF Written
<1>4. w = [j \in Index |-> w[j]]
  BY DEF Written
<1> HIDE DEF w, n, s
<1>5. \A h \in ItemsIn(e) : h \in Index /\ h < n /\ w[h] = e[h]
  <2> TAKE h \in ItemsIn(e)
  <2>1. h \in Index /\ e[h] # EMPTY
    BY DEF ItemsIn
  <2>2. h < n
    BY <1>1, <1>2, <2>1
  <2> QED
    BY <1>2, <1>3, <2>1, <2>2
<1>6. w[n] = x /\ x \notin {EMPTY, ERASED, BODY}
  BY <1>2, <1>3, ItemProperty
<1>7. \A j \in Index : j < n => w[j] = e[j]
  BY <1>1, <1>2, <1>3
<1>8. \A j \in Index : j > n /\ j < n + s => w[j] = BODY
  BY <1>1, <1>2, <1>3
<1>9. \A j \in Index : j >= n + s => w[j] = EMPTY
  BY <1>1, <1>2, <1>3
<1>10. ItemsIn(w) = ItemsIn(e) \cup {n}
  <2>1. \A j \in ItemsIn(w) : j \in ItemsIn(e) \cup {n}
    <3> TAKE j \in ItemsIn(w)
    <3>1. j \in Index /\ w[j] \notin {EMPTY, ERASED, BODY}
      BY DEF ItemsIn
    <3>2. j < n \/ j = n
      BY <1>1, <1>2, <1>8, <1>9, <3>1
    <3> QED
      BY <1>7, <3>1, <3>2 DEF ItemsIn
  <2>2. n \in ItemsIn(w)
    BY <1>2, <1>6 DEF ItemsIn
  <2>3. \A h \in ItemsIn(e) : h \in ItemsIn(w)
    BY <1>5 DEF ItemsIn
  <2> QED
    BY <2>1, <2>2, <2>3
<1>11. \A j \in Index : w[j] = EMPTY <=> j >= n + s
  <2> TAKE j \in Index
  <2>1. j < n \/ j = n \/ (j > n /\ j < n + s) \/ j >= n + s
    BY <1>1, <1>2
  <2>2. j < n => w[j] # EMPTY
    BY <1>1, <1>2, <1>7
  <2> QED
    BY <1>1, <1>2, <1>6, <1>8, <1>9, <2>1, <2>2, EntryAssumption
<1>12. w \in [Index -> Item \cup {EMPTY, ERASED, BODY}]
  <2>1. \A j \in Index : w[j] \in Item \cup {EMPTY, ERASED, BODY}
    BY <1>3 DEF PageInv
  <2> QED
    BY <1>4, <2>1
<1>13. Whole(w)
  <2>1. ASSUME NEW h \in ItemsIn(w), NEW j \in h + 1 .. h + Span(w[h]) - 1
        PROVE  j \in Index /\ w[j] = BODY
    <3>1. CASE h = n
      <4>1. j \in Nat /\ j > n /\ j < n + s
        BY <1>1, <1>6, <2>1, <3>1 DEF s
      <4>2. j \in Index
        BY <1>1, <4>1, EntryCountAssumption DEF Index
      <4> QED
        BY <1>8, <4>1, <4>2
    <3>2. CASE h \in ItemsIn(e)
      <4>1. j \in Index /\ e[j] = BODY
        BY <1>5, <2>1, <3>2 DEF PageInv, Whole
      <4>2. j < n
        BY <1>1, <1>2, <4>1, EntryAssumption
      <4> QED
        BY <1>7, <4>1, <4>2
    <3> QED
      BY <1>10, <3>1, <3>2
  <2>2. ASSUME NEW j \in Index, w[j] = BODY
        PROVE  \E h \in ItemsIn(w) : h < j /\ j < h + Span(w[h])
    <3>1. CASE j < n
      <4>1. PICK h \in ItemsIn(e) : h < j /\ j < h + Span(e[h])
        BY <1>7, <2>2, <3>1 DEF PageInv, Whole
      <4> QED
        BY <1>5, <1>10, <4>1
    <3>2. CASE j > n
      <4>1. j < n + s
        BY <1>1, <1>2, <1>9, <2>2, EntryAssumption
      <4> QED
        BY <1>6, <1>10, <3>2, <4>1 DEF s
    <3>3. j # n
      BY <1>6, <2>2
    <3> QED
      BY <1>1, <1>2, <3>1, <3>2, <3>3
  <2> QED
    BY <2>1, <2>2 DEF Whole
<1>14. NoGap(w)
  BY <1>1, <1>2, <1>11 DEF NoGap
<1>15. \A j \in Index : w[j] = ERASED => e[j] = ERASED
  BY <1>3, EntryAssumption, ItemProperty
<1>16. n \notin ItemsIn(e)
  BY <1>1, <1>2, <1>5
<1> QED
  BY <1>2, <1>5, <1>6, <1>10, <1>11, <1>12, <1>13, <1>14, <1>15, <1>16 DEF PageInv, w, n, s

-----------------------------------------------------------------------------
(* copyItems(): the entries in use move together. *)

UsedEntries(e) == {i \in Index : e[i] \notin {EMPTY, ERASED}}

\* Where the entry i of a page goes, and the page without gaps.
NewPlace(e, i) == Rank(UsedEntries(e), i) - 1

Compact(e) ==
  [j \in Index |->
     IF j < Cardinality(UsedEntries(e)) THEN e[Ascending(UsedEntries(e))[j + 1]] ELSE EMPTY]

\* A page without gaps holds the same entries in the same order.
LEMMA CompactEntries ==
  ASSUME NEW e, PageInv(e)
  PROVE  /\ UsedEntries(e) \in SUBSET Index /\ IsFiniteSet(UsedEntries(e))
         /\ Cardinality(UsedEntries(e)) \in 0 .. ENTRY_COUNT
         /\ \A i \in UsedEntries(e) :
              /\ NewPlace(e, i) \in Index /\ NewPlace(e, i) < Cardinality(UsedEntries(e))
              /\ Compact(e)[NewPlace(e, i)] = e[i]
         /\ \A i, j \in UsedEntries(e) : i < j => NewPlace(e, i) < NewPlace(e, j)
         /\ \A j \in Index : j < Cardinality(UsedEntries(e)) =>
              \E i \in UsedEntries(e) : NewPlace(e, i) = j
         /\ \A j \in Index : j >= Cardinality(UsedEntries(e)) => Compact(e)[j] = EMPTY
<1> DEFINE U == UsedEntries(e)
           c == Cardinality(U)
           a == Ascending(U)
<1>1. U \in SUBSET Index /\ Index \in SUBSET Nat /\ IsFiniteSet(Index)
  BY EntryProperty DEF UsedEntries
<1>2. Cardinality(Index) = ENTRY_COUNT
  <2>1. 0 \in Int /\ ENTRY_COUNT - 1 \in Int
        /\ (IF 0 > ENTRY_COUNT - 1 THEN 0 ELSE ENTRY_COUNT - 1 - 0 + 1) = ENTRY_COUNT
    BY EntryCountAssumption
  <2> QED
    BY <2>1, FS_Interval DEF Index
<1> HIDE DEF U
<1>3. IsFiniteSet(U) /\ c \in Nat /\ c <= ENTRY_COUNT
  BY <1>1, <1>2, FS_Subset, FS_CardinalityType
<1>4. U \in SUBSET Int
  BY <1>1
<1>5. \A i \in U : Rank(U, i) \in 1 .. c
  BY <1>3, <1>4, RankProperty
<1>6. \A i \in U : a[Rank(U, i)] = i
  BY <1>3, <1>4, AscendingProperty
<1>7. \A i, j \in U : i < j => Rank(U, i) < Rank(U, j)
  BY <1>3, <1>4, RankProperty
<1>8. \A r \in 1 .. c : \E n \in U : Rank(U, n) = r
  BY <1>3, <1>4, RankOnto
<1>9. \A j \in Index : Compact(e)[j] = IF j < c THEN e[a[j + 1]] ELSE EMPTY
  BY DEF Compact, U
<1>10. \A i \in U : NewPlace(e, i) = Rank(U, i) - 1
  BY DEF NewPlace, U
<1> HIDE DEF a, c
<1>11. ASSUME NEW i \in U
       PROVE  /\ NewPlace(e, i) \in Index /\ NewPlace(e, i) < c
              /\ Compact(e)[NewPlace(e, i)] = e[i]
  <2>1. Rank(U, i) \in Nat /\ Rank(U, i) >= 1 /\ Rank(U, i) <= c
    BY <1>3, <1>5
  <2>2. NewPlace(e, i) \in Index /\ NewPlace(e, i) < c /\ NewPlace(e, i) + 1 = Rank(U, i)
    BY <1>3, <1>10, <2>1, EntryCountAssumption DEF Index
  <2> QED
    BY <1>6, <1>9, <2>2
<1>12. ASSUME NEW i \in U, NEW j \in U, i < j
       PROVE  NewPlace(e, i) < NewPlace(e, j)
  BY <1>3, <1>5, <1>7, <1>10, <1>12
<1>13. ASSUME NEW j \in Index, j < c
       PROVE  \E i \in U : NewPlace(e, i) = j
  <2>1. j + 1 \in 1 .. c
    BY <1>1, <1>3, <1>13
  <2>2. PICK i \in U : Rank(U, i) = j + 1
    BY <1>8, <2>1
  <2>3. NewPlace(e, i) = j
    BY <1>1, <1>10, <2>2
  <2> QED
    BY <2>3
<1>14. \A j \in Index : j >= c => Compact(e)[j] = EMPTY
  BY <1>1, <1>3, <1>9
<1>15. c \in 0 .. ENTRY_COUNT
  BY <1>3, EntryCountAssumption
<1> QED
  BY <1>1, <1>3, <1>11, <1>12, <1>13, <1>14, <1>15 DEF U, c

\* It holds the same items, each whole, in the same order, and nothing was erased.
LEMMA CompactProperty ==
  ASSUME NEW e, PageInv(e)
  PROVE  /\ PageInv(Compact(e))
         /\ \A i \in ItemsIn(e) : /\ NewPlace(e, i) \in ItemsIn(Compact(e))
                                  /\ Compact(e)[NewPlace(e, i)] = e[i]
         /\ \A h \in ItemsIn(Compact(e)) : \E i \in ItemsIn(e) : NewPlace(e, i) = h
         /\ \A i, j \in ItemsIn(e) : i < j => NewPlace(e, i) < NewPlace(e, j)
         /\ \A j \in Index : Compact(e)[j] # ERASED
         /\ FirstEmpty(Compact(e)) = Cardinality(UsedEntries(e))
<1> DEFINE U == UsedEntries(e)
           c == Cardinality(U)
           w == Compact(e)
           new(i) == NewPlace(e, i)
<1>1. /\ U \in SUBSET Index /\ c \in 0 .. ENTRY_COUNT /\ IsFiniteSet(U)
      /\ \A i \in U : new(i) \in Index /\ new(i) < c /\ w[new(i)] = e[i]
      /\ \A i, j \in U : i < j => new(i) < new(j)
      /\ \A j \in Index : j < c => \E i \in U : new(i) = j
      /\ \A j \in Index : j >= c => w[j] = EMPTY
  BY CompactEntries
<1>2. /\ \A i \in Index : i \in U <=> e[i] \notin {EMPTY, ERASED}
      /\ ItemsIn(e) \in SUBSET U /\ \A i \in U : i \in ItemsIn(e) <=> e[i] # BODY
  BY <1>1, EntryAssumption DEF UsedEntries, ItemsIn
<1>3. \A h, i \in Int : (\A n \in h .. i : n \in U) /\ h <= i => new(i) = new(h) + (i - h)
  <2> SUFFICES ASSUME NEW h \in Int, NEW i \in Int, \A n \in h .. i : n \in U, h <= i
               PROVE  new(i) = new(h) + (i - h)
    OBVIOUS
  <2>1. U \in SUBSET Int
    BY <1>1, EntryProperty
  <2>2. Rank(U, i) = Rank(U, h) + (i - h)
    <3> HIDE DEF U
    <3> QED
      BY <1>1, <2>1, RankRun
  <2>3. Rank(U, h) \in Int
    <3>1. h \in U
      OBVIOUS
    <3> HIDE DEF U
    <3>2. Rank(U, h) \in 1 .. Cardinality(U) /\ Cardinality(U) \in Nat
      BY <1>1, <2>1, <3>1, RankProperty
    <3> QED
      BY <3>2
  <2>4. new(i) = Rank(U, i) - 1 /\ new(h) = Rank(U, h) - 1
    BY DEF NewPlace
  <2> HIDE DEF new
  <2> QED
    BY <2>2, <2>3, <2>4
<1>4. w = [j \in Index |-> w[j]]
  BY DEF Compact
<1>5. Index \in SUBSET Nat /\ \A j \in Index : j < ENTRY_COUNT
  BY EntryProperty
<1> HIDE DEF U, c, w, new
<1>6. \A i \in U : e[i] \notin {EMPTY, ERASED} /\ e[i] \in Item \cup {BODY}
  BY <1>1, <1>2 DEF PageInv
<1>7. \A j \in Index : j < c => w[j] \in Item \cup {BODY}
  <2> TAKE j \in Index
  <2> HAVE j < c
  <2>1. PICK i \in U : new(i) = j
    BY <1>1
  <2>2. w[j] = e[i]
    BY <1>1, <2>1
  <2> QED
    BY <1>6, <2>2
<1>8. w \in [Index -> Item \cup {EMPTY, ERASED, BODY}]
  <2>1. \A j \in Index : w[j] \in Item \cup {EMPTY, ERASED, BODY}
    BY <1>1, <1>5, <1>7
  <2> QED
    BY <1>4, <2>1
<1>9. \A j \in Index : w[j] # ERASED /\ (w[j] = EMPTY <=> j >= c)
  <2> TAKE j \in Index
  <2>1. j < c \/ j >= c
    BY <1>1, <1>5
  <2>2. j < c => ~ (j >= c)
    BY <1>1, <1>5
  <2> QED
    BY <1>1, <1>7, <2>1, <2>2, EntryAssumption
<1>10. \A i \in ItemsIn(e) : new(i) \in ItemsIn(w) /\ w[new(i)] = e[i]
  <2> TAKE i \in ItemsIn(e)
  <2>1. i \in U /\ e[i] \notin {EMPTY, ERASED, BODY}
    BY <1>2 DEF ItemsIn
  <2> QED
    BY <1>1, <2>1 DEF ItemsIn
<1>11. \A h \in ItemsIn(w) : \E i \in ItemsIn(e) : new(i) = h
  <2> TAKE h \in ItemsIn(w)
  <2>1. h \in Index /\ w[h] \notin {EMPTY, ERASED, BODY}
    BY DEF ItemsIn
  <2>2. h < c
    <3>1. ~ (h >= c)
      BY <1>9, <2>1
    <3>2. h \in Nat /\ c \in Nat
      BY <1>1, <1>5, <2>1
    <3> QED
      BY <3>1, <3>2
  <2>3. PICK i \in U : new(i) = h
    BY <1>1, <2>1, <2>2
  <2>4. i \in ItemsIn(e)
    BY <1>1, <1>2, <2>1, <2>3
  <2> QED
    BY <2>3, <2>4
<1>12. \A i, j \in ItemsIn(e) : i < j => new(i) < new(j)
  BY <1>1, <1>2
<1>13. ASSUME NEW i \in ItemsIn(e), NEW j \in i .. i + Span(e[i]) - 1
       PROVE  new(j) = new(i) + (j - i) /\ j \in U /\ (j # i => e[j] = BODY)
  <2>1. i \in Nat /\ Span(e[i]) \in Nat /\ i \in U
    BY <1>2, EntryProperty
  <2>2. \A n \in i .. j : n \in U /\ (n # i => e[n] = BODY)
    <3> TAKE n \in i .. j
    <3>1. n = i \/ n \in i + 1 .. i + Span(e[i]) - 1
      BY <1>13, <2>1
    <3>2. n # i => n \in Index /\ e[n] = BODY
      BY <3>1 DEF PageInv, Whole
    <3> QED
      BY <1>2, <2>1, <3>1, <3>2, EntryAssumption
  <2>3. i \in Int /\ j \in Int /\ i <= j /\ j \in i .. j
    BY <1>13, <2>1
  <2> QED
    BY <1>3, <2>2, <2>3
<1>14. Whole(w)
  <2>1. ASSUME NEW h \in ItemsIn(w), NEW j \in h + 1 .. h + Span(w[h]) - 1
        PROVE  j \in Index /\ w[j] = BODY
    <3>1. PICK i \in ItemsIn(e) : new(i) = h
      BY <1>11
    <3>2. w[h] = e[i] /\ i \in Nat /\ Span(e[i]) \in Nat /\ h \in Nat
      <4>1. h \in Index
        BY DEF ItemsIn
      <4> QED
        BY <1>5, <1>10, <3>1, <4>1, EntryProperty
    <3> DEFINE n == i + (j - h)
    <3>3. j \in Nat /\ j > h /\ j <= h + Span(e[i]) - 1
      <4>1. j \in h + 1 .. h + Span(e[i]) - 1
        BY <2>1, <3>2
      <4> QED
        BY <3>2, <4>1
    <3>4. n \in i .. i + Span(e[i]) - 1 /\ n # i /\ n - i = j - h
      BY <3>2, <3>3
    <3> HIDE DEF n
    <3>5. new(n) = new(i) + (n - i) /\ n \in U /\ e[n] = BODY
      BY <1>13, <3>4
    <3>6. new(n) = j
      BY <3>1, <3>2, <3>3, <3>4, <3>5
    <3> QED
      BY <1>1, <3>5, <3>6
  <2>2. ASSUME NEW j \in Index, w[j] = BODY
        PROVE  \E h \in ItemsIn(w) : h < j /\ j < h + Span(w[h])
    <3>1. j < c
      BY <1>1, <1>5, <1>9, <2>2, EntryAssumption
    <3>2. PICK n \in U : new(n) = j
      BY <1>1, <3>1
    <3>3. n \in Index /\ n \in Nat /\ e[n] = BODY
      BY <1>1, <1>5, <2>2, <3>2
    <3>4. PICK i \in ItemsIn(e) : i < n /\ n < i + Span(e[i])
      BY <3>3 DEF PageInv, Whole
    <3>5. i \in Nat /\ Span(e[i]) \in Nat
      BY EntryProperty
    <3>6. n \in i .. i + Span(e[i]) - 1
      BY <3>3, <3>4, <3>5
    <3>7. new(n) = new(i) + (n - i)
      BY <1>13, <3>6
    <3>8. new(i) \in ItemsIn(w) /\ w[new(i)] = e[i] /\ new(i) \in Nat
      BY <1>5, <1>10 DEF ItemsIn
    <3>9. new(i) < j /\ j < new(i) + Span(w[new(i)])
      BY <3>2, <3>3, <3>4, <3>5, <3>7, <3>8
    <3> QED
      BY <3>8, <3>9
  <2> QED
    BY <2>1, <2>2 DEF Whole
<1>15. NoGap(w)
  BY <1>1, <1>5, <1>9 DEF NoGap
<1>16. PageInv(w)
  BY <1>8, <1>14, <1>15 DEF PageInv
<1>17. FirstEmpty(w) = c
  <2>1. FirstEmpty(w) \in 0 .. ENTRY_COUNT /\ \A j \in Index : w[j] = EMPTY <=> j >= FirstEmpty(w)
    BY <1>16, FirstEmptyProperty
  <2> DEFINE f == FirstEmpty(w)
  <2> HIDE DEF f
  <2>2. \A j \in Index : j >= f <=> j >= c
    BY <1>9, <2>1 DEF f
  <2>3. f \in 0 .. ENTRY_COUNT
    BY <2>1 DEF f
  <2>4. ~ (f < c) /\ ~ (c < f)
    <3>1. \A m \in 0 .. ENTRY_COUNT : m # ENTRY_COUNT => m \in Index /\ m \in Nat /\ m < ENTRY_COUNT
      BY EntryCountAssumption DEF Index
    <3> QED
      BY <1>1, <2>2, <2>3, <3>1, EntryCountAssumption
  <2> QED
    BY <1>1, <2>3, <2>4, EntryCountAssumption DEF f
<1> QED
  BY <1>9, <1>10, <1>11, <1>12, <1>16, <1>17 DEF U, c, w, new

-----------------------------------------------------------------------------
(* The pages.  Between them the two lists hold each sector once; a free    *)
(* page is blank, and one is always left.                                  *)

PagesInv ==
  /\ mPageList \in Seq(Sector) /\ mPageList # <<>> /\ IsInjective(mPageList)
  /\ mFreePageList \in Seq(Sector) /\ mFreePageList # <<>> /\ IsInjective(mFreePageList)
  /\ Range(mPageList) \cap Range(mFreePageList) = {}
  /\ Range(mPageList) \cup Range(mFreePageList) = Sector
  /\ mState \in [Sector -> {"UNINITIALIZED", "ACTIVE", "FULL"}]
  /\ \A p \in Range(mFreePageList) : mState[p] = "UNINITIALIZED"
  /\ entry \in [Sector -> [Index -> Item \cup {EMPTY, ERASED, BODY}]]
  /\ \A p \in Sector : PageInv(entry[p])
  /\ \A p \in Sector : mState[p] = "UNINITIALIZED" => entry[p] = BlankPage

\* The operators on a page, by its entries.
LEMMA OnPage ==
  ASSUME NEW p \in Sector
  PROVE  /\ Items(p) = ItemsIn(entry[p])
         /\ NextFree(p) = FirstEmpty(entry[p])
         /\ Used(p) = Cardinality(UsedEntries(entry[p]))
         /\ WholeItems(p) <=> Whole(entry[p])
<1>1. Items(p) = ItemsIn(entry[p])
  BY DEF Items, ItemsIn
<1> QED
  BY <1>1 DEF NextFree, FirstEmpty, Used, UsedEntries, WholeItems, Whole

\* copyItems() copies the entries in use without gaps.
LEMMA CopiedProperty ==
  ASSUME NEW p \in Sector, PageInv(entry[p])
  PROVE  Copied(p) = Compact(entry[p])
<1> DEFINE U == UsedEntries(entry[p])
           used == Ascending(U)
<1>1. Copied(p) = [j \in Index |-> IF j < Len(used) THEN entry[p][used[j + 1]] ELSE EMPTY]
  BY DEF Copied, UsedEntries
<1>2. U \in SUBSET Int /\ IsFiniteSet(U)
  BY CompactEntries, EntryProperty
<1>3. Len(used) = Cardinality(U)
  <2> HIDE DEF U
  <2> QED
    BY <1>2, AscendingProperty
<1> QED
  BY <1>1, <1>3 DEF Compact

\* The last page of the list is a page in use.
LEMMA BackProperty ==
  ASSUME PagesInv
  PROVE  /\ Back \in Sector /\ Back = mPageList[Len(mPageList)]
         /\ Back \in Range(mPageList) /\ Back \notin Range(mFreePageList)
         /\ Len(mPageList) \in Nat /\ Len(mPageList) >= 1 /\ DOMAIN mPageList = 1 .. Len(mPageList)
         /\ PageInv(entry[Back])
<1>1. Len(mPageList) \in Nat /\ Len(mPageList) >= 1 /\ DOMAIN mPageList = 1 .. Len(mPageList)
  BY DEF PagesInv
<1>2. Back = mPageList[Len(mPageList)] /\ Back \in Range(mPageList)
  BY <1>1 DEF Back, Last, Range
<1> QED
  BY <1>1, <1>2 DEF PagesInv

\* Erasing an item changes its page only, and leaves the page whole.
LEMMA EraseItemPages ==
  ASSUME PagesInv, NEW p \in Sector, NEW i \in Items(p), EraseItem(p, i)
  PROVE  /\ PagesInv'
         /\ entry' = [entry EXCEPT ![p] = Without(entry[p], i)]
         /\ \A q \in Sector : ItemsIn(entry'[q]) = ItemsIn(entry[q]) \ (IF q = p THEN {i} ELSE {})
         /\ \A q \in Sector : \A j \in ItemsIn(entry'[q]) : entry'[q][j] = entry[q][j]
<1>1. entry' = [entry EXCEPT ![p] = Without(entry[p], i)]
  BY DEF EraseItem
<1>2. PageInv(entry[p]) /\ i \in ItemsIn(entry[p])
  BY OnPage DEF PagesInv
<1> DEFINE w == Without(entry[p], i)
<1>3. /\ PageInv(w) /\ ItemsIn(w) = ItemsIn(entry[p]) \ {i}
      /\ \A h \in ItemsIn(w) : w[h] = entry[p][h]
  BY <1>2, WithoutProperty
<1> HIDE DEF w
<1>4. /\ entry'[p] = w /\ \A q \in Sector : q # p => entry'[q] = entry[q]
      /\ w \in [Index -> Item \cup {EMPTY, ERASED, BODY}]
      /\ entry' \in [Sector -> [Index -> Item \cup {EMPTY, ERASED, BODY}]]
  <2>1. w \in [Index -> Item \cup {EMPTY, ERASED, BODY}]
    BY <1>3 DEF PageInv
  <2> QED
    BY <1>1, <2>1 DEF PagesInv, w
<1>5. mState[p] # "UNINITIALIZED"
  <2> SUFFICES ASSUME mState[p] = "UNINITIALIZED" PROVE FALSE
    OBVIOUS
  <2>1. entry[p] = [j \in Index |-> EMPTY]
    BY DEF PagesInv, BlankPage
  <2> QED
    BY <1>2, <2>1, BlankProperty
<1>6. PagesInv'
  <2>1. \A q \in Sector : PageInv(entry'[q])
    BY <1>3, <1>4 DEF PagesInv
  <2>2. \A q \in Sector : mState'[q] = "UNINITIALIZED" => entry'[q] = BlankPage
    BY <1>4, <1>5 DEF PagesInv, EraseItem
  <2>3. UNCHANGED <<mPageList, mFreePageList, mState>>
    BY DEF EraseItem
  <2>4. \A q \in Sector : PageInv(entry[q])'
    BY <2>1 DEF PageInv, Whole, NoGap, ItemsIn
  <2> QED
    BY <1>4, <2>2, <2>3, <2>4 DEF PagesInv, BlankPage
<1>7. \A q \in Sector : ItemsIn(entry'[q]) = ItemsIn(entry[q]) \ (IF q = p THEN {i} ELSE {})
  BY <1>3, <1>4
<1>8. \A q \in Sector : \A j \in ItemsIn(entry'[q]) : entry'[q][j] = entry[q][j]
  BY <1>3, <1>4
<1> QED
  BY <1>1, <1>6, <1>7, <1>8

\* Writing an item on the last page changes that page only.
LEMMA WriteBackPages ==
  ASSUME PagesInv, NEW x \in Item, WriteBack(x), NextFree(Back) + Span(x) <= ENTRY_COUNT
  PROVE  /\ PagesInv' /\ Back' = Back
         /\ mState'[Back] = "ACTIVE" /\ \A q \in Sector : q # Back => mState'[q] = mState[q]
         /\ entry' = [entry EXCEPT ![Back] = Written(entry[Back], FirstEmpty(entry[Back]), x)]
<1>1. Back \in Sector /\ PageInv(entry[Back]) /\ Back \notin Range(mFreePageList)
  BY BackProperty
<1>2. NextFree(Back) = FirstEmpty(entry[Back])
  BY <1>1, OnPage
<1> DEFINE w == Written(entry[Back], FirstEmpty(entry[Back]), x)
<1>3. PageInv(w)
  BY <1>1, <1>2, WrittenProperty
<1>4. entry' = [entry EXCEPT ![Back] = w]
  BY <1>2 DEF WriteBack
<1>5. mState' = [mState EXCEPT ![Back] = "ACTIVE"] /\ UNCHANGED <<mPageList, mFreePageList>>
  BY DEF WriteBack
<1> HIDE DEF w
<1>6. /\ entry'[Back] = w /\ \A q \in Sector : q # Back => entry'[q] = entry[q]
      /\ entry' \in [Sector -> [Index -> Item \cup {EMPTY, ERASED, BODY}]]
  <2>1. w \in [Index -> Item \cup {EMPTY, ERASED, BODY}]
    BY <1>3 DEF PageInv
  <2> QED
    BY <1>1, <1>4, <2>1 DEF PagesInv
<1>7. Back' = Back
  BY <1>5 DEF Back
<1>8. mState'[Back] = "ACTIVE" /\ \A q \in Sector : q # Back => mState'[q] = mState[q]
  BY <1>1, <1>5 DEF PagesInv
<1>9. PagesInv'
  <2>1. \A q \in Sector : PageInv(entry[q])'
    <3>1. \A q \in Sector : PageInv(entry'[q])
      BY <1>3, <1>6 DEF PagesInv
    <3> QED
      BY <3>1 DEF PageInv, Whole, NoGap, ItemsIn
  <2>2. \A q \in Sector : mState'[q] = "UNINITIALIZED" => entry'[q] = BlankPage
    BY <1>6, <1>8 DEF PagesInv
  <2>3. \A q \in Range(mFreePageList) : q \in Sector /\ mState'[q] = "UNINITIALIZED"
    BY <1>1, <1>8 DEF PagesInv
  <2>4. mState' \in [Sector -> {"UNINITIALIZED", "ACTIVE", "FULL"}]
    BY <1>1, <1>5 DEF PagesInv
  <2> QED
    BY <1>5, <1>6, <2>1, <2>2, <2>3, <2>4 DEF PagesInv, BlankPage
<1> QED
  BY <1>4, <1>7, <1>8, <1>9 DEF w

\* Marking the last page full changes its state only.
LEMMA MarkBackFullPages ==
  ASSUME PagesInv, MarkBackFull
  PROVE  /\ PagesInv' /\ Back' = Back
         /\ mState'[Back] = "FULL" /\ \A q \in Sector : q # Back => mState'[q] = mState[q]
<1>1. Back \in Sector /\ Back \notin Range(mFreePageList)
  BY BackProperty
<1>2. /\ mState' = [mState EXCEPT ![Back] = "FULL"]
      /\ UNCHANGED <<mPageList, mFreePageList, entry>>
  BY DEF MarkBackFull
<1>3. mState'[Back] = "FULL" /\ \A q \in Sector : q # Back => mState'[q] = mState[q]
  BY <1>1, <1>2 DEF PagesInv
<1>4. \A q \in Range(mFreePageList) : q \in Sector /\ mState'[q] = "UNINITIALIZED"
  BY <1>1, <1>3 DEF PagesInv
<1>5. mState' \in [Sector -> {"UNINITIALIZED", "ACTIVE", "FULL"}]
  BY <1>1, <1>2 DEF PagesInv
<1>6. \A q \in Sector : PageInv(entry[q])'
  BY <1>2 DEF PagesInv, PageInv, Whole, NoGap, ItemsIn
<1>7. \A q \in Sector : mState'[q] = "UNINITIALIZED" => entry[q] = BlankPage
  BY <1>3 DEF PagesInv
<1>8. Back' = Back
  BY <1>2 DEF Back
<1> QED
  BY <1>2, <1>3, <1>4, <1>5, <1>6, <1>7, <1>8 DEF PagesInv, BlankPage

\* requestNewPage() chooses a page of the list.
LEMMA MostUnusedProperty ==
  ASSUME PagesInv
  PROVE  /\ MostUnused \in 1 .. Len(mPageList)
         /\ mPageList[MostUnused] \in Sector /\ mPageList[MostUnused] \in Range(mPageList)
<1> DEFINE used(n) == Used(mPageList[n])
           S == {used(n) : n \in DOMAIN mPageList}
           T == {n \in DOMAIN mPageList : used(n) = Min(S)}
<1>1. DOMAIN mPageList = 1 .. Len(mPageList) /\ Len(mPageList) \in Nat /\ Len(mPageList) >= 1
      /\ \A n \in DOMAIN mPageList : mPageList[n] \in Sector /\ mPageList[n] \in Range(mPageList)
  BY BackProperty DEF PagesInv, Range
<1>2. \A n \in DOMAIN mPageList : used(n) \in Nat
  <2> TAKE n \in DOMAIN mPageList
  <2>1. mPageList[n] \in Sector /\ PageInv(entry[mPageList[n]])
    BY <1>1 DEF PagesInv
  <2>2. used(n) = Cardinality(UsedEntries(entry[mPageList[n]]))
    BY <2>1, OnPage
  <2> HIDE DEF used
  <2> QED
    BY <2>1, <2>2, CompactEntries
<1> HIDE DEF used
<1>3. S \in SUBSET Nat /\ S # {}
  BY <1>1, <1>2
<1>4. Min(S) \in S /\ \A y \in S : Min(S) <= y
  <2> HIDE DEF S
  <2> QED
    BY <1>3, MinProperty
<1>5. T \in SUBSET Nat /\ T # {}
  <2>1. PICK n \in DOMAIN mPageList : used(n) = Min(S)
    BY <1>4
  <2>2. n \in T
    BY <2>1
  <2>3. \A m \in T : m \in DOMAIN mPageList
    OBVIOUS
  <2>4. \A m \in DOMAIN mPageList : m \in Nat
    BY <1>1
  <2> HIDE DEF T
  <2> QED
    BY <2>2, <2>3, <2>4
<1>6. Min(T) \in T /\ \A y \in T : Min(T) <= y
  <2> HIDE DEF T
  <2> QED
    BY <1>5, MinProperty
<1>7. PICK n \in DOMAIN mPageList : used(n) = Min(S) /\ n \in Nat /\ \A y \in T : n <= y
  <2>1. Min(T) \in DOMAIN mPageList /\ used(Min(T)) = Min(S)
    BY <1>6
  <2>2. Min(T) \in Nat
    BY <1>1, <2>1
  <2> QED
    BY <1>6, <2>1, <2>2
<1>8. \A m \in DOMAIN mPageList : used(n) < used(m) \/ (used(n) = used(m) /\ n <= m)
  <2> TAKE m \in DOMAIN mPageList
  <2>1. Min(S) <= used(m) /\ Min(S) \in Nat
    BY <1>3, <1>4
  <2>2. used(m) = Min(S) => n <= m
    BY <1>7
  <2> HIDE DEF S, T
  <2> QED
    BY <1>2, <1>7, <2>1, <2>2
<1>9. MostUnused \in DOMAIN mPageList
  BY <1>8 DEF MostUnused, used
<1> QED
  BY <1>1, <1>9

(***************************************************************************)
(* A new page is either a blank one, with a free page left, or the last    *)
(* free one with the items of an old page, which has entries that are not  *)
(* in use and becomes the free one.                                        *)
(***************************************************************************)
BlankPageAdded ==
  /\ Len(mFreePageList) >= 2
  /\ entry' = entry /\ mState' = mState
  /\ Back' = Head(mFreePageList)

PageMoved(old, new) ==
  /\ Len(mFreePageList) = 1 /\ Len(mFreePageList)' = 1
  /\ old \in Sector /\ old \in Range(mPageList) /\ new = Head(mFreePageList) /\ old # new
  /\ Used(old) # ENTRY_COUNT
  /\ entry'[old] = BlankPage /\ entry'[new] = Compact(entry[old])
  /\ \A q \in Sector : q \notin {old, new} => entry'[q] = entry[q]
  /\ mState'[new] \in {"UNINITIALIZED", "ACTIVE"}
  /\ Back' = new

LEMMA RequestNewPagePages ==
  ASSUME PagesInv, ~NewPageRefused, RequestNewPage
  PROVE  /\ PagesInv'
         /\ BlankPageAdded \/ PageMoved(mPageList[MostUnused], Head(mFreePageList))
         /\ Len(mFreePageList) \in Nat /\ Len(mFreePageList) >= 1
         /\ Head(mFreePageList) \in Sector /\ Head(mFreePageList) \in Range(mFreePageList)
<1> DEFINE new == Head(mFreePageList)
           old == mPageList[MostUnused]
<1>1. /\ Len(mFreePageList) \in Nat /\ Len(mFreePageList) >= 1
      /\ new = mFreePageList[1] /\ new \in Sector /\ new \in Range(mFreePageList)
      /\ mFreePageList \in Seq(Sector) /\ mPageList \in Seq(Sector)
  <2>1. DOMAIN mFreePageList = 1 .. Len(mFreePageList) /\ Len(mFreePageList) \in Nat
        /\ Len(mFreePageList) >= 1
    BY DEF PagesInv
  <2>2. new = mFreePageList[1] /\ new \in Range(mFreePageList)
    BY <2>1 DEF Range, PagesInv
  <2> QED
    BY <2>1, <2>2 DEF PagesInv
<1>2. /\ new \notin Range(mPageList) /\ mState[new] = "UNINITIALIZED" /\ entry[new] = BlankPage
      /\ IsInjective(mPageList) /\ IsInjective(mFreePageList)
  BY <1>1 DEF PagesInv
<1>3. /\ MostUnused \in 1 .. Len(mPageList) /\ old \in Sector /\ old \in Range(mPageList)
      /\ PageInv(entry[old])
  BY MostUnusedProperty DEF PagesInv
<1>4. CASE Len(mFreePageList) >= 2
  <2>1. /\ mPageList' = Append(mPageList, new) /\ mFreePageList' = Tail(mFreePageList)
        /\ mState' = mState /\ entry' = entry
    BY <1>4 DEF RequestNewPage
  <2> HIDE DEF new, old
  <2>2. /\ mPageList' \in Seq(Sector) /\ Range(mPageList') = Range(mPageList) \cup {new}
        /\ IsInjective(mPageList')
    BY <1>1, <1>2, <2>1, AppendElements, AppendOnce
  <2>3. mPageList' # <<>> /\ Last(mPageList') = new
    BY <1>1, <2>1 DEF Last
  <2>4. /\ Range(mFreePageList') = Range(mFreePageList) \ {new} /\ IsInjective(mFreePageList')
    BY <1>1, <1>2, <2>1, TailOnce DEF new, PagesInv
  <2>5. mFreePageList' \in Seq(Sector) /\ mFreePageList' # <<>>
    <3>1. Tail(mFreePageList) \in Seq(Sector) /\ Len(Tail(mFreePageList)) = Len(mFreePageList) - 1
      BY <1>1, <1>4
    <3>2. Tail(mFreePageList) # <<>>
      <4>1. Len(Tail(mFreePageList)) >= 1
        BY <1>1, <1>4, <3>1
      <4> DEFINE rest == Tail(mFreePageList)
      <4> HIDE DEF rest
      <4>2. Len(rest) >= 1
        BY <4>1, Zenon DEF rest
      <4>3. rest # <<>>
        BY <4>2
      <4> QED
        BY <4>3, Zenon DEF rest
    <3> QED
      BY <2>1, <3>1, <3>2
  <2>6. \A q \in Sector : PageInv(entry[q])'
    BY <2>1 DEF PagesInv, PageInv, Whole, NoGap, ItemsIn
  <2>7. PagesInv'
    <3>1. Range(mPageList)' = Range(mPageList') /\ Range(mFreePageList)' = Range(mFreePageList')
          /\ IsInjective(mPageList)' = IsInjective(mPageList')
          /\ IsInjective(mFreePageList)' = IsInjective(mFreePageList')
      BY DEF Range, IsInjective
    <3> QED
      BY <1>1, <1>2, <2>1, <2>2, <2>3, <2>4, <2>5, <2>6, <3>1 DEF PagesInv, BlankPage
  <2>8. BlankPageAdded
    BY <1>4, <2>1, <2>3 DEF BlankPageAdded, Back, new
  <2> QED
    BY <1>1, <2>7, <2>8 DEF new
<1>5. CASE Len(mFreePageList) = 1
  <2>1. /\ mPageList' = Append(RemoveAt(mPageList, MostUnused), new)
        /\ mFreePageList' = <<old>>
        /\ mState' = [mState EXCEPT ![old] = "UNINITIALIZED",
                        ![new] = IF Items(old) = {} THEN "UNINITIALIZED" ELSE "ACTIVE"]
        /\ entry' = [entry EXCEPT ![old] = [j \in Index |-> EMPTY], ![new] = Copied(old)]
    BY <1>5 DEF RequestNewPage
  <2>2. Copied(old) = Compact(entry[old])
    BY <1>3, CopiedProperty
  <2>3. Used(old) # ENTRY_COUNT
    BY <1>5 DEF NewPageRefused
  <2>4. old # new
    BY <1>2, <1>3
  <2>5. Items(old) = ItemsIn(entry[old])
    BY <1>3, OnPage
  <2> DEFINE c == Compact(entry[old])
             rest == RemoveAt(mPageList, MostUnused)
  <2>6. PageInv(c) /\ c \in [Index -> Item \cup {EMPTY, ERASED, BODY}]
    BY <1>3, CompactProperty DEF PageInv
  <2>7. Items(old) = {} => c = BlankPage
    <3> SUFFICES ASSUME ItemsIn(entry[old]) = {} PROVE c = BlankPage
      BY <2>5
    <3>1. \A i \in Index : entry[old][i] \in {EMPTY, ERASED, BODY} /\ entry[old][i] # BODY
      BY <1>3 DEF PageInv, Whole, ItemsIn
    <3>2. UsedEntries(entry[old]) = {}
      BY <3>1 DEF UsedEntries
    <3>3. Cardinality(UsedEntries(entry[old])) = 0
      BY <3>2, FS_EmptySet
    <3>4. \A j \in Index : j \in Nat
      BY <1>3, EntryProperty
    <3> QED
      BY <3>3, <3>4 DEF Compact, BlankPage
  <2> HIDE DEF c
  <2>8. rest \in Seq(Sector) /\ Range(rest) = Range(mPageList) \ {old} /\ IsInjective(rest)
    BY <1>1, <1>2, <1>3, RemoveAtProperty, RemoveOnce
  <2> HIDE DEF rest, new, old
  <2>9. /\ mPageList' \in Seq(Sector)
        /\ Range(mPageList') = (Range(mPageList) \ {old}) \cup {new}
        /\ IsInjective(mPageList')
    BY <1>1, <1>2, <2>1, <2>8, AppendElements, AppendOnce DEF rest
  <2>10. mPageList' # <<>> /\ Last(mPageList') = new
    BY <1>1, <2>1, <2>8 DEF Last, rest
  <2>11. mFreePageList' \in Seq(Sector) /\ mFreePageList' # <<>> /\ Range(mFreePageList') = {old}
         /\ IsInjective(mFreePageList') /\ Len(mFreePageList') = 1
    BY <1>3, <2>1 DEF Range, IsInjective
  <2>12. Range(mFreePageList) = {new}
    BY <1>1, <1>5 DEF Range
  <2>13. /\ mState'[old] = "UNINITIALIZED"
         /\ mState'[new] = IF Items(old) = {} THEN "UNINITIALIZED" ELSE "ACTIVE"
         /\ \A q \in Sector : q \notin {old, new} => mState'[q] = mState[q]
         /\ mState' \in [Sector -> {"UNINITIALIZED", "ACTIVE", "FULL"}]
    BY <1>1, <1>3, <2>1, <2>4 DEF PagesInv
  <2>14. /\ entry'[old] = BlankPage /\ entry'[new] = c
         /\ \A q \in Sector : q \notin {old, new} => entry'[q] = entry[q]
         /\ entry' \in [Sector -> [Index -> Item \cup {EMPTY, ERASED, BODY}]]
    BY <1>1, <1>3, <2>1, <2>2, <2>4, <2>6 DEF PagesInv, BlankPage, c
  <2>15. \A q \in Sector : PageInv(entry[q])'
    <3>1. PageInv(BlankPage)
      BY BlankProperty DEF BlankPage
    <3>2. \A q \in Sector : PageInv(entry'[q])
      BY <2>6, <2>14, <3>1 DEF PagesInv
    <3> QED
      BY <3>2 DEF PageInv, Whole, NoGap, ItemsIn
  <2>16. \A q \in Sector : mState'[q] = "UNINITIALIZED" => entry'[q] = BlankPage
    BY <2>7, <2>13, <2>14 DEF PagesInv
  <2>17. PagesInv'
    <3>1. Range(mPageList)' = Range(mPageList') /\ Range(mFreePageList)' = Range(mFreePageList')
          /\ IsInjective(mPageList)' = IsInjective(mPageList')
          /\ IsInjective(mFreePageList)' = IsInjective(mFreePageList')
      BY DEF Range, IsInjective
    <3>2. Range(mPageList') \cap Range(mFreePageList') = {}
      BY <2>4, <2>9, <2>11
    <3>3. Range(mPageList') \cup Range(mFreePageList') = Sector
      BY <1>3, <2>9, <2>11, <2>12 DEF PagesInv
    <3>4. \A p \in Range(mFreePageList') : mState'[p] = "UNINITIALIZED"
      BY <2>11, <2>13
    <3> QED
      BY <2>9, <2>10, <2>11, <2>13, <2>14, <2>15, <2>16, <3>1, <3>2, <3>3, <3>4
         DEF PagesInv, BlankPage
  <2>18. PageMoved(old, new)
    BY <1>3, <1>5, <2>3, <2>4, <2>10, <2>11, <2>13, <2>14 DEF PageMoved, Back, new, c
  <2> QED
    BY <1>1, <2>17, <2>18 DEF new, old
<1>6. Len(mFreePageList) >= 2 \/ Len(mFreePageList) = 1
  <2> DEFINE n == Len(mFreePageList)
  <2>1. n \in Nat /\ n >= 1
    BY <1>1
  <2> HIDE DEF n
  <2>2. n >= 2 \/ n = 1
    BY <2>1
  <2> QED
    BY <2>2 DEF n
<1> QED
  BY <1>1, <1>4, <1>5, <1>6, Zenon

\* load() lists the pages with a header in their order, and leaves an ACTIVE last page last.
LEMMA LoadListsPages ==
  ASSUME PagesInv, LoadLists
  PROVE  PagesInv' /\ (mState[Back] = "ACTIVE" => Back' = Back)
<1> DEFINE K == {n \in DOMAIN mPageList : mState[mPageList[n]] # "UNINITIALIZED"}
           kept == Ascending(K)
           used == [n \in DOMAIN kept |-> mPageList[kept[n]]]
           F == {p \in Sector : mState[p] = "UNINITIALIZED"}
           free == Ascending(F)
<1>1. /\ mPageList' = IF used = <<>> THEN <<Head(free)>> ELSE used
      /\ mFreePageList' = IF used = <<>> THEN Tail(free) ELSE free
      /\ mState' = mState /\ entry' = entry
  BY DEF LoadLists
<1>2. /\ DOMAIN mPageList = 1 .. Len(mPageList) /\ Len(mPageList) \in Nat /\ Len(mPageList) >= 1
      /\ \A n \in DOMAIN mPageList : mPageList[n] \in Sector /\ mPageList[n] \in Range(mPageList)
      /\ \A p \in Range(mPageList) : \E n \in DOMAIN mPageList : mPageList[n] = p
      /\ IsInjective(mPageList) /\ Back = mPageList[Len(mPageList)]
  BY BackProperty DEF PagesInv, Range
<1>3. /\ IsFiniteSet(DOMAIN mPageList)
      /\ IsFiniteSet(Sector) /\ Sector \in SUBSET Int /\ Cardinality(Sector) = PageCount
  <2>1. 0 \in Int /\ PageCount - 1 \in Int
        /\ (IF 0 > PageCount - 1 THEN 0 ELSE PageCount - 1 - 0 + 1) = PageCount
    BY PageCountAssumption
  <2>2. 1 \in Int /\ Len(mPageList) \in Int
    BY <1>2
  <2> QED
    BY <1>2, <2>1, <2>2, FS_Interval DEF Sector
<1>4. /\ K \in SUBSET DOMAIN mPageList /\ K \in SUBSET Int /\ F \in SUBSET Sector
      /\ \A n \in DOMAIN mPageList : n \in K <=> mPageList[n] \notin F
  <2>1. K \in SUBSET DOMAIN mPageList /\ F \in SUBSET Sector
        /\ \A n \in DOMAIN mPageList : n \in K <=> mPageList[n] \notin F
    BY <1>2
  <2>2. \A n \in DOMAIN mPageList : n \in Int
    BY <1>2
  <2> HIDE DEF K, F
  <2> QED
    BY <2>1, <2>2
<1>5. IsFiniteSet(K) /\ IsFiniteSet(F) /\ F \in SUBSET Int
  <2> HIDE DEF K, F
  <2> QED
    BY <1>3, <1>4, FS_Subset
<1>6. /\ kept \in Seq(K) /\ Len(kept) = Cardinality(K) /\ IsInjective(kept) /\ Range(kept) = K
      /\ \A n \in K : kept[Rank(K, n)] = n
      /\ free \in Seq(F) /\ Len(free) = Cardinality(F) /\ IsInjective(free) /\ Range(free) = F
      /\ Cardinality(K) \in Nat /\ Cardinality(F) \in Nat
  <2> HIDE DEF K, F
  <2> QED
    BY <1>4, <1>5, AscendingProperty, RankProperty
<1>7. \A p \in Sector : p \in F <=> mState[p] = "UNINITIALIZED"
  OBVIOUS
<1>8. used = [n \in DOMAIN kept |-> mPageList[kept[n]]]
  OBVIOUS
<1> HIDE DEF K, F, kept, free, used
<1>9. DOMAIN kept = 1 .. Len(kept) /\ \A n \in DOMAIN kept : kept[n] \in K
  BY <1>6
<1>10. used \in Seq(Sector) /\ Len(used) = Cardinality(K) /\ DOMAIN used = DOMAIN kept
  <2>1. \A n \in DOMAIN kept : used[n] \in Sector
    BY <1>2, <1>4, <1>8, <1>9
  <2>2. used = [n \in 1 .. Cardinality(K) |-> used[n]] /\ DOMAIN used = DOMAIN kept
    BY <1>6, <1>8, <1>9
  <2> QED
    BY <1>6, <1>9, <2>1, <2>2
<1>11. IsInjective(used)
  BY <1>2, <1>4, <1>6, <1>8, <1>9 DEF IsInjective
<1>12. Range(used) = Sector \ F
  <2>1. \A n \in DOMAIN kept : used[n] \in Sector \ F
    BY <1>2, <1>4, <1>8, <1>9
  <2>2. ASSUME NEW p \in Sector \ F PROVE \E n \in DOMAIN kept : used[n] = p
    <3>1. p \in Range(mPageList)
      BY <1>7 DEF PagesInv
    <3>2. PICK m \in DOMAIN mPageList : mPageList[m] = p
      BY <1>2, <3>1
    <3>3. m \in K
      BY <1>4, <3>2
    <3>4. PICK n \in DOMAIN kept : kept[n] = m
      BY <1>6, <3>3 DEF Range
    <3> QED
      BY <1>8, <3>2, <3>4
  <2> QED
    BY <1>10, <2>1, <2>2 DEF Range
<1>13. F # {} /\ free # <<>>
  <2>1. PICK p \in Range(mFreePageList) : TRUE
    BY DEF PagesInv, Range
  <2>2. p \in F
    BY <1>7, <2>1 DEF PagesInv
  <2>3. Cardinality(F) # 0
    BY <1>5, <2>2, FS_EmptySet
  <2> QED
    BY <1>6, <2>2, <2>3
<1>14. \A q \in Sector : PageInv(entry[q])'
  BY <1>1 DEF PagesInv, PageInv, Whole, NoGap, ItemsIn
<1>15. /\ Range(mPageList)' = Range(mPageList') /\ Range(mFreePageList)' = Range(mFreePageList')
       /\ IsInjective(mPageList)' = IsInjective(mPageList')
       /\ IsInjective(mFreePageList)' = IsInjective(mFreePageList')
  BY DEF Range, IsInjective
<1>16. free \in Seq(Sector) /\ \A p \in F : mState[p] = "UNINITIALIZED"
  <2>1. \A p \in F : p \in Sector
    BY <1>4
  <2>2. free \in Seq(F) /\ Len(free) \in Nat /\ DOMAIN free = 1 .. Len(free)
    BY <1>6
  <2>3. \A n \in 1 .. Len(free) : free[n] \in Sector
    BY <2>1, <2>2
  <2> QED
    BY <1>4, <1>7, <2>2, <2>3
<1>17. CASE used # <<>>
  <2>1. mPageList' = used /\ mFreePageList' = free
    BY <1>1, <1>17
  <2>2. Range(mPageList') \cap Range(mFreePageList') = {}
        /\ Range(mPageList') \cup Range(mFreePageList') = Sector
    BY <1>4, <1>6, <1>12, <2>1
  <2>3. PagesInv'
    BY <1>1, <1>6, <1>10, <1>11, <1>13, <1>14, <1>15, <1>16, <1>17, <2>1, <2>2
       DEF PagesInv, BlankPage
  <2>4. ASSUME mState[Back] = "ACTIVE" PROVE Back' = Back
    <3>1. Len(mPageList) \in K
      <4>1. Len(mPageList) \in DOMAIN mPageList
        BY <1>2
      <4>2. Back \notin F
        BY <1>2, <1>7, <2>4, <4>1
      <4> QED
        BY <1>2, <1>4, <4>1, <4>2
    <3>2. {m \in K : m <= Len(mPageList)} = K
      BY <1>2, <1>4
    <3>3. Rank(K, Len(mPageList)) = Cardinality(K)
      BY <3>2 DEF Rank
    <3>4. kept[Cardinality(K)] = Len(mPageList)
      BY <1>6, <3>1, <3>3
    <3>5. Cardinality(K) # 0
      BY <1>5, <3>1, FS_EmptySet
    <3>6. Cardinality(K) \in DOMAIN kept
      BY <1>6, <1>9, <3>5
    <3>7. used[Len(used)] = Back
      BY <1>2, <1>8, <1>10, <3>4, <3>6
    <3> QED
      BY <2>1, <3>7 DEF Back, Last
  <2> QED
    BY <2>3, <2>4
<1>18. CASE used = <<>>
  <2>1. mPageList' = <<Head(free)>> /\ mFreePageList' = Tail(free)
    BY <1>1, <1>18
  <2>2. K = {}
    <3>1. Cardinality(K) = 0
      BY <1>10, <1>18
    <3> QED
      BY <1>5, <3>1, FS_EmptySet
  <2>3. F = Sector
    BY <1>4, <1>12, <1>9, <1>10, <2>2 DEF Range
  <2>4. Len(free) = PageCount
    BY <1>3, <1>6, <2>3
  <2>5. Head(free) \in Sector /\ Head(free) = free[1] /\ Head(free) \in Range(free)
    <3>1. 1 \in DOMAIN free /\ Head(free) = free[1]
      BY <1>16, <2>4, PageCountAssumption
    <3> QED
      BY <1>16, <3>1 DEF Range
  <2>6. /\ Tail(free) \in Seq(Sector) /\ Len(Tail(free)) >= 1
        /\ Range(Tail(free)) = Range(free) \ {Head(free)} /\ IsInjective(Tail(free))
    <3>1. Tail(free) \in Seq(Sector) /\ Len(Tail(free)) = Len(free) - 1
      BY <1>13, <1>16
    <3>2. Len(Tail(free)) >= 1
      BY <2>4, <3>1, PageCountAssumption
    <3> QED
      BY <1>6, <1>13, <1>16, <3>1, <3>2, TailOnce
  <2>7. Tail(free) # <<>>
    <3> DEFINE rest == Tail(free)
    <3>1. Len(rest) >= 1
      BY <2>6
    <3> HIDE DEF rest
    <3>2. rest # <<>>
      BY <3>1
    <3> QED
      BY <3>2, Zenon DEF rest
  <2>8. Range(<<Head(free)>>) = {Head(free)} /\ IsInjective(<<Head(free)>>)
    BY DEF Range, IsInjective
  <2>9. /\ Range(mPageList') \cap Range(mFreePageList') = {}
        /\ Range(mPageList') \cup Range(mFreePageList') = Sector
    BY <1>6, <2>1, <2>3, <2>5, <2>6, <2>8
  <2>10. \A p \in Range(mFreePageList') : mState'[p] = "UNINITIALIZED"
    BY <1>1, <1>6, <1>16, <2>1, <2>6
  <2>11. mPageList' \in Seq(Sector) /\ mPageList' # <<>>
    BY <2>1, <2>5
  <2>12. PagesInv'
    BY <1>1, <1>14, <1>15, <2>1, <2>6, <2>7, <2>8, <2>9, <2>10, <2>11 DEF PagesInv, BlankPage
  <2>13. mState[Back] # "ACTIVE"
    BY <1>7, <2>3, BackProperty
  <2> QED
    BY <2>12, <2>13
<1> QED
  BY <1>17, <1>18

-----------------------------------------------------------------------------
(* Finding items. *)

\* findItem() of a page leads to an item of the kind, key and chunk.
LEMMA FindOnPageProperty ==
  ASSUME PagesInv, NEW p \in Sector, NEW kind, NEW k, NEW chunk, NEW ver
  PROVE  LET i == FindOnPage(p, kind, k, chunk, ver)
         IN  \/ i = NONE
             \/ /\ i \in Items(p) /\ entry[p][i] \in Item
                /\ entry[p][i].kind = kind /\ entry[p][i].key = k /\ entry[p][i].chunk = chunk
                /\ kind = "BLOB_IDX" /\ ver # VER_ANY => entry[p][i].chunkStart = ver
<1> DEFINE match == {i \in Items(p) :
                      /\ entry[p][i].key = k /\ entry[p][i].chunk = chunk
                      /\ kind = "BLOB_IDX" /\ ver # VER_ANY /\ entry[p][i].kind = "BLOB_IDX" =>
                           entry[p][i].chunkStart = ver}
<1>1. FindOnPage(p, kind, k, chunk, ver) =
        IF match # {} /\ entry[p][Min(match)].kind = kind THEN Min(match) ELSE NONE
  BY DEF FindOnPage
<1>2. Items(p) = ItemsIn(entry[p]) /\ PageInv(entry[p])
  BY OnPage DEF PagesInv
<1>3. Items(p) \in SUBSET Nat /\ \A i \in Items(p) : entry[p][i] \in Item
  BY <1>2, EntryProperty
<1>4. match \in SUBSET Items(p)
  OBVIOUS
<1>5. ASSUME NEW i \in match
      PROVE  /\ i \in Items(p) /\ entry[p][i].key = k /\ entry[p][i].chunk = chunk
             /\ kind = "BLOB_IDX" /\ ver # VER_ANY /\ entry[p][i].kind = "BLOB_IDX" =>
                  entry[p][i].chunkStart = ver
  OBVIOUS
<1> HIDE DEF match
<1>6. match # {} => Min(match) \in match
  BY <1>3, <1>4, MinProperty
<1> QED
  BY <1>1, <1>3, <1>5, <1>6

\* Storage::findItem() leads to a page in use that has the item.
LEMMA FindPageProperty ==
  ASSUME PagesInv, NEW kind, NEW k, NEW chunk, NEW ver
  PROVE  LET p == FindPage(kind, k, chunk, ver)
         IN  \/ /\ p = NoPage /\ p \notin Sector
                /\ \A q \in Range(mPageList) : FindOnPage(q, kind, k, chunk, ver) = NONE
             \/ /\ p \in Sector /\ p # NoPage /\ p \in Range(mPageList)
                /\ FindOnPage(p, kind, k, chunk, ver) # NONE
<1> DEFINE S == PagesWith(kind, k, chunk, ver)
<1>1. S \in SUBSET DOMAIN mPageList
      /\ \A n \in DOMAIN mPageList : n \in S <=> FindOnPage(mPageList[n], kind, k, chunk, ver) # NONE
  BY DEF PagesWith
<1>2. \A n \in DOMAIN mPageList : n \in Nat /\ mPageList[n] \in Sector
  BY BackProperty DEF PagesInv
<1>3. FindPage(kind, k, chunk, ver) = IF S = {} THEN NoPage ELSE mPageList[Min(S)]
  BY DEF FindPage
<1>4. NoPage \notin Sector
  BY PageCountAssumption DEF NoPage, Sector
<1> HIDE DEF S
<1>5. CASE S = {}
  <2>1. \A q \in Range(mPageList) : \E n \in DOMAIN mPageList : q = mPageList[n]
    BY DEF Range
  <2> QED
    BY <1>1, <1>3, <1>4, <1>5, <2>1
<1>6. CASE S # {}
  <2>1. Min(S) \in S
    BY <1>1, <1>2, <1>6, MinProperty
  <2> QED
    BY <1>1, <1>2, <1>3, <1>4, <1>6, <2>1 DEF Range
<1> QED
  BY <1>5, <1>6

-----------------------------------------------------------------------------
(***************************************************************************)
(* Types.  That a chunk fits where it is written needs that the data       *)
(* written is not more than there is; that the cleanup finds the page of   *)
(* each chunk, that it counts from the first.                              *)
(***************************************************************************)
SetPC == {"find", "chunk", "skip", "full", "next", "index", "cleanup", "eraseOld"}

LocalsType ==
  /\ op \in Request /\ pc \in PC
  /\ prevStart \in {VER_0_OFFSET, VER_1_OFFSET, VER_ANY}
  /\ nextStart \in {VER_0_OFFSET, VER_1_OFFSET}
  /\ usedPages \in Seq(Sector) /\ offset \in Nat /\ tailroom \in Nat
  /\ chunkStart \in {VER_0_OFFSET, VER_1_OFFSET, VER_ANY}
  /\ chunkCount \in Nat /\ chunkNum \in Nat
  /\ crashes \in 0 .. MaxCrashes

BlobControl ==
  /\ pc \in SetPC => op.name = "set"
  /\ pc = "read" => op.name = "get"
  /\ pc = "findAny" => op.name = "erase"
  /\ pc \in {"return", "eraseIndex", "eraseChunks"} => op.name \in {"set", "get", "erase"}
  /\ pc \in {"idle", "load", "dup", "orphans"} => op = NoOp
  /\ pc \in {"idle", "load", "dup", "orphans", "read", "find", "findAny"} =>
       offset = 0 /\ usedPages = <<>> /\ tailroom = 0
  /\ pc = "skip" => usedPages = <<>>
  /\ pc \in {"idle", "load", "dup", "orphans", "read", "find", "findAny",
             "chunk", "skip", "full", "next", "index"} => chunkNum = 0
  /\ pc \in {"chunk", "skip", "full", "next"} => offset <= Len(op.val)
  /\ pc = "cleanup" => chunkNum <= Len(usedPages)

TypeInv == PagesInv /\ LocalsType /\ BlobControl

USE DEF Goto, Respond

\* What a request asks for.
LEMMA RequestProperty ==
  ASSUME op \in Request
  PROVE  /\ op.name \in {"none", "set", "get", "erase"}
         /\ op.name = "set" => op.key \in Key /\ op.val \in Blob /\ Len(op.val) \in Nat
                               /\ op.val \in Seq(Datum)
         /\ op.name \in {"get", "erase"} => op.key \in Key
         /\ op = NoOp <=> op.name = "none"
BY BlobAssumption DEF Request, NoOp

\* What does not change the pages keeps them.
LEMMA SamePages ==
  ASSUME PagesInv, UNCHANGED blobPageVars
  PROVE  PagesInv'
<1>1. UNCHANGED <<mPageList, mFreePageList, mState, entry>>
  BY DEF blobPageVars
<1>2. \A q \in Sector : PageInv(entry[q])'
  BY <1>1 DEF PagesInv, PageInv, Whole, NoGap, ItemsIn
<1>3. /\ Range(mPageList)' = Range(mPageList') /\ Range(mFreePageList)' = Range(mFreePageList')
      /\ IsInjective(mPageList)' = IsInjective(mPageList')
      /\ IsInjective(mFreePageList)' = IsInjective(mFreePageList')
  BY DEF Range, IsInjective
<1> QED
  BY <1>1, <1>2, <1>3 DEF PagesInv, BlankPage

\* Tailroom is what a chunk beginning at the first empty entry can hold.
LEMMA TailroomProperty ==
  ASSUME PagesInv, NEW p \in Sector
  PROVE  /\ Tailroom(p) \in 0 .. CHUNK_MAX_SIZE
         /\ Tailroom(p) > 0 => /\ mState[p] # "FULL"
                               /\ FirstEmpty(entry[p]) + 1 + Tailroom(p) = ENTRY_COUNT
         /\ mState[p] = "UNINITIALIZED" =>
              Tailroom(p) = CHUNK_MAX_SIZE /\ FirstEmpty(entry[p]) = 0
         /\ FirstEmpty(entry[p]) \in 0 .. ENTRY_COUNT
<1>1. NextFree(p) = FirstEmpty(entry[p]) /\ FirstEmpty(entry[p]) \in 0 .. ENTRY_COUNT
  BY OnPage, FirstEmptyProperty DEF PagesInv
<1>2. mState[p] = "UNINITIALIZED" => FirstEmpty(entry[p]) = 0
  <2> SUFFICES ASSUME mState[p] = "UNINITIALIZED" PROVE FirstEmpty(entry[p]) = 0
    OBVIOUS
  <2>1. entry[p] = [i \in Index |-> EMPTY]
    BY DEF PagesInv, BlankPage
  <2> QED
    BY <2>1, BlankProperty
<1> DEFINE f == FirstEmpty(entry[p])
<1> HIDE DEF f
<1>3. Tailroom(p) = IF mState[p] = "UNINITIALIZED" THEN CHUNK_MAX_SIZE
                    ELSE IF mState[p] = "FULL" \/ f >= ENTRY_COUNT - 1 THEN 0
                    ELSE ENTRY_COUNT - f - 1
  BY <1>1 DEF Tailroom, f
<1> QED
  BY <1>1, <1>2, <1>3, EntryCountAssumption DEF CHUNK_MAX_SIZE, f

\* Initially the pages are blank, but perhaps for one blob of the old format.
LEMMA InitPages ==
  ASSUME Init
  PROVE  PagesInv
<1>1. /\ mPageList = <<0>> /\ mFreePageList = [n \in 1 .. PageCount - 1 |-> n]
      /\ 0 \in Sector /\ 1 \in Sector /\ PageCount - 1 \in Nat /\ PageCount - 1 >= 1
  BY PageCountAssumption DEF Init, Sector
<1>2. mPageList \in Seq(Sector) /\ mPageList # <<>> /\ IsInjective(mPageList) /\ Range(mPageList) = {0}
  BY <1>1 DEF IsInjective, Range
<1>3. /\ mFreePageList \in Seq(Sector) /\ DOMAIN mFreePageList = 1 .. PageCount - 1
      /\ IsInjective(mFreePageList) /\ Range(mFreePageList) = Sector \ {0}
  <2>1. \A n \in 1 .. PageCount - 1 : mFreePageList[n] = n /\ n \in Sector \ {0}
    BY <1>1 DEF Sector
  <2>2. \A p \in Sector \ {0} : p \in 1 .. PageCount - 1
    BY <1>1 DEF Sector
  <2>3. DOMAIN mFreePageList = 1 .. PageCount - 1
    BY <1>1
  <2>4. mFreePageList \in Seq(Sector)
    BY <1>1, <2>1
  <2> HIDE DEF Sector
  <2> QED
    BY <2>1, <2>2, <2>3, <2>4 DEF IsInjective, Range
<1>4. mFreePageList # <<>>
  <2>1. 1 \in DOMAIN mFreePageList
    BY <1>1, <1>3
  <2> QED
    BY <2>1
<1>5. PageInv(BlankPage) /\ BlankPage \in [Index -> Item \cup {EMPTY, ERASED, BODY}]
      /\ FirstEmpty(BlankPage) = 0
  BY BlankProperty DEF BlankPage, PageInv
<1>6. /\ mState \in [Sector -> {"UNINITIALIZED", "ACTIVE", "FULL"}]
      /\ \A p \in Sector : p # 0 => mState[p] = "UNINITIALIZED"
  BY DEF Init
<1>7. /\ entry \in [Sector -> [Index -> Item \cup {EMPTY, ERASED, BODY}]]
      /\ \A p \in Sector : PageInv(entry[p])
      /\ \A p \in Sector : mState[p] = "UNINITIALIZED" => entry[p] = BlankPage
  <2>1. CASE entry = [p \in Sector |-> BlankPage]
    BY <1>5, <2>1
  <2>2. CASE /\ mState = [p \in Sector |-> IF p = 0 THEN "ACTIVE" ELSE "UNINITIALIZED"]
             /\ \E old \in OldBlobs :
                  entry = [p \in Sector |->
                    IF p = 0 THEN Written(BlankPage, 0, OldBlob(old[1], old[2])) ELSE BlankPage]
    <3>1. PICK old \in OldBlobs :
            entry = [p \in Sector |->
              IF p = 0 THEN Written(BlankPage, 0, OldBlob(old[1], old[2])) ELSE BlankPage]
      BY <2>2
    <3>2. old[1] \in Key /\ old[2] \in Blob /\ Len(old[2]) <= CHUNK_MAX_SIZE /\ Len(old[2]) \in Nat
      BY PartitionAssumption, BlobAssumption
    <3> DEFINE x == OldBlob(old[1], old[2])
               w == Written(BlankPage, 0, x)
    <3>3. x \in Item /\ Span(x) = 1 + Len(old[2])
      BY <3>2 DEF Item, OldBlob, Span
    <3>4. 0 + Span(x) <= ENTRY_COUNT
      BY <3>2, <3>3, EntryCountAssumption DEF CHUNK_MAX_SIZE
    <3> HIDE DEF x
    <3>5. PageInv(w)
      BY <1>5, <3>3, <3>4, WrittenProperty
    <3>6. w \in [Index -> Item \cup {EMPTY, ERASED, BODY}]
      BY <3>5 DEF PageInv
    <3>7. entry = [p \in Sector |-> IF p = 0 THEN w ELSE BlankPage]
      BY <3>1 DEF x
    <3> HIDE DEF w
    <3>8. mState[0] = "ACTIVE"
      BY <1>1, <2>2
    <3> QED
      BY <1>5, <3>5, <3>6, <3>7, <3>8
  <2> QED
    BY <2>1, <2>2 DEF Init
<1>8. \A p \in Range(mFreePageList) : mState[p] = "UNINITIALIZED"
  BY <1>3, <1>6
<1>9. /\ Range(mPageList) \cap Range(mFreePageList) = {}
      /\ Range(mPageList) \cup Range(mFreePageList) = Sector
  BY <1>1, <1>2, <1>3
<1> QED
  BY <1>2, <1>3, <1>4, <1>6, <1>7, <1>8, <1>9 DEF PagesInv

LEMMA InitType ==
  ASSUME Init
  PROVE  TypeInv
<1>1. LocalsType /\ BlobControl
  BY PartitionAssumption DEF Init, LocalsType, BlobControl, Request, NoOp, PC, SetPC,
                             VER_0_OFFSET, VER_ANY
<1> QED
  BY <1>1, InitPages DEF TypeInv

\* What the version numbers are.
USE DEF VER_0_OFFSET, VER_1_OFFSET, VER_ANY

\* The index that is found has a version.
LEMMA IndexProperty ==
  ASSUME PagesInv, NEW k
  PROVE  \A x \in IndexOf(k) : /\ x \in Item /\ x.kind = "BLOB_IDX" /\ x.key = k
                               /\ x.chunkStart \in {VER_0_OFFSET, VER_1_OFFSET}
                               /\ x.chunkCount \in Nat
<1> TAKE x \in IndexOf(k)
<1> DEFINE p == FindPage("BLOB_IDX", k, CHUNK_ANY, VER_ANY)
           i == FindOnPage(p, "BLOB_IDX", k, CHUNK_ANY, VER_ANY)
<1>1. p # NoPage /\ x = entry[p][i]
  BY DEF IndexOf, FoundItem
<1>2. p \in Sector /\ i # NONE
  BY <1>1, FindPageProperty
<1> HIDE DEF p
<1>3. entry[p][i] \in Item /\ entry[p][i].kind = "BLOB_IDX" /\ entry[p][i].key = k
  BY <1>2, FindOnPageProperty
<1> HIDE DEF i
<1> QED
  BY <1>1, <1>3, ItemProperty

LEMMA PrevStartProperty ==
  ASSUME PagesInv, NEW k, HasIndex(k)
  PROVE  PrevStart(k) \in {VER_0_OFFSET, VER_1_OFFSET}
<1>1. (CHOOSE x \in IndexOf(k) : TRUE) \in IndexOf(k)
  BY DEF HasIndex
<1> QED
  BY <1>1, IndexProperty DEF PrevStart

-----------------------------------------------------------------------------
(* Requests keep the types. *)

LEMMA BeginType == ASSUME TypeInv, Begin PROVE TypeInv'
<1>1. UNCHANGED <<blobPageVars, localVars, eraseVars, crashes>> /\ pc = "idle"
  BY DEF Begin
<1>2. PagesInv'
  BY <1>1, SamePages DEF TypeInv
<1>3. \/ \E k \in Key, v \in Blob : op' = [name |-> "set", key |-> k, val |-> v] /\ pc' = "find"
      \/ \E k \in Key : op' = [name |-> "get", key |-> k] /\ pc' = "read"
      \/ \E k \in Key : op' = [name |-> "erase", key |-> k] /\ pc' = "findAny"
  BY DEF Begin
<1>4. LocalsType'
  BY <1>1, <1>3 DEF TypeInv, LocalsType, Request, PC, localVars, eraseVars
<1>5. BlobControl'
  BY <1>1, <1>3 DEF TypeInv, BlobControl, SetPC, localVars, eraseVars
<1> QED
  BY <1>2, <1>4, <1>5 DEF TypeInv

LEMMA ReturnType == ASSUME TypeInv, Return PROVE TypeInv'
<1>1. UNCHANGED <<blobPageVars, crashes>> /\ pc' = "idle" /\ op' = NoOp /\ ResetLocals
  BY DEF Return
<1>2. PagesInv'
  BY <1>1, SamePages DEF TypeInv
<1>3. LocalsType'
  BY <1>1 DEF TypeInv, LocalsType, Request, PC, ResetLocals
<1>4. BlobControl'
  BY <1>1 DEF BlobControl, SetPC, ResetLocals
<1> QED
  BY <1>2, <1>3, <1>4 DEF TypeInv

LEMMA ReadType == ASSUME TypeInv, Read PROVE TypeInv'
<1>1. UNCHANGED <<blobPageVars, op, localVars, eraseVars, crashes>> /\ pc = "read"
      /\ pc' \in {"return", "eraseIndex", "aborted"}
  BY DEF Read, ReadOldFormat
<1>2. PagesInv'
  BY <1>1, SamePages DEF TypeInv
<1>3. LocalsType'
  BY <1>1 DEF TypeInv, LocalsType, PC, localVars, eraseVars
<1>4. BlobControl'
  BY <1>1 DEF TypeInv, BlobControl, SetPC, localVars, eraseVars
<1> QED
  BY <1>2, <1>3, <1>4 DEF TypeInv

LEMMA EraseAnyType == ASSUME TypeInv, EraseAny PROVE TypeInv'
<1>1. UNCHANGED <<op, localVars, eraseVars, crashes>> /\ pc = "findAny"
      /\ pc' \in {"return", "eraseIndex"}
  BY DEF EraseAny
<1>2. PagesInv'
  <2> DEFINE found == {n \in DOMAIN mPageList : ItemsOf(mPageList[n], op.key) # {}}
             p == mPageList[Min(found)]
             i == Min(ItemsOf(p, op.key))
  <2>1. UNCHANGED blobPageVars \/ (found # {} /\ EraseItem(p, i))
    BY DEF EraseAny
  <2>2. ASSUME found # {} PROVE p \in Sector /\ ItemsOf(p, op.key) # {}
    <3>1. found \in SUBSET Nat /\ \A n \in found : mPageList[n] \in Sector
      BY BackProperty DEF TypeInv, PagesInv
    <3>2. \A n \in found : ItemsOf(mPageList[n], op.key) # {}
      OBVIOUS
    <3> HIDE DEF found
    <3>3. Min(found) \in found
      BY <3>1, <2>2, MinProperty
    <3> QED
      BY <3>1, <3>2, <3>3
  <2> HIDE DEF found, p
  <2>3. ASSUME p \in Sector, ItemsOf(p, op.key) # {} PROVE i \in Items(p)
    <3>1. ItemsOf(p, op.key) \in SUBSET Items(p) /\ Items(p) \in SUBSET Nat
      BY <2>3, OnPage, EntryProperty DEF ItemsOf, TypeInv, PagesInv
    <3>2. i \in ItemsOf(p, op.key)
      BY <2>3, <3>1, MinProperty
    <3> QED
      BY <3>1, <3>2
  <2> HIDE DEF i
  <2> QED
    BY <2>1, <2>2, <2>3, SamePages, EraseItemPages DEF TypeInv
<1>3. LocalsType'
  BY <1>1 DEF TypeInv, LocalsType, PC, localVars, eraseVars
<1>4. BlobControl'
  BY <1>1 DEF TypeInv, BlobControl, SetPC, localVars, eraseVars
<1> QED
  BY <1>2, <1>3, <1>4 DEF TypeInv

-----------------------------------------------------------------------------
(* So does the writing of a blob. *)

LEMMA FindType == ASSUME TypeInv, Find PROVE TypeInv'
<1>1. /\ UNCHANGED <<blobPageVars, op, tailroom, offset, usedPages, eraseVars, crashes>>
      /\ pc = "find" /\ pc' \in {"return", "aborted", "chunk"}
  BY DEF Find
<1>2. PagesInv'
  BY <1>1, SamePages DEF TypeInv
<1>3. /\ prevStart' \in {VER_0_OFFSET, VER_1_OFFSET, VER_ANY}
      /\ nextStart' \in {VER_0_OFFSET, VER_1_OFFSET}
  BY PrevStartProperty DEF Find, TypeInv, OtherVersion
<1>4. LocalsType'
  BY <1>1, <1>3 DEF TypeInv, LocalsType, PC, eraseVars
<1>5. BlobControl'
  <2>1. op.name = "set" /\ Len(op.val) \in Nat
    BY <1>1, RequestProperty DEF TypeInv, BlobControl, LocalsType, SetPC
  <2> QED
    BY <1>1, <2>1 DEF TypeInv, BlobControl, SetPC, eraseVars
<1> QED
  BY <1>2, <1>4, <1>5 DEF TypeInv

LEMMA SkipPageType == ASSUME TypeInv, SkipPage PROVE TypeInv'
<1>1. /\ UNCHANGED <<op, prevStart, nextStart, offset, usedPages, eraseVars, crashes>>
      /\ pc = "chunk" /\ pc' = "skip" /\ usedPages = <<>> /\ tailroom' = Tailroom(Back)
      /\ UNCHANGED blobPageVars \/ MarkBackFull
  BY DEF SkipPage, TailroomTooSmall
<1>2. PagesInv'
  BY <1>1, SamePages, MarkBackFullPages DEF TypeInv
<1>3. tailroom' \in Nat
  BY <1>1, BackProperty, TailroomProperty, EntryCountAssumption DEF TypeInv, CHUNK_MAX_SIZE
<1>4. LocalsType'
  BY <1>1, <1>3 DEF TypeInv, LocalsType, PC, eraseVars
<1>5. BlobControl'
  BY <1>1 DEF TypeInv, BlobControl, SetPC, eraseVars
<1> QED
  BY <1>2, <1>4, <1>5 DEF TypeInv

LEMMA SkipToNewPageType == ASSUME TypeInv, SkipToNewPage PROVE TypeInv'
<1>1. /\ UNCHANGED <<op, localVars, eraseVars, crashes>>
      /\ pc = "skip" /\ pc' \in {"return", "chunk"}
      /\ UNCHANGED blobPageVars \/ (~NewPageRefused /\ RequestNewPage)
  BY DEF SkipToNewPage
<1>2. PagesInv'
  BY <1>1, SamePages, RequestNewPagePages DEF TypeInv
<1>3. LocalsType'
  BY <1>1 DEF TypeInv, LocalsType, PC, localVars, eraseVars
<1>4. BlobControl'
  BY <1>1 DEF TypeInv, BlobControl, SetPC, localVars, eraseVars
<1> QED
  BY <1>2, <1>3, <1>4 DEF TypeInv

LEMMA NoTailroomType == ASSUME TypeInv, NoTailroom PROVE TypeInv'
<1>1. /\ UNCHANGED <<blobPageVars, op, localVars, eraseVars, crashes>>
      /\ pc = "chunk" /\ pc' = "cleanup"
  BY DEF NoTailroom
<1>2. PagesInv'
  BY <1>1, SamePages DEF TypeInv
<1>3. LocalsType'
  BY <1>1 DEF TypeInv, LocalsType, PC, localVars, eraseVars
<1>4. Len(usedPages) >= 0
  BY DEF TypeInv, LocalsType
<1>5. BlobControl'
  BY <1>1, <1>4 DEF TypeInv, BlobControl, SetPC, localVars, eraseVars
<1> QED
  BY <1>2, <1>3, <1>5 DEF TypeInv

(***************************************************************************)
(* A chunk is what there is room for, or what is left of the data.         *)
(***************************************************************************)
ChunkSize == Min({Tailroom(Back), Len(op.val) - offset})

NewChunk ==
  BlobData(op.key, nextStart + Len(usedPages), SubSeq(op.val, offset + 1, offset + ChunkSize))

LEMMA ChunkProperty ==
  ASSUME TypeInv, WriteChunk
  PROVE  /\ op.name = "set" /\ op.key \in Key /\ Len(op.val) \in Nat
         /\ WriteBack(NewChunk) /\ offset' = offset + ChunkSize
         /\ usedPages' = Append(usedPages, Back)
         /\ ChunkSize \in Nat /\ ChunkSize <= Tailroom(Back) /\ offset + ChunkSize <= Len(op.val)
         /\ ChunkSize = Tailroom(Back) \/ offset + ChunkSize = Len(op.val)
         /\ NewChunk \in Item /\ Span(NewChunk) = 1 + ChunkSize
         /\ NextFree(Back) + Span(NewChunk) <= ENTRY_COUNT
         /\ FirstEmpty(entry[Back]) + 1 + Tailroom(Back) = ENTRY_COUNT
         /\ mState[Back] # "FULL" /\ Back \in Sector /\ Tailroom(Back) \in Nat
         /\ Len(usedPages) \in Nat
<1>1. /\ pc = "chunk" /\ Tailroom(Back) > 0
      /\ WriteBack(NewChunk) /\ offset' = offset + ChunkSize
      /\ usedPages' = Append(usedPages, Back)
  BY DEF WriteChunk, ChunkSize, NewChunk
<1>2. /\ op.name = "set" /\ op.key \in Key /\ Len(op.val) \in Nat /\ op.val \in Seq(Datum)
      /\ offset \in Nat /\ offset <= Len(op.val)
  BY <1>1, RequestProperty DEF TypeInv, LocalsType, BlobControl, SetPC
<1>3. /\ Back \in Sector /\ Tailroom(Back) \in Nat
      /\ FirstEmpty(entry[Back]) + 1 + Tailroom(Back) = ENTRY_COUNT
      /\ mState[Back] # "FULL" /\ FirstEmpty(entry[Back]) \in Nat
      /\ NextFree(Back) = FirstEmpty(entry[Back])
  BY <1>1, BackProperty, TailroomProperty, OnPage, EntryCountAssumption DEF TypeInv, CHUNK_MAX_SIZE
<1> DEFINE t == Tailroom(Back)
           r == Len(op.val) - offset
<1>4. ChunkSize \in {t, r} /\ ChunkSize <= t /\ ChunkSize <= r
  <2>1. t \in Nat /\ r \in Nat
    BY <1>2, <1>3
  <2>2. ChunkSize = Min({t, r})
    BY DEF ChunkSize
  <2> HIDE DEF t, r
  <2>3. {t, r} \in SUBSET Nat /\ {t, r} # {}
    BY <2>1
  <2> QED
    BY <2>2, <2>3, MinProperty
<1>5. /\ ChunkSize \in Nat /\ ChunkSize <= Tailroom(Back) /\ offset + ChunkSize <= Len(op.val)
      /\ ChunkSize = Tailroom(Back) \/ offset + ChunkSize = Len(op.val)
  <2>1. t \in Nat /\ r \in Nat /\ r = Len(op.val) - offset
    BY <1>2, <1>3
  <2> HIDE DEF r
  <2> QED
    BY <1>2, <1>3, <1>4, <2>1
<1> DEFINE d == SubSeq(op.val, offset + 1, offset + ChunkSize)
<1>6. d \in Seq(Datum) /\ Len(d) = ChunkSize
  BY <1>2, <1>5
<1>7. Len(usedPages) \in Nat /\ nextStart + Len(usedPages) \in Nat
  BY DEF TypeInv, LocalsType
<1>8. NewChunk \in Item /\ Span(NewChunk) = 1 + ChunkSize
  <2>1. NewChunk = [kind |-> "BLOB_DATA", key |-> op.key, chunk |-> nextStart + Len(usedPages), data |-> d]
    BY DEF NewChunk, BlobData
  <2> HIDE DEF d
  <2> QED
    BY <1>2, <1>6, <1>7, <2>1 DEF Item, Span
<1>9. NextFree(Back) + Span(NewChunk) <= ENTRY_COUNT
  BY <1>3, <1>5, <1>8
<1> QED
  BY <1>1, <1>2, <1>3, <1>5, <1>7, <1>8, <1>9

LEMMA WriteChunkType == ASSUME TypeInv, WriteChunk PROVE TypeInv'
<1>1. /\ UNCHANGED <<op, prevStart, nextStart, tailroom, eraseVars, crashes>>
      /\ pc = "chunk" /\ pc' \in {"full", "index"}
  BY DEF WriteChunk
<1>2. PagesInv'
  BY ChunkProperty, WriteBackPages DEF TypeInv
<1>3. offset' \in Nat /\ offset' <= Len(op.val) /\ usedPages' \in Seq(Sector)
  <2>1. /\ ChunkSize \in Nat /\ offset' = offset + ChunkSize /\ offset + ChunkSize <= Len(op.val)
        /\ usedPages' = Append(usedPages, Back) /\ Back \in Sector
    BY ChunkProperty
  <2>2. offset \in Nat /\ usedPages \in Seq(Sector)
    BY DEF TypeInv, LocalsType
  <2> QED
    BY <2>1, <2>2
<1>4. LocalsType'
  BY <1>1, <1>3 DEF TypeInv, LocalsType, PC, eraseVars
<1>5. BlobControl'
  BY <1>1, <1>3 DEF TypeInv, BlobControl, SetPC, eraseVars
<1> QED
  BY <1>2, <1>4, <1>5 DEF TypeInv

LEMMA MarkFullType == ASSUME TypeInv, MarkFull PROVE TypeInv'
<1>1. /\ UNCHANGED <<op, localVars, eraseVars, crashes>>
      /\ pc = "full" /\ pc' = "next" /\ MarkBackFull
  BY DEF MarkFull
<1>2. PagesInv'
  BY <1>1, MarkBackFullPages DEF TypeInv
<1>3. LocalsType'
  BY <1>1 DEF TypeInv, LocalsType, PC, localVars, eraseVars
<1>4. BlobControl'
  BY <1>1 DEF TypeInv, BlobControl, SetPC, localVars, eraseVars
<1> QED
  BY <1>2, <1>3, <1>4 DEF TypeInv

LEMMA NextPageType == ASSUME TypeInv, NextPage PROVE TypeInv'
<1>1. /\ UNCHANGED <<op, localVars, eraseVars, crashes>>
      /\ pc = "next" /\ pc' \in {"cleanup", "chunk", "index"}
      /\ UNCHANGED blobPageVars \/ (~NewPageRefused /\ RequestNewPage)
  BY DEF NextPage
<1>2. PagesInv'
  BY <1>1, SamePages, RequestNewPagePages DEF TypeInv
<1>3. LocalsType'
  BY <1>1 DEF TypeInv, LocalsType, PC, localVars, eraseVars
<1>4. Len(usedPages) >= 0
  BY DEF TypeInv, LocalsType
<1>5. BlobControl'
  BY <1>1, <1>4 DEF TypeInv, BlobControl, SetPC, localVars, eraseVars
<1> QED
  BY <1>2, <1>3, <1>5 DEF TypeInv

\* The index that is written.
NewIndex == BlobIndex(op.key, nextStart, Len(usedPages), Len(op.val))

LEMMA NewIndexProperty ==
  ASSUME TypeInv, pc = "index"
  PROVE  /\ op.name = "set" /\ op.key \in Key
         /\ NewIndex \in Item /\ NewIndex.kind = "BLOB_IDX" /\ NewIndex.key = op.key
         /\ NewIndex.chunkStart = nextStart /\ Span(NewIndex) = 1
<1>1. op.name = "set" /\ op.key \in Key /\ Len(op.val) \in Nat
  BY RequestProperty DEF TypeInv, LocalsType, BlobControl, SetPC
<1>2. Len(usedPages) \in Nat /\ nextStart \in {VER_0_OFFSET, VER_1_OFFSET}
  BY DEF TypeInv, LocalsType
<1> QED
  BY <1>1, <1>2 DEF NewIndex, BlobIndex, Item, Span

LEMMA WriteIndexType == ASSUME TypeInv, WriteIndex PROVE TypeInv'
<1>1. /\ UNCHANGED <<op, localVars, eraseVars, crashes>>
      /\ pc = "index" /\ pc' \in {"eraseOld", "eraseIndex", "aborted"}
      /\ UNCHANGED blobPageVars \/ (Fits(NewIndex) /\ WriteBack(NewIndex))
  BY DEF WriteIndex, NewIndex
<1>2. PagesInv'
  <2>1. ASSUME Fits(NewIndex), WriteBack(NewIndex) PROVE PagesInv'
    BY <1>1, <2>1, NewIndexProperty, WriteBackPages DEF TypeInv, Fits
  <2> QED
    BY <1>1, <2>1, SamePages DEF TypeInv
<1>3. LocalsType'
  BY <1>1 DEF TypeInv, LocalsType, PC, localVars, eraseVars
<1>4. BlobControl'
  BY <1>1 DEF TypeInv, BlobControl, SetPC, localVars, eraseVars
<1> QED
  BY <1>2, <1>3, <1>4 DEF TypeInv

\* What findItem() found on a page is an item of the page.
LEMMA FoundItems ==
  ASSUME PagesInv, NEW p \in Sector, NEW kind, NEW k, NEW chunk, NEW ver,
         FindOnPage(p, kind, k, chunk, ver) # NONE
  PROVE  FindOnPage(p, kind, k, chunk, ver) \in Items(p)
BY FindOnPageProperty

LEMMA CleanupType == ASSUME TypeInv, Cleanup PROVE TypeInv'
<1>1. /\ UNCHANGED <<op, ret, localVars, chunkStart, chunkCount, crashes>> /\ pc = "cleanup"
      /\ op.name = "set"
  BY DEF Cleanup, TypeInv, BlobControl, SetPC
<1>2. CASE chunkNum = Len(usedPages)
  <2>1. pc' = "return" /\ UNCHANGED <<blobPageVars, chunkNum>>
    BY <1>2 DEF Cleanup
  <2>2. PagesInv'
    BY <2>1, SamePages DEF TypeInv
  <2>3. LocalsType'
    BY <1>1, <2>1 DEF TypeInv, LocalsType, PC, localVars
  <2>4. BlobControl'
    BY <1>1, <2>1 DEF TypeInv, BlobControl, SetPC, localVars
  <2> QED
    BY <2>2, <2>3, <2>4 DEF TypeInv
<1>3. CASE chunkNum # Len(usedPages)
  <2> DEFINE p == usedPages[chunkNum + 1]
             i == FindOnPage(p, "BLOB_DATA", op.key, chunkNum, VER_ANY)
  <2>1. /\ UNCHANGED blobPageVars \/ (i # NONE /\ EraseItem(p, i))
        /\ chunkNum' = chunkNum + 1 /\ pc' = pc
    BY <1>3 DEF Cleanup
  <2>2. chunkNum \in Nat /\ chunkNum + 1 <= Len(usedPages) /\ Len(usedPages) \in Nat
    BY <1>1, <1>3 DEF TypeInv, LocalsType, BlobControl
  <2>3. p \in Sector
    BY <2>2 DEF TypeInv, LocalsType
  <2> HIDE DEF p
  <2>4. i # NONE => i \in Items(p)
    BY <2>3, FoundItems DEF TypeInv
  <2> HIDE DEF i
  <2>5. PagesInv'
    BY <2>1, <2>3, <2>4, SamePages, EraseItemPages DEF TypeInv
  <2>6. LocalsType'
    BY <1>1, <2>1 DEF TypeInv, LocalsType, PC, localVars
  <2>7. BlobControl'
    BY <1>1, <2>1, <2>2 DEF TypeInv, BlobControl, SetPC, localVars
  <2> QED
    BY <2>5, <2>6, <2>7 DEF TypeInv
<1> QED
  BY <1>2, <1>3

\* Erasing what Storage::findItem() found keeps the pages.
LEMMA EraseFoundPages ==
  ASSUME PagesInv, NEW kind, NEW k, NEW chunk, NEW ver,
         LET p == FindPage(kind, k, chunk, ver)
         IN  p # NoPage /\ EraseItem(p, FindOnPage(p, kind, k, chunk, ver))
  PROVE  PagesInv'
<1> DEFINE p == FindPage(kind, k, chunk, ver)
           i == FindOnPage(p, kind, k, chunk, ver)
<1>1. p \in Sector /\ i # NONE
  BY FindPageProperty
<1> HIDE DEF p
<1>2. i \in Items(p)
  BY <1>1, FoundItems
<1>3. EraseItem(p, i)
  BY DEF p
<1> HIDE DEF i
<1> QED
  BY <1>1, <1>2, <1>3, EraseItemPages

LEMMA EraseOldFormatType == ASSUME TypeInv, EraseOldFormat PROVE TypeInv'
<1>1. /\ UNCHANGED <<op, localVars, eraseVars, crashes>> /\ pc = "eraseOld" /\ pc' = "return"
  BY DEF EraseOldFormat
<1>2. PagesInv'
  <2> DEFINE p == FindPage("BLOB", op.key, CHUNK_ANY, VER_ANY)
  <2>1. \/ UNCHANGED blobPageVars
        \/ p # NoPage /\ EraseItem(p, FindOnPage(p, "BLOB", op.key, CHUNK_ANY, VER_ANY))
    BY DEF EraseOldFormat, OldBlobPage
  <2> QED
    BY <2>1, SamePages, EraseFoundPages DEF TypeInv
<1>3. LocalsType'
  BY <1>1 DEF TypeInv, LocalsType, PC, localVars, eraseVars
<1>4. BlobControl'
  BY <1>1 DEF TypeInv, BlobControl, SetPC, localVars, eraseVars
<1> QED
  BY <1>2, <1>3, <1>4 DEF TypeInv

-----------------------------------------------------------------------------
(* So do the erasing of a blob, a power failure, and load(). *)

LEMMA EraseIndexType == ASSUME TypeInv, EraseIndex PROVE TypeInv'
<1> DEFINE ver == IF op.name = "set" THEN prevStart ELSE VER_ANY
           p == FindPage("BLOB_IDX", op.key, CHUNK_ANY, ver)
           i == FindOnPage(p, "BLOB_IDX", op.key, CHUNK_ANY, ver)
<1>1. UNCHANGED <<op, localVars, crashes>> /\ pc = "eraseIndex"
  BY DEF EraseIndex
<1>2. CASE p = NoPage
  <2>1. pc' = "return" /\ UNCHANGED <<blobPageVars, eraseVars>>
    BY <1>2 DEF EraseIndex
  <2>2. PagesInv'
    BY <2>1, SamePages DEF TypeInv
  <2>3. LocalsType'
    BY <1>1, <2>1 DEF TypeInv, LocalsType, PC, localVars, eraseVars
  <2>4. BlobControl'
    BY <1>1, <2>1 DEF TypeInv, BlobControl, SetPC, localVars, eraseVars
  <2> QED
    BY <2>2, <2>3, <2>4 DEF TypeInv
<1>3. CASE p # NoPage
  <2>1. /\ EraseItem(p, i) /\ pc' = "eraseChunks" /\ chunkNum' = 0
        /\ chunkStart' = entry[p][i].chunkStart /\ chunkCount' = entry[p][i].chunkCount
    BY <1>3 DEF EraseIndex
  <2>2. PagesInv'
    <3> HIDE DEF ver
    <3> QED
      BY <1>3, <2>1, EraseFoundPages DEF TypeInv
  <2>3. p \in Sector /\ i # NONE
    <3> HIDE DEF ver
    <3> QED
      BY <1>3, FindPageProperty DEF TypeInv
  <2> HIDE DEF p, ver
  <2>4. entry[p][i] \in Item /\ entry[p][i].kind = "BLOB_IDX"
    BY <2>3, FindOnPageProperty DEF TypeInv
  <2>5. chunkStart' \in {VER_0_OFFSET, VER_1_OFFSET} /\ chunkCount' \in Nat
    BY <2>1, <2>4, ItemProperty
  <2>6. LocalsType'
    BY <1>1, <2>1, <2>5 DEF TypeInv, LocalsType, PC, localVars
  <2>7. BlobControl'
    BY <1>1, <2>1 DEF TypeInv, BlobControl, SetPC, localVars
  <2> QED
    BY <2>2, <2>6, <2>7 DEF TypeInv
<1> QED
  BY <1>2, <1>3

LEMMA EraseChunkType == ASSUME TypeInv, EraseChunk PROVE TypeInv'
<1>1. /\ UNCHANGED <<op, pc, ret, localVars, chunkStart, chunkCount, crashes>>
      /\ pc = "eraseChunks" /\ chunkNum' = chunkNum + 1
  BY DEF EraseChunk
<1>2. PagesInv'
  <2> DEFINE c == chunkStart + chunkNum
             p == FindPage("BLOB_DATA", op.key, c, VER_ANY)
  <2>1. \/ UNCHANGED blobPageVars
        \/ p # NoPage /\ EraseItem(p, FindOnPage(p, "BLOB_DATA", op.key, c, VER_ANY))
    BY DEF EraseChunk, ChunkPage
  <2> HIDE DEF c
  <2> QED
    BY <2>1, SamePages, EraseFoundPages DEF TypeInv
<1>3. LocalsType'
  BY <1>1 DEF TypeInv, LocalsType, PC, localVars
<1>4. BlobControl'
  BY <1>1 DEF TypeInv, BlobControl, SetPC, localVars
<1> QED
  BY <1>2, <1>3, <1>4 DEF TypeInv

LEMMA ChunksErasedType == ASSUME TypeInv, ChunksErased PROVE TypeInv'
<1>1. /\ UNCHANGED <<blobPageVars, op, localVars, eraseVars, crashes>>
      /\ pc = "eraseChunks" /\ pc' = "return"
  BY DEF ChunksErased, ReadOldFormat
<1>2. PagesInv'
  BY <1>1, SamePages DEF TypeInv
<1>3. LocalsType'
  BY <1>1 DEF TypeInv, LocalsType, PC, localVars, eraseVars
<1>4. BlobControl'
  BY <1>1 DEF TypeInv, BlobControl, SetPC, localVars, eraseVars
<1> QED
  BY <1>2, <1>3, <1>4 DEF TypeInv

LEMMA CrashType == ASSUME TypeInv, Crash PROVE TypeInv'
<1>1. /\ crashes < MaxCrashes /\ crashes' = crashes + 1
      /\ LoadLists /\ op' = NoOp /\ pc' = "load" /\ ResetLocals
  BY DEF Crash
<1>2. PagesInv'
  BY <1>1, LoadListsPages DEF TypeInv
<1>3. LocalsType'
  BY <1>1, PartitionAssumption DEF TypeInv, LocalsType, Request, PC, ResetLocals
<1>4. BlobControl'
  BY <1>1 DEF BlobControl, SetPC, ResetLocals
<1> QED
  BY <1>2, <1>3, <1>4 DEF TypeInv

\* load() erases one of two items with the same key and chunk on a page.
LEMMA DuplicateProperty ==
  ASSUME PagesInv, ActiveDuplicates # {}
  PROVE  LET p == Min(ActiveDuplicates)
             i == Superseded(p, Min(Duplicates(p)))
         IN  /\ p \in Sector /\ p \in ActiveDuplicates /\ i \in Items(p)
             /\ Min(Duplicates(p)) \in Items(p) /\ i < Min(Duplicates(p))
             /\ entry[p][i].key = entry[p][Min(Duplicates(p))].key
             /\ entry[p][i].chunk = entry[p][Min(Duplicates(p))].chunk
<1> DEFINE p == Min(ActiveDuplicates)
           j == Min(Duplicates(p))
           alike == {i \in Items(p) : entry[p][i].key = entry[p][j].key
                                      /\ entry[p][i].chunk = entry[p][j].chunk}
<1>1. ActiveDuplicates \in SUBSET Sector /\ Sector \in SUBSET Nat
  BY PageCountAssumption DEF ActiveDuplicates, Sector
<1>2. p \in ActiveDuplicates /\ p \in Sector
  BY <1>1, MinProperty
<1>3. Duplicates(p) # {}
  BY <1>2 DEF ActiveDuplicates
<1>4. Superseded(p, j) = Min(alike)
  BY DEF Superseded
<1> HIDE DEF p
<1>5. Items(p) \in SUBSET Nat
  BY <1>2, OnPage, EntryProperty DEF PagesInv
<1>6. Duplicates(p) \in SUBSET Items(p)
  BY DEF Duplicates
<1>7. j \in Duplicates(p)
  BY <1>3, <1>5, <1>6, MinProperty
<1>8. PICK i \in Items(p) :
        i < j /\ entry[p][i].key = entry[p][j].key /\ entry[p][i].chunk = entry[p][j].chunk
  <2> HIDE DEF j
  <2> QED
    BY <1>7 DEF Duplicates
<1>9. i \in alike /\ alike \in SUBSET Nat
  BY <1>5, <1>8
<1>10. Min(alike) \in alike /\ Min(alike) <= i
  <2> HIDE DEF alike
  <2> QED
    BY <1>9, MinProperty
<1>11. Min(alike) \in Items(p) /\ Min(alike) < j
       /\ entry[p][Min(alike)].key = entry[p][j].key
       /\ entry[p][Min(alike)].chunk = entry[p][j].chunk
  <2>1. j \in Nat /\ i \in Nat
    BY <1>5, <1>6, <1>7
  <2>2. \A m \in alike : /\ m \in Items(p) /\ entry[p][m].key = entry[p][j].key
                         /\ entry[p][m].chunk = entry[p][j].chunk
    OBVIOUS
  <2> HIDE DEF alike, j
  <2>3. Min(alike) \in Nat
    BY <1>9, <1>10
  <2> QED
    BY <1>8, <1>10, <2>1, <2>2, <2>3
<1>12. j \in Items(p)
  BY <1>6, <1>7
<1> QED
  BY <1>2, <1>4, <1>11, <1>12, Zenon DEF p

LEMMA RepairDuplicateType == ASSUME TypeInv, RepairDuplicate PROVE TypeInv'
<1>1. /\ UNCHANGED <<op, localVars, eraseVars, crashes>> /\ pc = "load" /\ pc' \in {"load", "dup"}
  BY DEF RepairDuplicate
<1>2. PagesInv'
  <2> DEFINE p == Min(ActiveDuplicates)
             i == Superseded(p, Min(Duplicates(p)))
  <2>1. UNCHANGED blobPageVars \/ (ActiveDuplicates # {} /\ EraseItem(p, i))
    BY DEF RepairDuplicate
  <2>2. ActiveDuplicates # {} => p \in Sector /\ i \in Items(p)
    BY DuplicateProperty DEF TypeInv
  <2> HIDE DEF p, i
  <2> QED
    BY <2>1, <2>2, SamePages, EraseItemPages DEF TypeInv
<1>3. LocalsType'
  BY <1>1 DEF TypeInv, LocalsType, PC, localVars, eraseVars
<1>4. BlobControl'
  BY <1>1 DEF TypeInv, BlobControl, SetPC, localVars, eraseVars
<1> QED
  BY <1>2, <1>3, <1>4 DEF TypeInv

\* An item like the last one that load() erases is on a page before the last.
LEMMA AlikeProperty ==
  ASSUME PagesInv, NEW x, NEW kind, Alike(x, kind) # {}
  PROVE  LET p == mPageList[Min(Alike(x, kind))]
             i == FindOnPage(p, kind, x.key, x.chunk, VER_ANY)
         IN  /\ Min(Alike(x, kind)) \in 1 .. Len(mPageList) - 1
             /\ p \in Sector /\ p # Back /\ i \in Items(p)
             /\ entry[p][i].kind = kind /\ entry[p][i].key = x.key /\ entry[p][i].chunk = x.chunk
<1> DEFINE A == Alike(x, kind)
           p == mPageList[Min(A)]
<1>1. /\ DOMAIN mPageList = 1 .. Len(mPageList) /\ Len(mPageList) \in Nat
      /\ Back = mPageList[Len(mPageList)] /\ IsInjective(mPageList)
      /\ \A n \in DOMAIN mPageList : mPageList[n] \in Sector
  BY BackProperty DEF PagesInv
<1>2. /\ A \in SUBSET (1 .. Len(mPageList) - 1)
      /\ \A n \in A : FindOnPage(mPageList[n], kind, x.key, x.chunk, VER_ANY) # NONE
  BY DEF Alike
<1> HIDE DEF A
<1>3. A \in SUBSET Nat /\ A # {}
  BY <1>1, <1>2 DEF A
<1>4. Min(A) \in A
  BY <1>3, MinProperty
<1>5. Min(A) \in 1 .. Len(mPageList) - 1 /\ p \in Sector /\ p # Back
  <2>1. Min(A) \in 1 .. Len(mPageList) - 1
    BY <1>2, <1>4
  <2>2. Min(A) \in DOMAIN mPageList /\ Len(mPageList) \in DOMAIN mPageList /\ Min(A) # Len(mPageList)
    BY <1>1, <2>1
  <2> QED
    BY <1>1, <2>1, <2>2 DEF IsInjective
<1>6. FindOnPage(p, kind, x.key, x.chunk, VER_ANY) # NONE
  BY <1>2, <1>4
<1> HIDE DEF p
<1>7. LET i == FindOnPage(p, kind, x.key, x.chunk, VER_ANY)
      IN  /\ i \in Items(p)
          /\ entry[p][i].kind = kind /\ entry[p][i].key = x.key /\ entry[p][i].chunk = x.chunk
  BY <1>5, <1>6, FindOnPageProperty
<1> QED
  BY <1>5, <1>7, Zenon DEF p, A

LEMMA EraseOldVersionType == ASSUME TypeInv, EraseOldVersion PROVE TypeInv'
<1>1. /\ UNCHANGED <<op, localVars, eraseVars, crashes>> /\ pc = "dup"
      /\ pc' \in {"aborted", "orphans"}
  BY DEF EraseOldVersion
<1>2. PagesInv'
  <2>1. ASSUME NEW x, NEW kind, Alike(x, kind) # {}, EraseAlike(x, kind) PROVE PagesInv'
    <3> DEFINE p == mPageList[Min(Alike(x, kind))]
               i == FindOnPage(p, kind, x.key, x.chunk, VER_ANY)
    <3>1. EraseItem(p, i)
      BY <2>1 DEF EraseAlike
    <3>2. p \in Sector /\ i \in Items(p)
      BY <2>1, AlikeProperty DEF TypeInv
    <3> HIDE DEF p, i
    <3> QED
      BY <3>1, <3>2, EraseItemPages DEF TypeInv
  <2>2. \/ UNCHANGED blobPageVars
        \/ \E x, kind : Alike(x, kind) # {} /\ EraseAlike(x, kind)
    BY DEF EraseOldVersion
  <2> QED
    BY <2>1, <2>2, SamePages DEF TypeInv
<1>3. LocalsType'
  BY <1>1 DEF TypeInv, LocalsType, PC, localVars, eraseVars
<1>4. BlobControl'
  BY <1>1 DEF TypeInv, BlobControl, SetPC, localVars, eraseVars
<1> QED
  BY <1>2, <1>3, <1>4 DEF TypeInv

\* The chunk that load() erases as an orphan.
LEMMA OrphanProperty ==
  ASSUME PagesInv, {n \in DOMAIN mPageList : Orphans(mPageList[n]) # {}} # {}
  PROVE  LET p == mPageList[Min({n \in DOMAIN mPageList : Orphans(mPageList[n]) # {}})]
             i == Min(Orphans(p))
         IN  /\ p \in Sector /\ i \in Items(p) /\ entry[p][i].kind = "BLOB_DATA"
             /\ ~\E x \in Indices : Counts(x, entry[p][i])
<1> DEFINE found == {n \in DOMAIN mPageList : Orphans(mPageList[n]) # {}}
           p == mPageList[Min(found)]
<1>1. \A n \in DOMAIN mPageList : n \in Nat /\ mPageList[n] \in Sector
  BY BackProperty DEF PagesInv
<1>2. Min(found) \in found
  <2>1. found \in SUBSET Nat /\ found # {}
    BY <1>1
  <2> HIDE DEF found
  <2> QED
    BY <2>1, MinProperty
<1>3. p \in Sector /\ Orphans(p) # {}
  BY <1>1, <1>2
<1> HIDE DEF found, p
<1>4. /\ Orphans(p) \in SUBSET Items(p) /\ Items(p) \in SUBSET Nat
      /\ \A i \in Orphans(p) : /\ entry[p][i].kind = "BLOB_DATA"
                               /\ ~\E x \in Indices : Counts(x, entry[p][i])
  BY <1>3, OnPage, EntryProperty DEF Orphans, PagesInv
<1>5. Min(Orphans(p)) \in Orphans(p)
  BY <1>3, <1>4, MinProperty
<1>6. /\ Min(Orphans(p)) \in Items(p) /\ entry[p][Min(Orphans(p))].kind = "BLOB_DATA"
      /\ ~\E x \in Indices : Counts(x, entry[p][Min(Orphans(p))])
  BY <1>4, <1>5
<1> QED
  BY <1>3, <1>6, Zenon DEF p, found

LEMMA EraseOrphanType == ASSUME TypeInv, EraseOrphan PROVE TypeInv'
<1> DEFINE found == {n \in DOMAIN mPageList : Orphans(mPageList[n]) # {}}
           p == mPageList[Min(found)]
           i == Min(Orphans(p))
<1>1. /\ UNCHANGED <<op, localVars, eraseVars, crashes>> /\ pc = "orphans"
      /\ pc' \in {"idle", "orphans"}
      /\ UNCHANGED blobPageVars \/ (found # {} /\ EraseItem(p, i))
  BY DEF EraseOrphan
<1>2. PagesInv'
  <2>1. found # {} => p \in Sector /\ i \in Items(p)
    BY OrphanProperty, Zenon DEF TypeInv
  <2> HIDE DEF found, p, i
  <2> QED
    BY <1>1, <2>1, SamePages, EraseItemPages DEF TypeInv
<1>3. LocalsType'
  BY <1>1 DEF TypeInv, LocalsType, PC, localVars, eraseVars
<1>4. BlobControl'
  BY <1>1 DEF TypeInv, BlobControl, SetPC, localVars, eraseVars
<1> QED
  BY <1>2, <1>3, <1>4 DEF TypeInv

-----------------------------------------------------------------------------
LEMMA StutterType == ASSUME TypeInv, UNCHANGED vars PROVE TypeInv'
<1>1. UNCHANGED <<blobPageVars, op, pc, localVars, eraseVars, crashes>>
  BY DEF vars
<1>2. PagesInv'
  BY <1>1, SamePages DEF TypeInv
<1>3. LocalsType'
  BY <1>1 DEF TypeInv, LocalsType, localVars, eraseVars
<1>4. BlobControl'
  BY <1>1 DEF TypeInv, BlobControl, localVars, eraseVars
<1> QED
  BY <1>2, <1>3, <1>4 DEF TypeInv

LEMMA NextType == ASSUME TypeInv, [Next]_vars PROVE TypeInv'
<1>1. CASE Write
  BY <1>1, FindType, SkipPageType, SkipToNewPageType, NoTailroomType, WriteChunkType, MarkFullType,
     NextPageType, WriteIndexType, CleanupType, EraseOldFormatType, Zenon DEF Write
<1>2. CASE Erase
  BY <1>2, EraseAnyType, EraseIndexType, EraseChunkType, ChunksErasedType, Zenon DEF Erase
<1>3. CASE Load
  BY <1>3, RepairDuplicateType, EraseOldVersionType, EraseOrphanType, Zenon DEF Load
<1> QED
  BY <1>1, <1>2, <1>3, BeginType, ReturnType, ReadType, CrashType, StutterType, Zenon DEF Next

(***************************************************************************)
(* Every item is whole on its page, whatever is written, erased, moved and *)
(* interrupted, and free pages are blank.                                  *)
(***************************************************************************)
THEOREM TypeHolds == Spec => []TypeInv
<1>1. Init => TypeInv
  BY InitType
<1>2. TypeInv /\ [Next]_vars => TypeInv'
  BY NextType
<1> QED
  BY <1>1, <1>2, PTL DEF Spec

(***************************************************************************)
(* The types of the model of multi-page blobs: every item lies whole on    *)
(* its page, also after copyItems() has moved it (src/src/nvs_page.cpp).   *)
(***************************************************************************)
THEOREM BlobTypeCorrect == Spec => []BlobTypeOK
<1>1. TypeInv => BlobTypeOK
  <2> SUFFICES ASSUME TypeInv PROVE BlobTypeOK
    OBVIOUS
  <2>1. \A p \in Sector : WholeItems(p)
    BY OnPage DEF TypeInv, PagesInv, PageInv
  <2> QED
    BY <2>1 DEF TypeInv, PagesInv, LocalsType, BlobTypeOK
<1> QED
  BY <1>1, TypeHolds, PTL

-----------------------------------------------------------------------------
(***************************************************************************)
(* Room.  The index always fits: the page is left with an entry for it, or *)
(* another one is requested, which is blank or was not full.               *)
(***************************************************************************)
RoomForIndex ==
  pc = "index" => mState[Back] # "FULL" /\ FirstEmpty(entry[Back]) < ENTRY_COUNT

\* A page that requestNewPage() activates has an empty entry.
LEMMA NewPageRoom ==
  ASSUME PagesInv, ~NewPageRefused, RequestNewPage
  PROVE  mState'[Back'] # "FULL" /\ FirstEmpty(entry'[Back']) < ENTRY_COUNT
<1> DEFINE new == Head(mFreePageList)
           old == mPageList[MostUnused]
<1>1. /\ BlankPageAdded \/ PageMoved(old, new)
      /\ new \in Sector /\ new \in Range(mFreePageList)
  BY RequestNewPagePages
<1> HIDE DEF old
<1>2. CASE BlankPageAdded
  <2>1. mState'[Back'] = "UNINITIALIZED" /\ entry'[Back'] = BlankPage
    BY <1>1, <1>2 DEF BlankPageAdded, PagesInv
  <2>2. FirstEmpty(BlankPage) = 0
    BY BlankProperty DEF BlankPage
  <2> QED
    BY <2>1, <2>2, EntryCountAssumption
<1>3. CASE PageMoved(old, new)
  <2>1. /\ Back' = new /\ mState'[new] # "FULL" /\ entry'[new] = Compact(entry[old])
        /\ old \in Sector /\ Used(old) # ENTRY_COUNT
    BY <1>3 DEF PageMoved
  <2>2. PageInv(entry[old]) /\ Used(old) = Cardinality(UsedEntries(entry[old]))
    BY <2>1, OnPage DEF PagesInv
  <2>3. /\ FirstEmpty(Compact(entry[old])) = Cardinality(UsedEntries(entry[old]))
        /\ Cardinality(UsedEntries(entry[old])) \in 0 .. ENTRY_COUNT
    BY <2>2, CompactEntries, CompactProperty
  <2> QED
    BY <2>1, <2>2, <2>3, EntryCountAssumption
<1> QED
  BY <1>1, <1>2, <1>3

\* So has the last page after a chunk that did not take all of its tailroom.
LEMMA WriteChunkRoom ==
  ASSUME TypeInv, WriteChunk
  PROVE  RoomForIndex'
<1> SUFFICES ASSUME pc' = "index"
             PROVE  mState'[Back'] # "FULL" /\ FirstEmpty(entry'[Back']) < ENTRY_COUNT
  BY DEF RoomForIndex
<1> DEFINE e == entry[Back]
           w == Written(e, FirstEmpty(e), NewChunk)
<1>1. ChunkSize # Tailroom(Back)
  <2>1. pc' = IF GoOn(ChunkSize) THEN "full" ELSE "index"
    BY DEF WriteChunk, ChunkSize
  <2> QED
    BY <2>1 DEF GoOn
<1>2. /\ Back' = Back /\ mState'[Back] = "ACTIVE" /\ PagesInv'
      /\ entry' = [entry EXCEPT ![Back] = w] /\ Back \in Sector
  BY ChunkProperty, WriteBackPages, BackProperty DEF TypeInv
<1>3. entry'[Back] = w
  BY <1>2 DEF TypeInv, PagesInv
<1>4. PageInv(e) /\ NewChunk \in Item /\ FirstEmpty(e) + Span(NewChunk) <= ENTRY_COUNT
  BY ChunkProperty, OnPage DEF TypeInv, PagesInv
<1>5. PageInv(w) /\ \A j \in Index : w[j] = EMPTY <=> j >= FirstEmpty(e) + Span(NewChunk)
  BY <1>4, WrittenProperty
<1> DEFINE n == FirstEmpty(e) + Span(NewChunk)
<1>6. n \in Nat /\ n < ENTRY_COUNT
  <2>1. /\ ChunkSize \in Nat /\ ChunkSize <= Tailroom(Back) /\ Span(NewChunk) = 1 + ChunkSize
        /\ FirstEmpty(e) + 1 + Tailroom(Back) = ENTRY_COUNT /\ Tailroom(Back) \in Nat
    BY ChunkProperty
  <2>2. FirstEmpty(e) \in Nat
    BY <1>4, FirstEmptyProperty, EntryCountAssumption
  <2> QED
    BY <1>1, <2>1, <2>2, EntryCountAssumption
<1> HIDE DEF w, n
<1>7. n \in Index /\ w[n] = EMPTY
  <2>1. n \in Index
    BY <1>6, EntryCountAssumption DEF Index
  <2> QED
    BY <1>5, <1>6, <2>1 DEF n
<1>8. FirstEmpty(w) \in 0 .. ENTRY_COUNT /\ n >= FirstEmpty(w)
  BY <1>5, <1>7, FirstEmptyProperty
<1> QED
  BY <1>2, <1>3, <1>6, <1>8, EntryCountAssumption

\* Where each step leads.
LEMMA StepTo ==
  ASSUME [Next]_vars
  PROVE  /\ pc' = "index" => WriteChunk \/ NextPage \/ UNCHANGED vars
         /\ pc' = "skip" => SkipPage \/ UNCHANGED vars
         /\ pc' = "chunk" => Find \/ SkipToNewPage \/ NextPage \/ UNCHANGED vars
         /\ pc' = "cleanup" => NoTailroom \/ NextPage \/ Cleanup \/ UNCHANGED vars
         /\ pc' = "full" => WriteChunk \/ UNCHANGED vars
         /\ pc' = "next" => MarkFull \/ UNCHANGED vars
         /\ pc' = "eraseOld" => WriteIndex \/ UNCHANGED vars
         /\ pc' = "eraseIndex" => Read \/ EraseAny \/ WriteIndex \/ UNCHANGED vars
         /\ pc' = "dup" => RepairDuplicate \/ UNCHANGED vars
         /\ pc' = "load" => RepairDuplicate \/ Crash \/ UNCHANGED vars
         /\ pc' = "return" /\ ret' = "NOT_ENOUGH_SPACE" =>
              SkipToNewPage \/ Cleanup \/ UNCHANGED vars
<1>1. CASE Write
  BY <1>1 DEF Write, Find, SkipPage, SkipToNewPage, NoTailroom, WriteChunk, MarkFull, NextPage,
              WriteIndex, Cleanup, EraseOldFormat
<1>2. CASE Erase
  BY <1>2 DEF Erase, EraseAny, EraseIndex, EraseChunk, ChunksErased, ReadOldFormat
<1>3. CASE Load
  BY <1>3 DEF Load, RepairDuplicate, EraseOldVersion, EraseOrphan
<1>4. CASE Begin \/ Return \/ Read \/ Crash
  BY <1>4 DEF Begin, Return, Read, ReadOldFormat, Crash
<1> QED
  BY <1>1, <1>2, <1>3, <1>4 DEF Next

\* The pages at a step that changes nothing.
LEMMA Unchanged ==
  ASSUME UNCHANGED vars
  PROVE  UNCHANGED <<mPageList, mFreePageList, mState, entry, op, pc, ret, prevStart, nextStart,
                     tailroom, offset, usedPages, chunkNum>>
BY DEF vars, blobPageVars, localVars, eraseVars

LEMMA NextRoom ==
  ASSUME TypeInv, RoomForIndex, [Next]_vars
  PROVE  RoomForIndex'
<1> SUFFICES ASSUME pc' = "index" PROVE RoomForIndex'
  BY DEF RoomForIndex
<1>1. CASE WriteChunk
  BY <1>1, WriteChunkRoom
<1>2. CASE NextPage
  <2>1. ~NewPageRefused /\ RequestNewPage
    BY <1>2 DEF NextPage
  <2>2. mState'[Back'] # "FULL" /\ FirstEmpty(entry'[Back']) < ENTRY_COUNT
    BY <2>1, NewPageRoom DEF TypeInv
  <2> QED
    BY <2>2 DEF RoomForIndex
<1>3. CASE UNCHANGED vars
  BY <1>3, Unchanged DEF RoomForIndex, Back
<1> QED
  BY <1>1, <1>2, <1>3, StepTo

LEMMA IndexFits ==
  ASSUME TypeInv, RoomForIndex, pc = "index"
  PROVE  Fits(NewIndex)
<1>1. Span(NewIndex) = 1 /\ Back \in Sector /\ PageInv(entry[Back])
  BY NewIndexProperty, BackProperty DEF TypeInv
<1>2. NextFree(Back) = FirstEmpty(entry[Back]) /\ FirstEmpty(entry[Back]) \in 0 .. ENTRY_COUNT
  BY <1>1, OnPage, FirstEmptyProperty
<1> QED
  BY <1>1, <1>2, EntryCountAssumption DEF RoomForIndex, Fits

(***************************************************************************)
(* Two assertions of the code hold whatever the sizes: when the chunks of  *)
(* a blob are written there is room for its index (writeMultiPageBlob()),  *)
(* and load() leaves a free page (PageManager::load()).                    *)
(***************************************************************************)
THEOREM RoomHolds ==
  Spec => []((pc = "index" => Fits(NewIndex)) /\ mFreePageList # <<>>)
<1>1. Init => RoomForIndex
  BY DEF Init, RoomForIndex
<1>2. TypeInv /\ RoomForIndex /\ [Next]_vars => RoomForIndex'
  BY NextRoom
<1>3. TypeInv /\ RoomForIndex => (pc = "index" => Fits(NewIndex)) /\ mFreePageList # <<>>
  <2> SUFFICES ASSUME TypeInv, RoomForIndex
               PROVE  (pc = "index" => Fits(NewIndex)) /\ mFreePageList # <<>>
    OBVIOUS
  <2> QED
    BY IndexFits DEF TypeInv, PagesInv
<1> QED
  BY <1>1, <1>2, <1>3, TypeHolds, PTL DEF Spec

-----------------------------------------------------------------------------
(***************************************************************************)
(* Refusals.  writeMultiPageBlob() gives up when no page was left but the  *)
(* free one: the first page it skips has less room than a blank one, and   *)
(* the pages it goes on to are blank as long as there are two.             *)
(***************************************************************************)
RefusalInv ==
  /\ pc = "skip" => tailroom < TailroomMin
  /\ pc = "chunk" /\ usedPages # <<>> => Len(mFreePageList) = 1 \/ mState[Back] = "UNINITIALIZED"
  /\ pc = "cleanup" => Len(mFreePageList) = 1
  /\ RefusedForSpace

\* No page is refused while there are two free ones.
LEMMA RefusedWithOne ==
  ASSUME PagesInv, NewPageRefused
  PROVE  Len(mFreePageList) = 1
BY DEF PagesInv, NewPageRefused

\* What a new page leaves.
LEMMA NewPageLeaves ==
  ASSUME PagesInv, ~NewPageRefused, RequestNewPage
  PROVE  \/ mState'[Back'] = "UNINITIALIZED" /\ Tailroom(Back)' = CHUNK_MAX_SIZE
         \/ Len(mFreePageList)' = 1
<1>1. CASE BlankPageAdded
  <2>1. Back' = Head(mFreePageList) /\ mState'[Back'] = "UNINITIALIZED"
    BY <1>1, RequestNewPagePages DEF BlankPageAdded, PagesInv
  <2> QED
    BY <2>1 DEF Tailroom
<1>2. ASSUME NEW old, NEW new, PageMoved(old, new) PROVE Len(mFreePageList)' = 1
  BY <1>2 DEF PageMoved
<1> QED
  BY <1>1, <1>2, RequestNewPagePages

LEMMA NextRefusal ==
  ASSUME TypeInv, RefusalInv, [Next]_vars, TailroomMin > 0, \A v \in Blob : v # <<>>
  PROVE  RefusalInv'
<1>1. pc' = "skip" => tailroom' < TailroomMin
  BY StepTo, Unchanged DEF SkipPage, TailroomTooSmall, RefusalInv
<1>2. ASSUME pc' = "chunk", usedPages' # <<>>
      PROVE  Len(mFreePageList') = 1 \/ mState'[Back'] = "UNINITIALIZED"
  <2>1. CASE Find \/ SkipToNewPage
    BY <1>2, <2>1 DEF Find, SkipToNewPage, localVars, TypeInv, BlobControl
  <2>2. CASE NextPage
    <3>1. ~NewPageRefused /\ RequestNewPage
      BY <1>2, <2>2 DEF NextPage
    <3> QED
      BY <3>1, NewPageLeaves DEF TypeInv
  <2>3. CASE UNCHANGED vars
    BY <1>2, <2>3, Unchanged DEF RefusalInv, Back
  <2> QED
    BY <1>2, <2>1, <2>2, <2>3, StepTo
<1>3. ASSUME pc' = "cleanup" PROVE Len(mFreePageList') = 1
  <2>1. CASE NoTailroom
    <3>1. /\ pc = "chunk" /\ ~TailroomTooSmall /\ Tailroom(Back) = 0
          /\ UNCHANGED mFreePageList
      BY <2>1 DEF NoTailroom, blobPageVars
    <3>2. Len(op.val) > 0
      <4>1. op.val \in Blob /\ op.val \in Seq(Datum) /\ Len(op.val) \in Nat
        BY <3>1, RequestProperty DEF TypeInv, LocalsType, BlobControl, SetPC
      <4> QED
        BY <4>1
    <3>3. usedPages # <<>>
      BY <3>1, <3>2 DEF TailroomTooSmall
    <3>4. mState[Back] # "UNINITIALIZED"
      BY <3>1, BackProperty, TailroomProperty, EntryCountAssumption DEF TypeInv, CHUNK_MAX_SIZE
    <3> QED
      BY <3>1, <3>3, <3>4 DEF RefusalInv
  <2>2. CASE NextPage
    <3>1. NewPageRefused /\ UNCHANGED mFreePageList
      BY <1>3, <2>2 DEF NextPage, blobPageVars
    <3> QED
      BY <3>1, RefusedWithOne DEF TypeInv
  <2>3. CASE Cleanup
    BY <1>3, <2>3 DEF Cleanup, blobPageVars, EraseItem, RefusalInv
  <2>4. CASE UNCHANGED vars
    BY <1>3, <2>4, Unchanged DEF RefusalInv
  <2> QED
    BY <1>3, <2>1, <2>2, <2>3, <2>4, StepTo
<1>4. ASSUME pc' = "return", op'.name = "set", ret' = "NOT_ENOUGH_SPACE"
      PROVE  Len(mFreePageList') = 1
  <2>1. CASE SkipToNewPage
    <3>1. CASE NewPageRefused
      BY <2>1, <3>1, RefusedWithOne DEF SkipToNewPage, blobPageVars, TypeInv
    <3>2. CASE ~NewPageRefused
      <4>1. RequestNewPage /\ NotImproving /\ pc = "skip"
        BY <1>4, <2>1, <3>2 DEF SkipToNewPage
      <4>2. tailroom < TailroomMin /\ tailroom = Tailroom(Back)' /\ tailroom \in Nat
        BY <4>1 DEF RefusalInv, NotImproving, TypeInv, LocalsType
      <4>3. Tailroom(Back)' # CHUNK_MAX_SIZE
        BY <4>2, PartitionAssumption, EntryCountAssumption DEF CHUNK_MAX_SIZE
      <4> QED
        BY <3>2, <4>1, <4>3, NewPageLeaves DEF TypeInv
    <3> QED
      BY <3>1, <3>2
  <2>2. CASE Cleanup
    BY <1>4, <2>2 DEF Cleanup, blobPageVars, EraseItem, RefusalInv
  <2>3. CASE UNCHANGED vars
    BY <1>4, <2>3, Unchanged DEF RefusalInv, RefusedForSpace
  <2> QED
    BY <1>4, <2>1, <2>2, <2>3, StepTo
<1>5. RefusedForSpace'
  BY <1>4 DEF RefusedForSpace
<1> QED
  BY <1>1, <1>2, <1>3, <1>5 DEF RefusalInv

(***************************************************************************)
(* A set of a blob is refused for lack of space only when the one page is  *)
(* left that is kept for moving items (nvs.h: ESP_ERR_NVS_NOT_ENOUGH_SPACE *)
(* "if there is not enough space in the underlying storage").  Of a blob   *)
(* of length 0 that is not true: it needs a tailroom of one entry all the  *)
(* same.                                                                   *)
(***************************************************************************)
THEOREM BlobRefusedForSpace ==
  ASSUME TailroomMin > 0, \A v \in Blob : v # <<>>
  PROVE  Spec => []RefusedForSpace
<1>1. Init => RefusalInv
  BY DEF Init, RefusalInv, RefusedForSpace
<1>2. TypeInv /\ RefusalInv /\ [Next]_vars => RefusalInv'
  BY NextRefusal
<1>3. RefusalInv => RefusedForSpace
  BY DEF RefusalInv
<1> QED
  BY <1>1, <1>2, <1>3, TypeHolds, PTL DEF Spec

\* The first item of a key, that decides what eraseItem() erases.
LEMMA FirstOfKey ==
  ASSUME PagesInv, NEW k, {n \in DOMAIN mPageList : ItemsOf(mPageList[n], k) # {}} # {}
  PROVE  LET p == mPageList[Min({n \in DOMAIN mPageList : ItemsOf(mPageList[n], k) # {}})]
         IN  /\ p \in Sector /\ Min(ItemsOf(p, k)) \in Items(p)
             /\ entry[p][Min(ItemsOf(p, k))].key = k
<1> DEFINE found == {n \in DOMAIN mPageList : ItemsOf(mPageList[n], k) # {}}
           p == mPageList[Min(found)]
<1>1. found \in SUBSET Nat /\ \A n \in found : mPageList[n] \in Sector
  BY BackProperty DEF PagesInv
<1>2. \A n \in found : ItemsOf(mPageList[n], k) # {}
  OBVIOUS
<1>3. found # {}
  OBVIOUS
<1> HIDE DEF found
<1>4. Min(found) \in found
  BY <1>1, <1>3, MinProperty
<1>5. p \in Sector /\ ItemsOf(p, k) # {}
  BY <1>1, <1>2, <1>4
<1> HIDE DEF p
<1>6. ItemsOf(p, k) \in SUBSET Items(p) /\ Items(p) \in SUBSET Nat
  BY <1>5, OnPage, EntryProperty DEF ItemsOf, PagesInv
<1>7. Min(ItemsOf(p, k)) \in ItemsOf(p, k)
  BY <1>5, <1>6, MinProperty
<1>8. Min(ItemsOf(p, k)) \in Items(p) /\ entry[p][Min(ItemsOf(p, k))].key = k
  BY <1>7 DEF ItemsOf
<1> QED
  BY <1>5, <1>8, Zenon DEF p, found

-----------------------------------------------------------------------------
(***************************************************************************)
(* What a step does to the pages.  Only the writing of a chunk or of an    *)
(* index adds an item; all other steps erase one, move items, or leave     *)
(* them where they are.                                                    *)
(***************************************************************************)

\* What Storage::findItem() found.
LEMMA FoundPlace ==
  ASSUME PagesInv, NEW kind, NEW k, NEW chunk, NEW ver, FindPage(kind, k, chunk, ver) # NoPage
  PROVE  LET p == FindPage(kind, k, chunk, ver)
             i == FindOnPage(p, kind, k, chunk, ver)
         IN  /\ p \in Sector /\ i \in Items(p)
             /\ entry[p][i].kind = kind /\ entry[p][i].key = k /\ entry[p][i].chunk = chunk
             /\ kind = "BLOB_IDX" /\ ver # VER_ANY => entry[p][i].chunkStart = ver
<1> DEFINE p == FindPage(kind, k, chunk, ver)
<1>1. p \in Sector /\ FindOnPage(p, kind, k, chunk, ver) # NONE
  BY FindPageProperty
<1> HIDE DEF p
<1>2. LET i == FindOnPage(p, kind, k, chunk, ver)
      IN  /\ i \in Items(p)
          /\ entry[p][i].kind = kind /\ entry[p][i].key = k /\ entry[p][i].chunk = chunk
          /\ kind = "BLOB_IDX" /\ ver # VER_ANY => entry[p][i].chunkStart = ver
  BY <1>1, FindOnPageProperty
<1> QED
  BY <1>1, <1>2, Zenon DEF p

ItemErased == \E p \in Sector : \E i \in Items(p) : EraseItem(p, i)

LEMMA PageSteps ==
  ASSUME TypeInv, [Next]_vars
  PROVE  \/ UNCHANGED blobPageVars
         \/ ItemErased
         \/ MarkBackFull
         \/ ~NewPageRefused /\ RequestNewPage
         \/ LoadLists
         \/ WriteChunk
         \/ WriteIndex /\ Fits(NewIndex) /\ WriteBack(NewIndex)
<1>1. ASSUME NEW kind, NEW k, NEW chunk, NEW ver,
             LET p == FindPage(kind, k, chunk, ver)
             IN  p # NoPage /\ EraseItem(p, FindOnPage(p, kind, k, chunk, ver))
      PROVE  ItemErased
  <2> DEFINE p == FindPage(kind, k, chunk, ver)
             i == FindOnPage(p, kind, k, chunk, ver)
  <2>1. p \in Sector /\ i \in Items(p) /\ EraseItem(p, i)
    BY <1>1, FoundPlace DEF TypeInv
  <2> QED
    BY <2>1 DEF ItemErased
<1>2. CASE SkipPage \/ MarkFull
  BY <1>2 DEF SkipPage, MarkFull
<1>3. CASE SkipToNewPage \/ NextPage
  BY <1>3 DEF SkipToNewPage, NextPage
<1>4. CASE WriteIndex
  BY <1>4 DEF WriteIndex, NewIndex
<1>5. CASE Cleanup
  <2> DEFINE p == usedPages[chunkNum + 1]
             i == FindOnPage(p, "BLOB_DATA", op.key, chunkNum, VER_ANY)
  <2>1. UNCHANGED blobPageVars \/ (chunkNum # Len(usedPages) /\ i # NONE /\ EraseItem(p, i))
    BY <1>5 DEF Cleanup
  <2>2. chunkNum # Len(usedPages) => p \in Sector
    <3>1. chunkNum \in Nat /\ chunkNum <= Len(usedPages) /\ usedPages \in Seq(Sector)
      BY <1>5 DEF Cleanup, TypeInv, LocalsType, BlobControl
    <3> QED
      BY <3>1
  <2> HIDE DEF p
  <2>3. p \in Sector /\ i # NONE => i \in Items(p)
    BY FoundItems DEF TypeInv
  <2> HIDE DEF i
  <2> QED
    BY <2>1, <2>2, <2>3 DEF ItemErased
<1>6. CASE EraseOldFormat
  BY <1>1, <1>6 DEF EraseOldFormat, OldBlobPage
<1>7. CASE EraseAny
  <2> DEFINE found == {n \in DOMAIN mPageList : ItemsOf(mPageList[n], op.key) # {}}
             p == mPageList[Min(found)]
             i == Min(ItemsOf(p, op.key))
  <2>1. UNCHANGED blobPageVars \/ (found # {} /\ EraseItem(p, i))
    BY <1>7 DEF EraseAny
  <2>2. found # {} => p \in Sector /\ i \in Items(p)
    BY FirstOfKey, Zenon DEF TypeInv
  <2> HIDE DEF found, p, i
  <2> QED
    BY <2>1, <2>2 DEF ItemErased
<1>8. CASE EraseIndex
  <2> DEFINE ver == IF op.name = "set" THEN prevStart ELSE VER_ANY
             p == FindPage("BLOB_IDX", op.key, CHUNK_ANY, ver)
  <2>1. \/ UNCHANGED blobPageVars
        \/ p # NoPage /\ EraseItem(p, FindOnPage(p, "BLOB_IDX", op.key, CHUNK_ANY, ver))
    BY <1>8 DEF EraseIndex
  <2> HIDE DEF ver
  <2> QED
    BY <1>1, <2>1
<1>9. CASE EraseChunk
  BY <1>1, <1>9 DEF EraseChunk, ChunkPage
<1>10. CASE RepairDuplicate
  <2> DEFINE p == Min(ActiveDuplicates)
             i == Superseded(p, Min(Duplicates(p)))
  <2>1. UNCHANGED blobPageVars \/ (ActiveDuplicates # {} /\ EraseItem(p, i))
    BY <1>10 DEF RepairDuplicate
  <2>2. ActiveDuplicates # {} => p \in Sector /\ i \in Items(p)
    BY DuplicateProperty DEF TypeInv
  <2> HIDE DEF p, i
  <2> QED
    BY <2>1, <2>2 DEF ItemErased
<1>11. CASE EraseOldVersion
  <2>1. ASSUME NEW x, NEW kind, Alike(x, kind) # {}, EraseAlike(x, kind) PROVE ItemErased
    <3> DEFINE p == mPageList[Min(Alike(x, kind))]
               i == FindOnPage(p, kind, x.key, x.chunk, VER_ANY)
    <3>1. EraseItem(p, i)
      BY <2>1 DEF EraseAlike
    <3>2. p \in Sector /\ i \in Items(p)
      BY <2>1, AlikeProperty DEF TypeInv
    <3> HIDE DEF p, i
    <3> QED
      BY <3>1, <3>2 DEF ItemErased
  <2>2. \/ UNCHANGED blobPageVars
        \/ \E x, kind : Alike(x, kind) # {} /\ EraseAlike(x, kind)
    BY <1>11 DEF EraseOldVersion
  <2> QED
    BY <2>1, <2>2
<1>12. CASE EraseOrphan
  <2> DEFINE found == {n \in DOMAIN mPageList : Orphans(mPageList[n]) # {}}
             p == mPageList[Min(found)]
             i == Min(Orphans(p))
  <2>1. UNCHANGED blobPageVars \/ (found # {} /\ EraseItem(p, i))
    BY <1>12 DEF EraseOrphan
  <2>2. found # {} => p \in Sector /\ i \in Items(p)
    BY OrphanProperty, Zenon DEF TypeInv
  <2> HIDE DEF found, p, i
  <2> QED
    BY <2>1, <2>2 DEF ItemErased
<1>13. CASE Begin \/ Return \/ Read \/ Find \/ NoTailroom \/ ChunksErased
  BY <1>13 DEF Begin, Return, Read, Find, NoTailroom, ChunksErased
<1>14. CASE Crash
  BY <1>14 DEF Crash
<1>15. CASE UNCHANGED vars
  BY <1>15 DEF vars
<1> QED
  BY <1>2, <1>3, <1>4, <1>5, <1>6, <1>7, <1>8, <1>9, <1>10, <1>11, <1>12, <1>13, <1>14, <1>15,
     Zenon DEF Next, Write, Erase, Load

-----------------------------------------------------------------------------
(***************************************************************************)
(* Numbers.  The chunks of a blob are numbered from the start of its       *)
(* version; a number that reached CHUNK_ANY would be taken for an index.   *)
(* Every chunk after which another one follows fills its page, so there    *)
(* are fewer chunks than pages.                                            *)
(***************************************************************************)
NotFull == {p \in Sector : Used(p) # ENTRY_COUNT}

MoreChunks ==
  \/ pc = "chunk" /\ usedPages # <<>>
  \/ pc \in {"full", "next"} /\ offset < Len(op.val)

CountInv ==
  /\ MoreChunks => Len(usedPages) + Cardinality(NotFull) <= PageCount + 1
  /\ pc = "chunk" /\ usedPages # <<>> => \A i \in Index : entry[Back][i] # ERASED

NumberInv ==
  \A p \in Sector : \A i \in Items(p) :
    entry[p][i].kind = "BLOB_DATA" => entry[p][i].chunk # CHUNK_ANY

\* A page is used up when no entry of it is empty or erased.
LEMMA UsedUp ==
  ASSUME NEW e, PageInv(e)
  PROVE  Cardinality(UsedEntries(e)) = ENTRY_COUNT <=> \A i \in Index : e[i] \notin {EMPTY, ERASED}
<1> DEFINE U == UsedEntries(e)
<1>1. IsFiniteSet(Index) /\ Cardinality(Index) = ENTRY_COUNT
  BY EntryCountAssumption, FS_Interval DEF Index
<1>2. U \in SUBSET Index
  BY DEF UsedEntries
<1>3. U = Index <=> \A i \in Index : e[i] \notin {EMPTY, ERASED}
  BY DEF UsedEntries
<1> HIDE DEF U
<1>4. Cardinality(U) = Cardinality(Index) <=> U = Index
  BY <1>1, <1>2, FS_Subset
<1> QED
  BY <1>1, <1>3, <1>4 DEF U

LEMMA NotFullProperty ==
  ASSUME PagesInv
  PROVE  /\ NotFull \in SUBSET Sector /\ IsFiniteSet(NotFull)
         /\ Cardinality(NotFull) \in Nat /\ Cardinality(NotFull) <= PageCount
         /\ \A p \in Sector : p \in NotFull <=> \E i \in Index : entry[p][i] \in {EMPTY, ERASED}
<1>1. IsFiniteSet(Sector) /\ Cardinality(Sector) = PageCount
  BY PageCountAssumption, FS_Interval DEF Sector
<1>2. NotFull \in SUBSET Sector
  BY DEF NotFull
<1>3. IsFiniteSet(NotFull) /\ Cardinality(NotFull) <= PageCount
  BY <1>1, <1>2, FS_Subset
<1>4. Cardinality(NotFull) \in Nat
  BY <1>3, FS_CardinalityType
<1>5. ASSUME NEW p \in Sector
      PROVE  p \in NotFull <=> \E i \in Index : entry[p][i] \in {EMPTY, ERASED}
  <2>1. Used(p) = Cardinality(UsedEntries(entry[p])) /\ PageInv(entry[p])
    BY OnPage DEF PagesInv
  <2>2. Used(p) = ENTRY_COUNT <=> \A i \in Index : entry[p][i] \notin {EMPTY, ERASED}
    BY <2>1, UsedUp
  <2> QED
    BY <2>2 DEF NotFull
<1> QED
  BY <1>2, <1>3, <1>4, <1>5

\* The pages of the next state are whole.
LEMMA PagesPrimed ==
  ASSUME PagesInv'
  PROVE  /\ \A p \in Sector : PageInv(entry'[p])
         /\ entry' \in [Sector -> [Index -> Item \cup {EMPTY, ERASED, BODY}]]
<1>1. \A p \in Sector : PageInv(entry[p])'
  BY DEF PagesInv
<1>2. \A p \in Sector : PageInv(entry'[p])
  BY <1>1 DEF PageInv, Whole, NoGap, ItemsIn
<1> QED
  BY <1>2 DEF PagesInv

\* A blank page is not full.
LEMMA BlankNotFull ==
  ASSUME PagesInv, NEW p \in Sector, entry[p] = BlankPage
  PROVE  p \in NotFull
<1>1. 0 \in Index
  BY EntryCountAssumption DEF Index
<1> QED
  BY <1>1, NotFullProperty DEF BlankPage

\* While the current page has room there are two that are not full.
LEMMA TwoNotFull ==
  ASSUME TypeInv, pc = "chunk", Tailroom(Back) > 0
  PROVE  Back \in NotFull /\ Cardinality(NotFull) >= 2
<1> DEFINE free == Head(mFreePageList)
           n == FirstEmpty(entry[Back])
<1>1. Back \in Sector /\ Back \notin Range(mFreePageList) /\ PageInv(entry[Back])
  BY BackProperty DEF TypeInv
<1>2. Back \in NotFull
  <2>1. n \in 0 .. ENTRY_COUNT /\ n + 1 + Tailroom(Back) = ENTRY_COUNT /\ Tailroom(Back) \in Nat
    BY <1>1, TailroomProperty, EntryCountAssumption DEF TypeInv, CHUNK_MAX_SIZE
  <2>2. n \in Index
    BY <2>1, EntryCountAssumption DEF Index
  <2>3. entry[Back][n] = EMPTY
    BY <1>1, <2>1, <2>2, FirstEmptyProperty
  <2> QED
    BY <1>1, <2>2, <2>3, NotFullProperty DEF TypeInv
<1>3. free \in Sector /\ free \in Range(mFreePageList) /\ entry[free] = BlankPage
  <2>1. free = mFreePageList[1] /\ 1 \in DOMAIN mFreePageList
    BY DEF TypeInv, PagesInv
  <2>2. free \in Range(mFreePageList)
    BY <2>1 DEF Range
  <2> QED
    BY <2>1, <2>2 DEF TypeInv, PagesInv
<1>4. free \in NotFull /\ free # Back
  BY <1>1, <1>3, BlankNotFull DEF TypeInv
<1> HIDE DEF free
<1>5. IsFiniteSet(NotFull) /\ Cardinality({free, Back}) = 2 /\ {free, Back} \in SUBSET NotFull
  <2>1. IsFiniteSet({Back}) /\ Cardinality({Back}) = 1 /\ free \notin {Back}
    BY <1>4, FS_Singleton
  <2>2. Cardinality({Back} \cup {free}) = 2
    BY <2>1, FS_AddElement
  <2>3. {Back} \cup {free} = {free, Back}
    OBVIOUS
  <2> QED
    BY <1>2, <1>4, <2>2, <2>3, NotFullProperty DEF TypeInv
<1>6. Cardinality({free, Back}) <= Cardinality(NotFull)
  BY <1>5, FS_Subset
<1> QED
  BY <1>2, <1>5, <1>6, NotFullProperty DEF TypeInv

\* requestNewPage() does not change which pages are full: the page it moves is not.
LEMMA NewPageNotFull ==
  ASSUME PagesInv, ~NewPageRefused, RequestNewPage
  PROVE  NotFull' = NotFull /\ \A i \in Index : entry'[Back'][i] # ERASED
<1> DEFINE new == Head(mFreePageList)
           old == mPageList[MostUnused]
<1>1. /\ BlankPageAdded \/ PageMoved(old, new)
      /\ PagesInv'
      /\ new \in Sector /\ new \in Range(mFreePageList)
  BY RequestNewPagePages
<1>2. entry[new] = BlankPage
  BY <1>1 DEF PagesInv
<1> HIDE DEF old, new
<1>3. CASE BlankPageAdded
  <2>1. entry' = entry /\ Back' = new
    BY <1>3 DEF BlankPageAdded, new
  <2>2. \A i \in Index : entry[new][i] = EMPTY
    BY <1>2 DEF BlankPage
  <2>3. NotFull' = NotFull
    BY <2>1 DEF NotFull, Used
  <2> QED
    BY <2>1, <2>2, <2>3, EntryAssumption
<1>4. CASE PageMoved(old, new)
  <2>1. /\ old \in Sector /\ old # new /\ Used(old) # ENTRY_COUNT /\ Back' = new
        /\ entry'[old] = BlankPage /\ entry'[new] = Compact(entry[old])
        /\ \A q \in Sector : q \notin {old, new} => entry'[q] = entry[q]
    BY <1>4 DEF PageMoved
  <2>2. PageInv(entry[old])
    BY <2>1 DEF PagesInv
  <2>3. \A i \in Index : entry'[new][i] # ERASED
    BY <2>1, <2>2, CompactProperty
  <2>4. /\ \A p \in Sector : p \in NotFull <=> \E i \in Index : entry[p][i] \in {EMPTY, ERASED}
        /\ \A p \in Sector : p \in NotFull' <=> \E i \in Index : entry'[p][i] \in {EMPTY, ERASED}
        /\ NotFull \in SUBSET Sector /\ NotFull' \in SUBSET Sector
    <3>1. \A p \in Sector : PageInv(entry'[p]) /\ Used(p)' = Cardinality(UsedEntries(entry'[p]))
      BY <1>1, PagesPrimed DEF Used, UsedEntries
    <3>2. \A p \in Sector : Used(p)' = ENTRY_COUNT <=> \A i \in Index : entry'[p][i] \notin {EMPTY, ERASED}
      BY <3>1, UsedUp
    <3>3. NotFull' = {p \in Sector : Used(p)' # ENTRY_COUNT}
      BY DEF NotFull
    <3> QED
      BY <3>2, <3>3, NotFullProperty
  <2>5. old \in NotFull /\ new \in NotFull
    BY <1>1, <1>2, <2>1, BlankNotFull DEF NotFull
  <2>6. old \in NotFull'
    <3>1. 0 \in Index
      BY EntryCountAssumption DEF Index
    <3> QED
      BY <2>1, <2>4, <3>1 DEF BlankPage
  <2>7. new \in NotFull'
    <3> DEFINE n == Cardinality(UsedEntries(entry[old]))
    <3>1. n \in 0 .. ENTRY_COUNT /\ n # ENTRY_COUNT /\ FirstEmpty(Compact(entry[old])) = n
          /\ PageInv(Compact(entry[old]))
      BY <2>1, <2>2, OnPage, CompactEntries, CompactProperty
    <3> HIDE DEF n
    <3>2. n \in Index
      BY <3>1, EntryCountAssumption DEF Index
    <3>3. Compact(entry[old])[n] = EMPTY
      BY <3>1, <3>2, FirstEmptyProperty
    <3> QED
      BY <1>1, <2>1, <2>4, <3>2, <3>3
  <2>8. \A p \in Sector : p \in NotFull <=> p \in NotFull'
    BY <2>1, <2>4, <2>5, <2>6, <2>7
  <2> QED
    BY <2>1, <2>3, <2>4, <2>8
<1> QED
  BY <1>1, <1>3, <1>4

\* A chunk that is not the last uses its page up, except perhaps the first.
LEMMA WriteChunkCount ==
  ASSUME TypeInv, CountInv, WriteChunk, offset' < Len(op.val)
  PROVE  Len(usedPages') + Cardinality(NotFull') <= PageCount + 1
<1> DEFINE e == entry[Back]
           w == Written(e, FirstEmpty(e), NewChunk)
<1>1. /\ Len(usedPages') = Len(usedPages) + 1 /\ Len(usedPages) \in Nat
      /\ ChunkSize = Tailroom(Back) /\ ChunkSize \in Nat
      /\ FirstEmpty(e) + Span(NewChunk) = ENTRY_COUNT
  <2>1. /\ usedPages' = Append(usedPages, Back) /\ Len(usedPages) \in Nat /\ Back \in Sector
        /\ ChunkSize \in Nat /\ offset' = offset + ChunkSize
        /\ ChunkSize = Tailroom(Back) \/ offset + ChunkSize = Len(op.val)
        /\ Span(NewChunk) = 1 + ChunkSize /\ FirstEmpty(e) + 1 + Tailroom(Back) = ENTRY_COUNT
        /\ Tailroom(Back) \in Nat /\ Len(op.val) \in Nat
    BY ChunkProperty
  <2>2. usedPages \in Seq(Sector) /\ offset \in Nat
    BY DEF TypeInv, LocalsType
  <2>3. PageInv(e)
    BY BackProperty DEF TypeInv
  <2>4. FirstEmpty(e) \in Nat
    BY <2>3, FirstEmptyProperty, EntryCountAssumption
  <2>5. ChunkSize = Tailroom(Back)
    BY <2>1, <2>2
  <2> HIDE DEF e
  <2> QED
    BY <2>1, <2>2, <2>4, <2>5
<1>2. /\ PagesInv' /\ Back' = Back /\ Back \in Sector /\ PageInv(e) /\ NewChunk \in Item
      /\ entry' = [entry EXCEPT ![Back] = w]
  BY ChunkProperty, WriteBackPages, BackProperty DEF TypeInv
<1>3. /\ \A j \in Index : w[j] = EMPTY <=> j >= FirstEmpty(e) + Span(NewChunk)
      /\ \A j \in Index : w[j] = ERASED => e[j] = ERASED
      /\ PageInv(w)
  <2> HIDE DEF e
  <2>1. FirstEmpty(e) + Span(NewChunk) <= ENTRY_COUNT
    BY <1>1, EntryCountAssumption
  <2> QED
    BY <1>2, <2>1, WrittenProperty
<1>4. \A j \in Index : w[j] # EMPTY
  <2> HIDE DEF w, e
  <2> QED
    BY <1>1, <1>3, EntryCountAssumption DEF Index
<1>5. /\ entry'[Back] = w /\ \A q \in Sector : q # Back => entry'[q] = entry[q]
  BY <1>2 DEF TypeInv, PagesInv
<1> HIDE DEF w, e
<1>6. CASE usedPages = <<>>
  <2>1. NotFull' \in SUBSET Sector
    BY DEF NotFull
  <2>2. IsFiniteSet(Sector) /\ Cardinality(Sector) = PageCount
    BY PageCountAssumption, FS_Interval DEF Sector
  <2>3. Cardinality(NotFull') <= PageCount /\ IsFiniteSet(NotFull')
    BY <2>1, <2>2, FS_Subset
  <2>4. Cardinality(NotFull') \in Nat
    BY <2>3, FS_CardinalityType
  <2> QED
    BY <1>1, <1>6, <2>3, <2>4, PageCountAssumption
<1>7. CASE usedPages # <<>>
  <2>1. pc = "chunk" /\ Tailroom(Back) > 0
    BY DEF WriteChunk
  <2>2. /\ Len(usedPages) + Cardinality(NotFull) <= PageCount + 1
        /\ \A i \in Index : e[i] # ERASED
    BY <1>7, <2>1 DEF CountInv, MoreChunks, e
  <2>3. Cardinality(UsedEntries(entry'[Back])) = ENTRY_COUNT
    BY <1>3, <1>4, <1>5, <2>2, UsedUp
  <2>4. \A q \in Sector : q # Back => Cardinality(UsedEntries(entry'[q])) = Cardinality(UsedEntries(entry[q]))
    BY <1>5
  <2>5. NotFull' = NotFull \ {Back}
    <3>1. /\ NotFull' = {q \in Sector : Cardinality(UsedEntries(entry'[q])) # ENTRY_COUNT}
          /\ NotFull = {q \in Sector : Cardinality(UsedEntries(entry[q])) # ENTRY_COUNT}
      BY DEF NotFull, Used, UsedEntries
    <3> QED
      BY <2>3, <2>4, <3>1
  <2>6. Back \in NotFull /\ Cardinality(NotFull) >= 2
    BY <2>1, TwoNotFull
  <2>7. IsFiniteSet(NotFull) /\ Cardinality(NotFull) \in Nat
    BY NotFullProperty DEF TypeInv
  <2>8. Cardinality(NotFull') = Cardinality(NotFull) - 1
    BY <2>5, <2>6, <2>7, FS_RemoveElement
  <2> QED
    BY <1>1, <2>2, <2>7, <2>8, PageCountAssumption
<1> QED
  BY <1>6, <1>7

LEMMA NextCount ==
  ASSUME TypeInv, CountInv, [Next]_vars
  PROVE  CountInv'
<1>1. ASSUME UNCHANGED vars PROVE CountInv'
  <2>1. UNCHANGED <<mPageList, entry, op, pc, offset, usedPages>>
    BY <1>1, Unchanged
  <2>2. NotFull' = NotFull /\ Back' = Back
    BY <2>1 DEF NotFull, Used, Back
  <2> QED
    BY <2>1, <2>2 DEF CountInv, MoreChunks
<1>2. ASSUME NextPage, pc' = "chunk" PROVE CountInv'
  <2>1. ~NewPageRefused /\ RequestNewPage
    BY <1>2 DEF NextPage
  <2>2. pc = "next" /\ offset < Len(op.val) /\ UNCHANGED <<usedPages, offset>>
    BY <1>2 DEF NextPage, localVars
  <2>3. NotFull' = NotFull /\ \A i \in Index : entry'[Back'][i] # ERASED
    BY <2>1, NewPageNotFull DEF TypeInv
  <2> QED
    BY <1>2, <2>2, <2>3 DEF CountInv, MoreChunks
<1>3. ASSUME Find \/ SkipToNewPage, pc' = "chunk" PROVE CountInv'
  <2>1. usedPages' = <<>>
    BY <1>3 DEF Find, SkipToNewPage, localVars, TypeInv, BlobControl
  <2> QED
    BY <1>3, <2>1 DEF CountInv, MoreChunks
<1>4. ASSUME WriteChunk, pc' = "full" PROVE CountInv'
  <2>1. op' = op
    BY <1>4 DEF WriteChunk
  <2>2. offset' < Len(op.val) => Len(usedPages') + Cardinality(NotFull') <= PageCount + 1
    BY <1>4, WriteChunkCount
  <2> QED
    BY <1>4, <2>1, <2>2 DEF CountInv, MoreChunks
<1>5. ASSUME MarkFull, pc' = "next" PROVE CountInv'
  <2>1. pc = "full" /\ UNCHANGED <<op, offset, usedPages, entry>>
    BY <1>5 DEF MarkFull, MarkBackFull, localVars
  <2>2. NotFull' = NotFull
    BY <2>1 DEF NotFull, Used
  <2> QED
    BY <1>5, <2>1, <2>2 DEF CountInv, MoreChunks
<1>6. ASSUME pc' \notin {"chunk", "full", "next"} PROVE CountInv'
  BY <1>6 DEF CountInv, MoreChunks
<1> QED
  BY <1>1, <1>2, <1>3, <1>4, <1>5, <1>6, StepTo

\* There are fewer chunks than pages, and no chunk gets the number that stands for none.
LEMMA FewChunks ==
  ASSUME TypeInv, CountInv, WriteChunk
  PROVE  Len(usedPages) < PageCount
<1>1. pc = "chunk" /\ Tailroom(Back) > 0 /\ Len(usedPages) \in Nat
  BY DEF WriteChunk, TypeInv, LocalsType
<1>2. CASE usedPages = <<>>
  BY <1>2, PageCountAssumption
<1>3. CASE usedPages # <<>>
  <2>1. Len(usedPages) + Cardinality(NotFull) <= PageCount + 1
    BY <1>1, <1>3 DEF CountInv, MoreChunks
  <2>2. Cardinality(NotFull) >= 2 /\ Cardinality(NotFull) \in Nat
    BY <1>1, TwoNotFull, NotFullProperty DEF TypeInv
  <2> QED
    BY <1>1, <2>1, <2>2, PageCountAssumption
<1> QED
  BY <1>2, <1>3

LEMMA ChunkNumber ==
  ASSUME TypeInv, CountInv, WriteChunk, PageCount < 128
  PROVE  nextStart + Len(usedPages) # CHUNK_ANY
<1>1. nextStart \in {0, 128} /\ Len(usedPages) \in Nat
  BY DEF TypeInv, LocalsType
<1> QED
  BY <1>1, FewChunks, PageCountAssumption DEF CHUNK_ANY

-----------------------------------------------------------------------------
(***************************************************************************)
(* Places.  Where the items are, and what a step does to them: it takes    *)
(* one away, adds one, or moves them.                                      *)
(***************************************************************************)
Held == {v \in Sector \X Index : v[2] \in Items(v[1])}

At(v) == entry[v[1]][v[2]]

\* The items are among those that were there, wherever they are now.
NothingNew ==
  \E f : /\ \A v \in Held' : f[v] \in Held /\ At(v)' = At(f[v])
         /\ \A v, w \in Held' : f[v] = f[w] => v = w

LEMMA HeldProperty ==
  ASSUME PagesInv
  PROVE  /\ \A v \in Held : At(v) \in Item /\ v[1] \in Sector /\ v[2] \in Index /\ v = <<v[1], v[2]>>
         /\ \A p \in Sector : \A i \in Items(p) : <<p, i>> \in Held
<1>1. \A p \in Sector : \A i \in Items(p) : i \in Index /\ entry[p][i] \in Item
  BY OnPage, EntryProperty DEF PagesInv
<1> QED
  BY <1>1 DEF Held, At

LEMMA SameNothingNew ==
  ASSUME entry' = entry
  PROVE  Held' = Held /\ (\A v : At(v)' = At(v)) /\ NothingNew
<1>1. Held' = Held /\ \A v : At(v)' = At(v)
  BY DEF Held, Items, At
<1> DEFINE f == [v \in Held |-> v]
<1>2. /\ \A v \in Held' : f[v] \in Held /\ At(v)' = At(f[v])
      /\ \A v, w \in Held' : f[v] = f[w] => v = w
  BY <1>1
<1> QED
  BY <1>1, <1>2 DEF NothingNew

LEMMA EraseHeld ==
  ASSUME PagesInv, NEW p \in Sector, NEW i \in Items(p), EraseItem(p, i)
  PROVE  Held' = Held \ {<<p, i>>} /\ (\A v \in Held' : At(v)' = At(v)) /\ NothingNew
<1>1. /\ \A q \in Sector : ItemsIn(entry'[q]) = ItemsIn(entry[q]) \ (IF q = p THEN {i} ELSE {})
      /\ \A q \in Sector : \A j \in ItemsIn(entry'[q]) : entry'[q][j] = entry[q][j]
  BY EraseItemPages
<1>2. /\ Held = {v \in Sector \X Index : v[2] \in ItemsIn(entry[v[1]])}
      /\ Held' = {v \in Sector \X Index : v[2] \in ItemsIn(entry'[v[1]])}
  BY DEF Held, Items, ItemsIn
<1>3. \A v \in Sector \X Index : v[2] \in ItemsIn(entry'[v[1]]) <=>
                                   v[2] \in ItemsIn(entry[v[1]]) /\ v # <<p, i>>
  BY <1>1
<1>4. Held' = Held \ {<<p, i>>}
  BY <1>2, <1>3
<1>5. \A v \in Held' : At(v)' = At(v)
  BY <1>1, <1>2 DEF At
<1> DEFINE f == [v \in Held |-> v]
<1>6. /\ \A v \in Held' : f[v] \in Held /\ At(v)' = At(f[v])
      /\ \A v, w \in Held' : f[v] = f[w] => v = w
  BY <1>4, <1>5
<1> QED
  BY <1>4, <1>5, <1>6 DEF NothingNew

LEMMA WriteHeld ==
  ASSUME PagesInv, NEW x \in Item, WriteBack(x), NextFree(Back) + Span(x) <= ENTRY_COUNT
  PROVE  LET v == <<Back, FirstEmpty(entry[Back])>>
         IN  /\ Held' = Held \cup {v} /\ v \notin Held /\ v \in Sector \X Index
             /\ entry'[v[1]][v[2]] = x /\ \A w \in Held : At(w)' = At(w)
             /\ \A i \in Items(Back) : i < v[2]
<1> DEFINE e == entry[Back]
           n == FirstEmpty(e)
           w == Written(e, n, x)
<1>1. /\ Back \in Sector /\ PageInv(e) /\ NextFree(Back) = n /\ Items(Back) = ItemsIn(e)
  BY BackProperty, OnPage
<1>2. entry' = [entry EXCEPT ![Back] = w]
  BY WriteBackPages
<1>3. /\ n \in Index /\ n \notin ItemsIn(e) /\ ItemsIn(w) = ItemsIn(e) \cup {n}
      /\ w[n] = x /\ \A h \in ItemsIn(e) : w[h] = e[h] /\ h < n
  <2> HIDE DEF e
  <2> QED
    BY <1>1, WrittenProperty
<1> HIDE DEF w, n
<1>4. entry'[Back] = w /\ \A q \in Sector : q # Back => entry'[q] = entry[q]
  BY <1>1, <1>2 DEF PagesInv
<1>5. /\ Held = {v \in Sector \X Index : v[2] \in ItemsIn(entry[v[1]])}
      /\ Held' = {v \in Sector \X Index : v[2] \in ItemsIn(entry'[v[1]])}
  BY DEF Held, Items, ItemsIn
<1> DEFINE b == Back
<1>6. \A v \in Sector \X Index : v[2] \in ItemsIn(entry'[v[1]]) <=>
                                   v[2] \in ItemsIn(entry[v[1]]) \/ v = <<b, n>>
  BY <1>1, <1>3, <1>4
<1>7. Held' = Held \cup {<<b, n>>} /\ <<b, n>> \notin Held /\ <<b, n>> \in Sector \X Index
  BY <1>1, <1>3, <1>5, <1>6
<1>8. \A v \in Held : At(v)' = At(v)
  BY <1>3, <1>4, <1>5 DEF At
<1> QED
  BY <1>1, <1>3, <1>4, <1>7, <1>8 DEF n

LEMMA MoveHeld ==
  ASSUME PagesInv, ~NewPageRefused, RequestNewPage
  PROVE  NothingNew
<1> DEFINE new == Head(mFreePageList)
           old == mPageList[MostUnused]
<1>1. BlankPageAdded \/ PageMoved(old, new)
  BY RequestNewPagePages
<1> HIDE DEF old, new
<1>2. CASE BlankPageAdded
  BY <1>2, SameNothingNew DEF BlankPageAdded
<1>3. CASE PageMoved(old, new)
  <2> DEFINE e == entry[old]
  <2>1. /\ old \in Sector /\ old # new
        /\ entry'[old] = BlankPage /\ entry'[new] = Compact(e)
        /\ \A q \in Sector : q \notin {old, new} => entry'[q] = entry[q]
    BY <1>3 DEF PageMoved
  <2>2. /\ PageInv(e) /\ \A h \in ItemsIn(Compact(e)) : \E i \in ItemsIn(e) : NewPlace(e, i) = h
        /\ \A i \in ItemsIn(e) : Compact(e)[NewPlace(e, i)] = e[i]
    BY <2>1, CompactProperty DEF PagesInv
  <2>3. /\ Held = {v \in Sector \X Index : v[2] \in ItemsIn(entry[v[1]])}
        /\ Held' = {v \in Sector \X Index : v[2] \in ItemsIn(entry'[v[1]])}
    BY DEF Held, Items, ItemsIn
  <2> DEFINE from(h) == CHOOSE i \in ItemsIn(e) : NewPlace(e, i) = h
             f == [v \in Held' |-> IF v[1] = new THEN <<old, from(v[2])>> ELSE v]
  <2>4. \A h \in ItemsIn(Compact(e)) : /\ from(h) \in ItemsIn(e) /\ NewPlace(e, from(h)) = h
                                       /\ Compact(e)[h] = e[from(h)]
    BY <2>2
  <2> HIDE DEF from
  <2>5. \A v \in Held' : v[1] # old
    <3>1. ItemsIn(entry'[old]) = {}
      BY <2>1, BlankProperty DEF BlankPage
    <3> QED
      BY <2>3, <3>1
  <2>6. ItemsIn(e) \in SUBSET Index
    BY DEF ItemsIn
  <2>7. ASSUME NEW v \in Held' PROVE f[v] \in Held /\ At(v)' = At(f[v])
    <3>1. v \in Sector \X Index /\ v[2] \in ItemsIn(entry'[v[1]])
      BY <2>3
    <3>2. CASE v[1] = new
      <4>1. v[2] \in ItemsIn(Compact(e)) /\ f[v] = <<old, from(v[2])>>
        BY <2>1, <3>1, <3>2
      <4>2. from(v[2]) \in ItemsIn(e) /\ Compact(e)[v[2]] = e[from(v[2])]
        BY <2>4, <4>1
      <4>3. f[v] \in Held
        BY <2>1, <2>3, <2>6, <4>1, <4>2
      <4>4. At(v)' = entry'[new][v[2]] /\ At(f[v]) = e[from(v[2])]
        BY <3>2, <4>1 DEF At
      <4> QED
        BY <2>1, <4>2, <4>3, <4>4
    <3>3. CASE v[1] # new
      <4>1. f[v] = v /\ entry'[v[1]] = entry[v[1]]
        BY <2>1, <2>5, <3>1, <3>3
      <4> QED
        BY <2>3, <3>1, <4>1 DEF At
    <3> QED
      BY <3>2, <3>3
  <2>8. ASSUME NEW v \in Held', NEW w \in Held', f[v] = f[w] PROVE v = w
    <3>1. /\ v \in Sector \X Index /\ v[2] \in ItemsIn(entry'[v[1]])
          /\ w \in Sector \X Index /\ w[2] \in ItemsIn(entry'[w[1]])
      BY <2>3
    <3>2. v[1] # old /\ w[1] # old
      BY <2>5
    <3>3. f[v] = (IF v[1] = new THEN <<old, from(v[2])>> ELSE v)
          /\ f[w] = (IF w[1] = new THEN <<old, from(w[2])>> ELSE w)
      OBVIOUS
    <3>4. CASE v[1] = new /\ w[1] = new
      <4>1. from(v[2]) = from(w[2])
        BY <2>8, <3>3, <3>4
      <4>2. v[2] = w[2]
        BY <2>1, <2>4, <3>1, <3>4, <4>1
      <4> QED
        BY <3>1, <3>4, <4>2
    <3>5. CASE ~(v[1] = new /\ w[1] = new)
      BY <2>8, <3>1, <3>2, <3>3, <3>5
    <3> QED
      BY <3>4, <3>5
  <2> HIDE DEF f
  <2> QED
    BY <2>7, <2>8 DEF NothingNew
<1> QED
  BY <1>1, <1>2, <1>3

\* Steps that write nothing.
LEMMA StepHeld ==
  ASSUME TypeInv, [Next]_vars
  PROVE  NothingNew \/ WriteChunk \/ (WriteIndex /\ Fits(NewIndex) /\ WriteBack(NewIndex))
<1>1. ASSUME ItemErased PROVE NothingNew
  BY <1>1, EraseHeld DEF TypeInv, ItemErased
<1>2. ASSUME ~NewPageRefused, RequestNewPage PROVE NothingNew
  BY <1>2, MoveHeld DEF TypeInv
<1>3. ASSUME UNCHANGED blobPageVars \/ MarkBackFull \/ LoadLists PROVE NothingNew
  BY <1>3, SameNothingNew DEF blobPageVars, MarkBackFull, LoadLists
<1> QED
  BY <1>1, <1>2, <1>3, PageSteps

LEMMA NextNumber ==
  ASSUME TypeInv, CountInv, NumberInv, [Next]_vars, PageCount < 128
  PROVE  NumberInv'
<1> DEFINE Good(x) == x.kind = "BLOB_DATA" => x.chunk # CHUNK_ANY
<1>1. \A v \in Held : Good(At(v))
  BY DEF NumberInv, Held, At
<1>2. ASSUME \A v \in Held' : Good(At(v)') PROVE NumberInv'
  <2>1. PagesInv'
    BY NextType DEF TypeInv
  <2>2. \A p \in Sector : \A i \in Items(p)' : <<p, i>> \in Held'
    <3>1. \A p \in Sector : ItemsIn(entry'[p]) \in SUBSET Index /\ Items(p)' = ItemsIn(entry'[p])
      BY DEF ItemsIn, Items
    <3> QED
      BY <3>1 DEF Held
  <2>3. \A p \in Sector : \A i \in Items(p)' : Good(entry'[p][i])
    BY <1>2, <2>2 DEF At
  <2> QED
    BY <2>3 DEF NumberInv
<1>3. ASSUME NothingNew PROVE \A v \in Held' : Good(At(v)')
  BY <1>1, <1>3 DEF NothingNew
<1>4. ASSUME NEW x \in Item, WriteBack(x), NextFree(Back) + Span(x) <= ENTRY_COUNT, Good(x)
      PROVE  \A v \in Held' : Good(At(v)')
  BY <1>1, <1>4, WriteHeld DEF At, TypeInv
<1>5. ASSUME WriteChunk PROVE \A v \in Held' : Good(At(v)')
  <2>1. /\ NewChunk \in Item /\ WriteBack(NewChunk) /\ NextFree(Back) + Span(NewChunk) <= ENTRY_COUNT
        /\ NewChunk.chunk = nextStart + Len(usedPages)
    BY <1>5, ChunkProperty DEF NewChunk, BlobData
  <2>2. Good(NewChunk)
    BY <1>5, <2>1, ChunkNumber
  <2> QED
    BY <1>4, <2>1, <2>2
<1>6. ASSUME WriteIndex, Fits(NewIndex), WriteBack(NewIndex) PROVE \A v \in Held' : Good(At(v)')
  <2>1. NewIndex \in Item /\ NewIndex.kind = "BLOB_IDX"
    BY <1>6, NewIndexProperty DEF WriteIndex
  <2> QED
    BY <1>4, <1>6, <2>1 DEF Fits
<1> QED
  BY <1>2, <1>3, <1>5, <1>6, StepHeld

-----------------------------------------------------------------------------
(***************************************************************************)
(* One head.  Indices and blobs of the old format are heads; a key has one *)
(* at most, but for the time between the writing of an index and the       *)
(* erasure of what it replaces, by the request or, after a power failure,  *)
(* by load().  During that time the index is the newest item there is.     *)
(***************************************************************************)
Heads == {v \in Held : At(v).kind # "BLOB_DATA"}

Rivals(v, w) == v # w /\ At(v).key = At(w).key

Newest(v) ==
  /\ v[1] = Back /\ mState[Back] = "ACTIVE"
  /\ \A i \in Items(Back) : i <= v[2]
  /\ At(v).kind = "BLOB_IDX"

\* The request erases what its index replaces; load() does so for one that was cut off.
Replacing == pc = "eraseOld" \/ (pc = "eraseIndex" /\ op.name = "set")

Superseding == Replacing \/ pc \in {"load", "dup"}

Writing == pc \in {"chunk", "skip", "full", "next", "index"}

\* What the index is going to replace: its other version, or a blob of the old format.
Replaced(x) == IF prevStart = VER_ANY THEN x.kind = "BLOB"
               ELSE x.kind = "BLOB_IDX" /\ x.chunkStart = prevStart

HeadInv ==
  /\ \A v, w \in Heads : Rivals(v, w) => Superseding /\ (Newest(v) \/ Newest(w))
  /\ Writing => \A v \in Heads : At(v).key = op.key => Replaced(At(v))
  /\ Replacing => \A v, w \in Heads : Rivals(v, w) /\ Newest(w) =>
                    At(v).key = op.key /\ Replaced(At(v)) /\ ~Replaced(At(w))
  /\ Writing \/ Replacing => nextStart # prevStart
  /\ Replacing => (prevStart = VER_ANY <=> pc = "eraseOld")
  /\ pc = "dup" /\ mState[Back] = "ACTIVE" => Duplicates(Back) = {}

HeadsKept ==
  \E f : /\ \A v \in Heads' : f[v] \in Heads /\ At(v)' = At(f[v])
         /\ \A v, w \in Heads' : f[v] = f[w] => v = w

LEMMA HeadProperty ==
  ASSUME PagesInv, NEW v \in Heads
  PROVE  /\ v \in Held /\ v = <<v[1], v[2]>> /\ v[1] \in Sector /\ v[2] \in Items(v[1])
         /\ v[2] \in Index /\ v[2] \in Nat /\ v[2] # NONE
         /\ At(v) = entry[v[1]][v[2]] /\ At(v) \in Item /\ At(v).chunk = CHUNK_ANY
         /\ At(v).kind \in {"BLOB_IDX", "BLOB"} /\ v[1] \in Range(mPageList)
<1>1. v \in Held /\ At(v).kind # "BLOB_DATA"
  BY DEF Heads
<1>2. At(v) \in Item /\ v[1] \in Sector /\ v[2] \in Index /\ v = <<v[1], v[2]>>
  BY <1>1, HeldProperty
<1>3. v[2] \in Items(v[1])
  BY <1>1 DEF Held
<1>4. v[2] \in Nat /\ v[2] # NONE
  BY <1>2, EntryCountAssumption DEF Index, NONE
<1>5. At(v).chunk = CHUNK_ANY /\ At(v).kind \in {"BLOB_IDX", "BLOB"}
  BY <1>1, <1>2, ItemProperty
<1>6. v[1] \in Range(mPageList)
  <2> SUFFICES ASSUME v[1] \in Range(mFreePageList) PROVE FALSE
    BY <1>2 DEF PagesInv
  <2>1. entry[v[1]] = [j \in Index |-> EMPTY]
    BY <1>2 DEF PagesInv, BlankPage
  <2> QED
    BY <1>2, <1>3, <2>1 DEF Items
<1> QED
  BY <1>1, <1>2, <1>3, <1>4, <1>5, <1>6 DEF At

LEMMA StepHeads ==
  ASSUME TypeInv, [Next]_vars
  PROVE  HeadsKept \/ (WriteIndex /\ Fits(NewIndex) /\ WriteBack(NewIndex))
<1>1. ASSUME NothingNew PROVE HeadsKept
  <2>1. PICK f : /\ \A v \in Held' : f[v] \in Held /\ At(v)' = At(f[v])
                 /\ \A v, w \in Held' : f[v] = f[w] => v = w
    BY <1>1 DEF NothingNew
  <2>2. \A v \in Heads' : v \in Held' /\ At(v)'.kind # "BLOB_DATA"
    BY DEF Heads
  <2>3. /\ \A v \in Heads' : f[v] \in Heads /\ At(v)' = At(f[v])
        /\ \A v, w \in Heads' : f[v] = f[w] => v = w
    BY <2>1, <2>2 DEF Heads
  <2> QED
    BY <2>3 DEF HeadsKept
<1>2. ASSUME WriteChunk PROVE HeadsKept
  <2> DEFINE n == <<Back, FirstEmpty(entry[Back])>>
  <2>1. /\ NewChunk \in Item /\ WriteBack(NewChunk) /\ NextFree(Back) + Span(NewChunk) <= ENTRY_COUNT
        /\ NewChunk.kind = "BLOB_DATA"
    BY <1>2, ChunkProperty DEF NewChunk, BlobData
  <2>2. /\ Held' = Held \cup {n} /\ n \notin Held
        /\ entry'[n[1]][n[2]] = NewChunk /\ \A w \in Held : At(w)' = At(w)
    BY <2>1, WriteHeld DEF TypeInv
  <2> HIDE DEF n
  <2>3. \A v \in Heads' : v \in Heads /\ At(v)' = At(v)
    <3>1. \A v \in Heads' : v \in Held' /\ At(v)' = entry'[v[1]][v[2]] /\ At(v)'.kind # "BLOB_DATA"
      BY DEF Heads, At
    <3> QED
      BY <2>1, <2>2, <3>1 DEF Heads
  <2> DEFINE f == [v \in Heads |-> v]
  <2>4. /\ \A v \in Heads' : f[v] \in Heads /\ At(v)' = At(f[v])
        /\ \A v, w \in Heads' : f[v] = f[w] => v = w
    BY <2>3
  <2> QED
    BY <2>4 DEF HeadsKept
<1> QED
  BY <1>1, <1>2, StepHeld

\* A head is found on its page unless the hash list leads to another one before it.
LEMMA FoundUnlessHidden ==
  ASSUME PagesInv, NumberInv, NEW v \in Heads, NEW ver,
         At(v).kind = "BLOB_IDX" /\ ver # VER_ANY => At(v).chunkStart = ver,
         \A u \in Heads : u[1] = v[1] /\ At(u).key = At(v).key => u[2] >= v[2]
  PROVE  FindOnPage(v[1], At(v).kind, At(v).key, CHUNK_ANY, ver) # NONE
<1> DEFINE p == v[1]
           x == At(v)
           match == {i \in Items(p) :
                      /\ entry[p][i].key = x.key /\ entry[p][i].chunk = CHUNK_ANY
                      /\ x.kind = "BLOB_IDX" /\ ver # VER_ANY /\ entry[p][i].kind = "BLOB_IDX" =>
                           entry[p][i].chunkStart = ver}
<1>1. /\ p \in Sector /\ v[2] \in Items(p) /\ v[2] \in Nat /\ v[2] # NONE
      /\ x = entry[p][v[2]] /\ x.chunk = CHUNK_ANY
  BY HeadProperty
<1>2. v[2] \in match
  BY <1>1
<1>3. Items(p) \in SUBSET Nat
  BY <1>1, OnPage, EntryProperty DEF PagesInv
<1>4. ASSUME NEW i \in match PROVE i >= v[2]
  <2>1. i \in Items(p) /\ entry[p][i].key = x.key /\ entry[p][i].chunk = CHUNK_ANY
    OBVIOUS
  <2>2. <<p, i>> \in Held /\ At(<<p, i>>) = entry[p][i]
    BY <1>1, <2>1, HeldProperty DEF At
  <2>3. <<p, i>> \in Heads
    BY <1>1, <2>1, <2>2 DEF NumberInv, Heads
  <2> QED
    BY <2>1, <2>2, <2>3
<1>5. match \in SUBSET Nat
  BY <1>3
<1>6. FindOnPage(p, x.kind, x.key, CHUNK_ANY, ver) =
        IF match # {} /\ entry[p][Min(match)].kind = x.kind THEN Min(match) ELSE NONE
  BY DEF FindOnPage
<1> HIDE DEF match
<1>7. Min(match) = v[2]
  <2>1. Min(match) \in match /\ Min(match) <= v[2]
    BY <1>2, <1>5, MinProperty
  <2>2. Min(match) >= v[2] /\ Min(match) \in Nat
    BY <1>4, <1>5, <2>1
  <2> QED
    BY <1>1, <2>1, <2>2
<1> QED
  BY <1>1, <1>2, <1>6, <1>7

\* What findItem() leads to is a head.
LEMMA FoundHead ==
  ASSUME PagesInv, NEW kind \in {"BLOB_IDX", "BLOB"}, NEW k, NEW ver,
         FindPage(kind, k, CHUNK_ANY, ver) # NoPage
  PROVE  LET p == FindPage(kind, k, CHUNK_ANY, ver)
             i == FindOnPage(p, kind, k, CHUNK_ANY, ver)
         IN  /\ p \in Sector /\ i \in Items(p) /\ <<p, i>> \in Heads
             /\ At(<<p, i>>).kind = kind /\ At(<<p, i>>).key = k /\ At(<<p, i>>) = entry[p][i]
             /\ kind = "BLOB_IDX" /\ ver # VER_ANY => At(<<p, i>>).chunkStart = ver
<1> DEFINE p == FindPage(kind, k, CHUNK_ANY, ver)
           i == FindOnPage(p, kind, k, CHUNK_ANY, ver)
<1>1. /\ p \in Sector /\ i \in Items(p) /\ entry[p][i].kind = kind /\ entry[p][i].key = k
      /\ kind = "BLOB_IDX" /\ ver # VER_ANY => entry[p][i].chunkStart = ver
  BY FoundPlace
<1> HIDE DEF p, i
<1>2. <<p, i>> \in Held /\ At(<<p, i>>) = entry[p][i]
  BY <1>1, HeldProperty DEF At
<1>3. <<p, i>> \in Heads
  BY <1>1, <1>2 DEF Heads
<1>4. /\ p \in Sector /\ i \in Items(p) /\ <<p, i>> \in Heads
      /\ At(<<p, i>>).kind = kind /\ At(<<p, i>>).key = k /\ At(<<p, i>>) = entry[p][i]
      /\ kind = "BLOB_IDX" /\ ver # VER_ANY => At(<<p, i>>).chunkStart = ver
  BY <1>1, <1>2, <1>3
<1> QED
  BY <1>4, Zenon DEF p, i

-----------------------------------------------------------------------------
(* Steps at which a key may have two heads. *)

OneHead == \A v, w \in Heads : At(v).key = At(w).key => v = w

\* The heads after one of them is erased.
LEMMA EraseHeads ==
  ASSUME PagesInv, NEW p \in Sector, NEW i \in Items(p), EraseItem(p, i)
  PROVE  /\ \A v \in Heads' : v \in Heads /\ v # <<p, i>> /\ At(v)' = At(v)
         /\ Back' = Back /\ mState' = mState /\ \A j \in Items(Back)' : j \in Items(Back)
<1>1. Held' = Held \ {<<p, i>>} /\ (\A v \in Held' : At(v)' = At(v))
  BY EraseHeld
<1>2. \A v \in Heads' : v \in Held' /\ At(v)'.kind # "BLOB_DATA"
  BY DEF Heads
<1>3. Back' = Back /\ mState' = mState /\ Back \in Sector
  BY BackProperty DEF EraseItem, Back
<1>4. \A j \in Items(Back)' : j \in Items(Back)
  <2>1. \A q \in Sector : ItemsIn(entry'[q]) = ItemsIn(entry[q]) \ (IF q = p THEN {i} ELSE {})
    BY EraseItemPages
  <2>2. Items(Back)' = ItemsIn(entry'[Back]) /\ Items(Back) = ItemsIn(entry[Back])
    BY <1>3 DEF Items, ItemsIn
  <2> QED
    BY <1>3, <2>1, <2>2
<1> QED
  BY <1>1, <1>2, <1>3, <1>4 DEF Heads

\* The heads are where they were, if no entry changes.
LEMMA SameHeads ==
  ASSUME entry' = entry
  PROVE  Heads' = Heads /\ \A v : At(v)' = At(v)
BY SameNothingNew DEF Heads

\* The newest item stays that as long as it is not erased.
LEMMA NewestStays ==
  ASSUME NEW v, Newest(v), Back' = Back, mState'[Back] = "ACTIVE", At(v)' = At(v),
         \A j \in Items(Back)' : j \in Items(Back)
  PROVE  Newest(v)'
BY DEF Newest

\* What the new index replaces is found.
LEMMA ReplacedFound ==
  ASSUME TypeInv, NumberInv, HeadInv, Replacing,
         NEW kind, kind = IF prevStart = VER_ANY THEN "BLOB" ELSE "BLOB_IDX"
  PROVE  /\ \A x : Replaced(x) <=> x.kind = kind /\ (kind = "BLOB_IDX" /\ prevStart # VER_ANY =>
                                                      x.chunkStart = prevStart)
         /\ \A v, w \in Heads : Rivals(v, w) /\ Newest(w) =>
              /\ At(v).key = op.key /\ At(w).key = op.key /\ Replaced(At(v)) /\ ~Replaced(At(w))
              /\ ~Newest(v) /\ FindPage(kind, op.key, CHUNK_ANY, prevStart) # NoPage
         /\ \A v, w \in Heads : Rivals(v, w) => Newest(v) \/ Newest(w)
<1> DEFINE p == FindPage(kind, op.key, CHUNK_ANY, prevStart)
<1>1. kind \in {"BLOB_IDX", "BLOB"} /\ PagesInv
  BY DEF TypeInv
<1>2. \A x : Replaced(x) <=> x.kind = kind /\ (kind = "BLOB_IDX" /\ prevStart # VER_ANY =>
                                                 x.chunkStart = prevStart)
  BY DEF Replaced
<1>3. ASSUME NEW v \in Heads, NEW w \in Heads, Rivals(v, w), Newest(w)
      PROVE  /\ At(v).key = op.key /\ At(w).key = op.key /\ Replaced(At(v)) /\ ~Replaced(At(w))
             /\ ~Newest(v)
  BY <1>3 DEF HeadInv, Rivals
<1>4. ASSUME NEW v \in Heads, NEW w \in Heads, Rivals(v, w)
      PROVE  Newest(v) \/ Newest(w)
  BY <1>4 DEF HeadInv
<1>5. ASSUME NEW v \in Heads, NEW w \in Heads, Rivals(v, w), Newest(w)
      PROVE  p # NoPage
  <2>1. At(v).kind = kind /\ At(v).key = op.key
    BY <1>2, <1>3, <1>5
  <2>2. kind = "BLOB_IDX" /\ prevStart # VER_ANY => At(v).chunkStart = prevStart
    BY <1>2, <1>3, <1>5
  <2>3. ASSUME NEW u \in Heads, u[1] = v[1], At(u).key = At(v).key PROVE u[2] >= v[2]
    <3>1. CASE u = v
      BY <1>1, <3>1, HeadProperty
    <3>2. CASE u # v
      <4>1. Rivals(u, v) /\ Rivals(v, u)
        BY <2>3, <3>2 DEF Rivals
      <4>2. ~Newest(v)
        BY <1>3, <1>5
      <4>3. Newest(u)
        BY <1>4, <4>1, <4>2
      <4>4. v[2] \in Items(v[1]) /\ v[2] \in Nat /\ u[2] \in Nat
        BY <1>1, HeadProperty
      <4> QED
        BY <2>3, <4>3, <4>4 DEF Newest
    <3> QED
      BY <3>1, <3>2
  <2>4. FindOnPage(v[1], kind, op.key, CHUNK_ANY, prevStart) # NONE
    BY <1>1, <2>1, <2>2, <2>3, FoundUnlessHidden
  <2>5. v[1] \in Range(mPageList)
    BY <1>1, HeadProperty
  <2> QED
    BY <1>1, <2>4, <2>5, FindPageProperty
<1> HIDE DEF p
<1>6. \A v, w \in Heads : Rivals(v, w) /\ Newest(w) =>
        /\ At(v).key = op.key /\ At(w).key = op.key /\ Replaced(At(v)) /\ ~Replaced(At(w))
        /\ ~Newest(v) /\ p # NoPage
  BY <1>3, <1>5
<1>7. \A v, w \in Heads : Rivals(v, w) => Newest(v) \/ Newest(w)
  BY <1>4
<1> QED
  BY <1>2, <1>6, <1>7, Zenon DEF p

\* A request that writes an index then erases what it replaces, and only that.
LEMMA ReplacedGone ==
  ASSUME TypeInv, NumberInv, HeadInv, Replacing,
         NEW kind, kind = IF prevStart = VER_ANY THEN "BLOB" ELSE "BLOB_IDX",
         LET p == FindPage(kind, op.key, CHUNK_ANY, prevStart)
         IN  IF p = NoPage THEN entry' = entry
             ELSE EraseItem(p, FindOnPage(p, kind, op.key, CHUNK_ANY, prevStart))
  PROVE  OneHead'
<1> DEFINE p == FindPage(kind, op.key, CHUNK_ANY, prevStart)
           i == FindOnPage(p, kind, op.key, CHUNK_ANY, prevStart)
           h == <<p, i>>
<1>1. kind \in {"BLOB_IDX", "BLOB"} /\ PagesInv
  BY DEF TypeInv
<1>2. \A x : Replaced(x) <=> x.kind = kind /\ (kind = "BLOB_IDX" /\ prevStart # VER_ANY =>
                                                 x.chunkStart = prevStart)
  BY DEF Replaced
<1>3. ASSUME NEW v \in Heads, NEW w \in Heads, Rivals(v, w), Newest(w)
      PROVE  /\ At(v).key = op.key /\ At(w).key = op.key /\ Replaced(At(v)) /\ ~Replaced(At(w))
             /\ ~Newest(v) /\ p # NoPage
  BY <1>3, ReplacedFound
<1>4. ASSUME NEW v \in Heads, NEW w \in Heads, Rivals(v, w)
      PROVE  Newest(v) \/ Newest(w)
  BY <1>4, ReplacedFound
<1>6. p # NoPage => /\ p \in Sector /\ i \in Items(p) /\ h \in Heads
                    /\ At(h).key = op.key /\ Replaced(At(h))
  <2> SUFFICES ASSUME p # NoPage
               PROVE  /\ p \in Sector /\ i \in Items(p) /\ h \in Heads
                      /\ At(h).key = op.key /\ Replaced(At(h))
    OBVIOUS
  <2>1. /\ p \in Sector /\ i \in Items(p) /\ h \in Heads
        /\ At(h).kind = kind /\ At(h).key = op.key
        /\ kind = "BLOB_IDX" /\ prevStart # VER_ANY => At(h).chunkStart = prevStart
    BY <1>1, FoundHead
  <2> QED
    BY <1>2, <2>1
<1>7. IF p = NoPage THEN entry' = entry ELSE EraseItem(p, i)
  OBVIOUS
<1> HIDE DEF p, i
<1>8. CASE p = NoPage
  <2>1. Heads' = Heads /\ \A v : At(v)' = At(v)
    BY <1>7, <1>8, SameHeads
  <2>2. \A v, w \in Heads : ~Rivals(v, w)
    <3> SUFFICES ASSUME NEW v \in Heads, NEW w \in Heads, Rivals(v, w) PROVE FALSE
      OBVIOUS
    <3>1. Rivals(w, v)
      BY DEF Rivals
    <3> QED
      BY <1>3, <1>4, <1>8, <3>1
  <2> QED
    BY <2>1, <2>2 DEF OneHead, Rivals
<1>9. CASE p # NoPage
  <2>1. \A v \in Heads' : v \in Heads /\ v # h /\ At(v)' = At(v)
    BY <1>1, <1>6, <1>7, <1>9, EraseHeads
  <2>2. ASSUME NEW v \in Heads, NEW w \in Heads, Rivals(v, w), Newest(w) PROVE v = h
    <3> SUFFICES ASSUME v # h PROVE FALSE
      OBVIOUS
    <3>1. h \in Heads /\ At(h).key = At(v).key /\ Replaced(At(h)) /\ Replaced(At(v))
      BY <1>3, <1>6, <1>9, <2>2
    <3>2. Rivals(v, h) /\ Rivals(h, v)
      BY <3>1 DEF Rivals
    <3> QED
      BY <1>3, <1>4, <3>1, <3>2
  <2>3. \A v, w \in Heads' : ~Rivals(v, w)
    <3> SUFFICES ASSUME NEW v \in Heads', NEW w \in Heads', Rivals(v, w) PROVE FALSE
      OBVIOUS
    <3>1. Rivals(w, v) /\ v \in Heads /\ w \in Heads /\ v # h /\ w # h
      BY <2>1 DEF Rivals
    <3> QED
      BY <1>4, <2>2, <3>1
  <2> QED
    BY <2>1, <2>3 DEF OneHead, Rivals
<1> QED
  BY <1>8, <1>9

\* Of two items with the same key and chunk on the ACTIVE page load() leaves one.
LEMMA NoDuplicates ==
  ASSUME PagesInv, Duplicates(Back) = {}, NEW v \in Heads, NEW w \in Heads, Rivals(v, w)
  PROVE  v[1] # Back \/ w[1] # Back
<1> SUFFICES ASSUME v[1] = Back, w[1] = Back PROVE FALSE
  OBVIOUS
<1>1. /\ v[2] \in Items(Back) /\ v[2] \in Nat /\ v = <<Back, v[2]>>
      /\ At(v) = entry[Back][v[2]] /\ At(v).chunk = CHUNK_ANY
      /\ w[2] \in Items(Back) /\ w[2] \in Nat /\ w = <<Back, w[2]>>
      /\ At(w) = entry[Back][w[2]] /\ At(w).chunk = CHUNK_ANY
  BY HeadProperty
<1>2. v[2] < w[2] \/ w[2] < v[2]
  <2>1. v[2] # w[2]
    BY <1>1 DEF Rivals
  <2> QED
    BY <1>1, <2>1
<1>3. entry[Back][v[2]].key = entry[Back][w[2]].key /\ entry[Back][v[2]].chunk = entry[Back][w[2]].chunk
  BY <1>1 DEF Rivals
<1>4. v[2] \in Duplicates(Back) \/ w[2] \in Duplicates(Back)
  BY <1>1, <1>2, <1>3 DEF Duplicates
<1> QED
  BY <1>4

\* load() erases what the newest item replaces.
LEMMA EraseOldVersionHeads ==
  ASSUME TypeInv, NumberInv, HeadInv, EraseOldVersion
  PROVE  OneHead'
<1> DEFINE item == entry[Back][Max(Items(Back))]
<1>1. PagesInv /\ pc = "dup"
  BY DEF TypeInv, EraseOldVersion
<1>2. ASSUME NEW v \in Heads, NEW w \in Heads, Rivals(v, w)
      PROVE  (Newest(v) \/ Newest(w)) /\ (v[1] # Back \/ w[1] # Back)
  <2>1. Newest(v) \/ Newest(w)
    BY <1>2 DEF HeadInv
  <2>2. Duplicates(Back) = {}
    BY <1>1, <2>1 DEF HeadInv, Newest
  <2> QED
    BY <1>1, <1>2, <2>1, <2>2, NoDuplicates
<1>3. ASSUME NEW v \in Heads, NEW w \in Heads, Rivals(v, w), Newest(w)
      PROVE  /\ v[1] # Back /\ w[1] = Back /\ w[2] \in Items(Back) /\ item = At(w)
             /\ item.kind = "BLOB_IDX" /\ item.key = At(v).key /\ item.chunk = CHUNK_ANY
             /\ Alike(item, At(v).kind) # {}
  <2>1. /\ w[1] = Back /\ w[2] \in Items(Back) /\ w[2] \in Nat /\ At(w) = entry[Back][w[2]]
        /\ At(w).kind = "BLOB_IDX" /\ At(w).chunk = CHUNK_ANY
        /\ \A i \in Items(Back) : i <= w[2]
    BY <1>1, <1>3, HeadProperty DEF Newest
  <2>2. v[1] # Back
    BY <1>2, <1>3, <2>1
  <2>3. Max(Items(Back)) = w[2]
    <3>1. Items(Back) \in SUBSET Nat
      BY <1>1, BackProperty, OnPage, EntryProperty
    <3> HIDE DEF item
    <3> QED
      BY <2>1, <3>1 DEF Max
  <2>4. item = At(w) /\ item.key = At(v).key
    BY <1>3, <2>1, <2>3 DEF Rivals
  <2>5. ASSUME NEW u \in Heads, u[1] = v[1], At(u).key = At(v).key PROVE u[2] >= v[2]
    <3>1. CASE u = v
      BY <1>1, <3>1, HeadProperty
    <3>2. CASE u # v
      <4>1. Rivals(u, v)
        BY <2>5, <3>2 DEF Rivals
      <4>2. Newest(u) \/ Newest(v)
        BY <1>2, <4>1
      <4> QED
        BY <2>2, <2>5, <4>2 DEF Newest
    <3> QED
      BY <3>1, <3>2
  <2>6. FindOnPage(v[1], At(v).kind, At(v).key, CHUNK_ANY, VER_ANY) # NONE
    BY <1>1, <2>5, FoundUnlessHidden
  <2>7. PICK n \in DOMAIN mPageList : mPageList[n] = v[1]
    BY <1>1, HeadProperty DEF Range
  <2>8. n \in 1 .. Len(mPageList) - 1
    BY <1>1, <2>2, <2>7, BackProperty
  <2>9. n \in Alike(At(w), At(v).kind)
    <3>1. At(w).key = At(v).key /\ At(w).chunk = CHUNK_ANY
      BY <1>3, <2>1 DEF Rivals
    <3> QED
      BY <2>6, <2>7, <2>8, <3>1 DEF Alike
  <2> QED
    BY <2>1, <2>2, <2>4, <2>9
<1>4. ASSUME NEW v \in Heads, NEW w \in Heads, Rivals(v, w), Newest(w),
             NEW kind \in {"BLOB_IDX", "BLOB"}, Alike(item, kind) # {}
      PROVE  LET p == mPageList[Min(Alike(item, kind))]
                 i == FindOnPage(p, kind, item.key, item.chunk, VER_ANY)
             IN  p \in Sector /\ i \in Items(p) /\ v = <<p, i>> /\ w # <<p, i>> /\ At(v).kind = kind
  <2> DEFINE p == mPageList[Min(Alike(item, kind))]
             i == FindOnPage(p, kind, item.key, item.chunk, VER_ANY)
             h == <<p, i>>
  <2>1. /\ p \in Sector /\ p # Back /\ i \in Items(p)
        /\ entry[p][i].kind = kind /\ entry[p][i].key = item.key /\ entry[p][i].chunk = item.chunk
    <3> HIDE DEF item
    <3> QED
      BY <1>1, <1>4, AlikeProperty
  <2>2. v[1] # Back /\ w[1] = Back /\ item.key = At(v).key
    BY <1>3, <1>4
  <2> HIDE DEF p, i, item
  <2>3. h \in Heads /\ At(h).key = At(v).key /\ At(h).kind = kind
    BY <1>1, <2>1, <2>2, HeldProperty DEF Heads, At
  <2>4. v = h
    <3> SUFFICES ASSUME v # h PROVE FALSE
      OBVIOUS
    <3>1. Rivals(v, h)
      BY <2>3 DEF Rivals
    <3>2. Newest(v) \/ Newest(h)
      BY <1>2, <2>3, <3>1
    <3> QED
      BY <2>1, <2>2, <3>2 DEF Newest
  <2>5. w # h
    BY <2>1, <2>2
  <2> QED
    BY <2>1, <2>3, <2>4, <2>5 DEF p, i, item
<1>5. SUFFICES ASSUME NEW v \in Heads', NEW w \in Heads', At(v)'.key = At(w)'.key, v # w
               PROVE  FALSE
  BY DEF OneHead
<1>6. ASSUME entry' = entry, NEW x \in Heads, NEW y \in Heads, Rivals(x, y), Newest(y) PROVE FALSE
  <2>1. Items(Back) # {} /\ Alike(item, At(x).kind) # {} /\ item.kind = "BLOB_IDX"
    BY <1>3, <1>6
  <2>2. At(x).kind \in {"BLOB_IDX", "BLOB"}
    BY <1>1, <1>6, HeadProperty
  <2>3. PICK kind \in {"BLOB_IDX", "BLOB"} : Alike(item, kind) # {} /\ EraseAlike(item, kind)
    BY <2>1, <2>2 DEF EraseOldVersion
  <2> DEFINE p == mPageList[Min(Alike(item, kind))]
             i == FindOnPage(p, kind, item.key, item.chunk, VER_ANY)
  <2>4. EraseItem(p, i)
    <3> HIDE DEF item
    <3> QED
      BY <2>3 DEF EraseAlike
  <2>5. p \in Sector /\ i \in Items(p) /\ x = <<p, i>>
    BY <1>4, <1>6, <2>3
  <2> HIDE DEF p, i
  <2>6. x \notin Heads'
    BY <1>1, <2>4, <2>5, EraseHeads
  <2> QED
    BY <1>6, <2>6, SameHeads
<1>7. CASE UNCHANGED blobPageVars
  <2>1. v \in Heads /\ w \in Heads /\ Rivals(v, w) /\ Rivals(w, v)
    BY <1>5, <1>7, SameHeads DEF blobPageVars, Rivals
  <2> QED
    BY <1>2, <1>6, <1>7, <2>1 DEF blobPageVars
<1>8. ASSUME NEW kind, Alike(item, kind) # {}, EraseAlike(item, kind),
             kind = item.kind \/ kind = "BLOB"
      PROVE  FALSE
  <2> DEFINE p == mPageList[Min(Alike(item, kind))]
             i == FindOnPage(p, kind, item.key, item.chunk, VER_ANY)
  <2>1. EraseItem(p, i) /\ p \in Sector /\ i \in Items(p)
    <3> HIDE DEF item
    <3> QED
      BY <1>1, <1>8, AlikeProperty DEF EraseAlike
  <2>2. \A u \in Heads' : u \in Heads /\ u # <<p, i>> /\ At(u)' = At(u)
    <3> HIDE DEF p, i
    <3> QED
      BY <1>1, <2>1, EraseHeads
  <2>3. v \in Heads /\ w \in Heads /\ v # <<p, i>> /\ w # <<p, i>> /\ Rivals(v, w) /\ Rivals(w, v)
    <3> HIDE DEF p, i
    <3> QED
      BY <1>5, <2>2 DEF Rivals
  <2>4. ASSUME NEW x \in Heads, NEW y \in Heads, Rivals(x, y), Newest(y), x # <<p, i>> PROVE FALSE
    <3>1. item.kind = "BLOB_IDX"
      BY <1>3, <2>4
    <3>2. kind \in {"BLOB_IDX", "BLOB"}
      BY <1>8, <3>1
    <3> QED
      BY <1>4, <1>8, <2>4, <3>2
  <2> QED
    BY <1>2, <2>3, <2>4
<1>9. \/ UNCHANGED blobPageVars
      \/ Items(Back) # {} /\ Alike(item, item.kind) # {} /\ EraseAlike(item, item.kind)
      \/ Items(Back) # {} /\ Alike(item, "BLOB") # {} /\ EraseAlike(item, "BLOB")
  BY DEF EraseOldVersion
<1> QED
  BY <1>7, <1>8, <1>9

\* Where a power failure finds two heads, load() knows the newest.
LEMMA CrashHeads ==
  ASSUME TypeInv, HeadInv, Crash
  PROVE  HeadInv'
<1>1. LoadLists /\ pc' = "load" /\ PagesInv /\ entry' = entry /\ mState' = mState
  BY DEF Crash, TypeInv, LoadLists
<1>2. Heads' = Heads /\ \A v : At(v)' = At(v)
  BY <1>1, SameHeads
<1>3. mState[Back] = "ACTIVE" => Back' = Back
  BY <1>1, LoadListsPages
<1>4. ASSUME NEW v \in Heads', NEW w \in Heads', Rivals(v, w)' PROVE Newest(v)' \/ Newest(w)'
  <2>1. Newest(v) \/ Newest(w)
    BY <1>2, <1>4 DEF HeadInv, Rivals
  <2>2. Back' = Back /\ Items(Back)' = Items(Back) /\ mState'[Back] = "ACTIVE"
    BY <1>1, <1>3, <2>1 DEF Newest, Items
  <2> QED
    BY <1>2, <2>1, <2>2, NewestStays
<1> QED
  BY <1>1, <1>4 DEF HeadInv, Superseding, Replacing, Writing

LEMMA RepairDuplicateHeads ==
  ASSUME TypeInv, HeadInv, RepairDuplicate
  PROVE  HeadInv'
<1>1. pc = "load" /\ pc' \in {"load", "dup"} /\ PagesInv
  BY DEF RepairDuplicate, TypeInv
<1>2. ASSUME NEW v \in Heads', NEW w \in Heads', Rivals(v, w)',
             v \in Heads, w \in Heads, At(v)' = At(v), At(w)' = At(w),
             Back' = Back, mState' = mState, \A j \in Items(Back)' : j \in Items(Back)
      PROVE  Newest(v)' \/ Newest(w)'
  <2>1. Newest(v) \/ Newest(w)
    BY <1>2 DEF HeadInv, Rivals
  <2>2. mState'[Back] = "ACTIVE"
    BY <1>2, <2>1 DEF Newest
  <2> QED
    BY <1>2, <2>1, <2>2, NewestStays
<1>3. CASE ActiveDuplicates = {}
  <2>1. UNCHANGED blobPageVars
    BY <1>3 DEF RepairDuplicate
  <2>2. entry' = entry /\ mState' = mState /\ Back' = Back /\ Items(Back)' = Items(Back)
    BY <2>1 DEF blobPageVars, Back, Items
  <2>3. Heads' = Heads /\ \A v : At(v)' = At(v)
    BY <2>2, SameHeads
  <2>4. mState'[Back'] = "ACTIVE" => Duplicates(Back)' = {}
    <3>1. Back \in Sector
      BY <1>1, BackProperty
    <3>2. Duplicates(Back)' = Duplicates(Back)
      BY <2>2 DEF Duplicates
    <3> QED
      BY <1>3, <2>2, <3>1, <3>2 DEF ActiveDuplicates
  <2>5. \A v, w \in Heads' : Rivals(v, w)' => Newest(v)' \/ Newest(w)'
    BY <1>2, <2>2, <2>3
  <2> QED
    BY <1>1, <2>4, <2>5 DEF HeadInv, Superseding, Replacing, Writing
<1>4. CASE ActiveDuplicates # {}
  <2> DEFINE p == Min(ActiveDuplicates)
             i == Superseded(p, Min(Duplicates(p)))
  <2>1. EraseItem(p, i) /\ pc' = "load"
    BY <1>1, <1>4 DEF RepairDuplicate
  <2>2. p \in Sector /\ i \in Items(p)
    BY <1>1, <1>4, DuplicateProperty
  <2> HIDE DEF p, i
  <2>3. /\ \A v \in Heads' : v \in Heads /\ v # <<p, i>> /\ At(v)' = At(v)
        /\ Back' = Back /\ mState' = mState /\ \A j \in Items(Back)' : j \in Items(Back)
    BY <1>1, <2>1, <2>2, EraseHeads
  <2>4. \A v, w \in Heads' : Rivals(v, w)' => Newest(v)' \/ Newest(w)'
    BY <1>2, <2>3
  <2> QED
    BY <2>1, <2>4 DEF HeadInv, Superseding, Replacing, Writing
<1> QED
  BY <1>3, <1>4

\* The index that is written is a head, and the newest item.
LEMMA IndexWritten ==
  ASSUME TypeInv, WriteIndex, Fits(NewIndex), WriteBack(NewIndex)
  PROVE  \E n : /\ n \in Heads' /\ At(n)' = NewIndex /\ Newest(n)'
                /\ \A v \in Heads' : v = n \/ (v \in Heads /\ At(v)' = At(v) /\ v # n)
                /\ \A v \in Heads : v \in Heads' /\ At(v)' = At(v)
                /\ n[2] \in Nat /\ n[2] \in Items(Back)'
                /\ Back' = Back /\ \A i \in Items(Back) : i < n[2]
<1>1. pc = "index" /\ UNCHANGED <<op, prevStart, nextStart>> /\ PagesInv
      /\ pc' = IF prevStart = VER_ANY THEN "eraseOld" ELSE "eraseIndex"
  BY DEF WriteIndex, NewIndex, localVars, TypeInv
<1>2. /\ op.name = "set" /\ NewIndex \in Item /\ NewIndex.kind = "BLOB_IDX"
      /\ NewIndex.key = op.key /\ NewIndex.chunkStart = nextStart
      /\ NextFree(Back) + Span(NewIndex) <= ENTRY_COUNT
  BY <1>1, NewIndexProperty DEF Fits
<1>3. PICK b, n :
        /\ Held' = Held \cup {n} /\ n \notin Held /\ entry'[b][n[2]] = NewIndex
        /\ \A w \in Held : At(w)' = At(w)
        /\ \A i \in Items(Back) : i < n[2]
        /\ Back = b /\ Back' = b /\ b \in Sector /\ mState'[b] = "ACTIVE" /\ n[1] = b /\ n \in Sector \X Index
  BY <1>1, <1>2, WriteHeld, WriteBackPages, BackProperty
<1>4. At(n)' = NewIndex /\ n \in Heads'
  <2>1. At(n)' = NewIndex
    BY <1>3 DEF At
  <2> QED
    BY <1>2, <1>3, <2>1 DEF Heads
<1>5. \A v \in Heads' : v = n \/ (v \in Heads /\ At(v)' = At(v) /\ v # n)
  <2>1. \A v \in Heads' : v \in Held' /\ At(v)'.kind # "BLOB_DATA"
    BY DEF Heads
  <2> QED
    BY <1>3, <2>1 DEF Heads
<1>6. n[2] \in Nat /\ n[2] \in Items(Back)' /\ \A i \in Items(Back)' : i <= n[2]
  <2>1. Items(Back)' = {i \in Index : entry'[b][i] \notin {EMPTY, ERASED, BODY}}
    BY <1>3 DEF Items
  <2>2. \A i \in Items(Back)' : i \in Index /\ <<b, i>> \in Held'
    <3>1. \A i \in Index : i \in Items(Back)' => i \in Items(b)'
      BY <2>1 DEF Items
    <3> QED
      BY <1>3, <2>1, <3>1 DEF Held
  <2>3. ASSUME NEW i \in Items(Back)', i # n[2] PROVE i < n[2]
    <3>1. <<b, i>> \in Held
      BY <1>3, <2>2, <2>3
    <3>2. i \in Items(b)
      BY <3>1 DEF Held
    <3> QED
      BY <1>3, <3>2
  <2>4. Index \in SUBSET Nat
    BY EntryCountAssumption DEF Index
  <2>5. n[2] \in Index
    BY <1>3
  <2>6. n[2] \in Items(Back)'
    <3>1. NewIndex \notin {EMPTY, ERASED, BODY}
      BY <1>2, ItemProperty
    <3> QED
      BY <1>3, <2>1, <3>1
  <2>7. ASSUME NEW i \in Items(Back)' PROVE i <= n[2]
    <3>1. i \in Nat /\ n[2] \in Nat
      BY <2>2, <2>4, <2>5
    <3> QED
      BY <2>3, <3>1
  <2> QED
    BY <2>4, <2>5, <2>6, <2>7
<1>7. Newest(n)'
  BY <1>2, <1>3, <1>4, <1>6 DEF Newest
<1>8. \A v \in Heads : v \in Heads' /\ At(v)' = At(v)
  <2>1. \A v \in Heads : v \in Held' /\ At(v)' = At(v) /\ At(v).kind # "BLOB_DATA"
    BY <1>3 DEF Heads
  <2> QED
    BY <2>1 DEF Heads
<1> QED
  BY <1>3, <1>4, <1>5, <1>6, <1>7, <1>8

\* The index becomes the newest item, and what it replaces is the only other head of its key.
LEMMA WriteIndexHeads ==
  ASSUME TypeInv, HeadInv, WriteIndex, Fits(NewIndex), WriteBack(NewIndex)
  PROVE  HeadInv'
<1>1. pc = "index" /\ UNCHANGED <<op, prevStart, nextStart>> /\ PagesInv
      /\ pc' = IF prevStart = VER_ANY THEN "eraseOld" ELSE "eraseIndex"
  BY DEF WriteIndex, NewIndex, localVars, TypeInv
<1>2. op.name = "set" /\ NewIndex.key = op.key /\ NewIndex.chunkStart = nextStart
      /\ NewIndex.kind = "BLOB_IDX"
  BY <1>1, NewIndexProperty
<1>3. PICK n : /\ n \in Heads' /\ At(n)' = NewIndex /\ Newest(n)'
               /\ \A v \in Heads' : v = n \/ (v \in Heads /\ At(v)' = At(v) /\ v # n)
               /\ n[2] \in Nat /\ n[2] \in Items(Back)'
               /\ Back' = Back /\ \A i \in Items(Back) : i < n[2]
  BY IndexWritten
<1>4. ASSUME NEW v \in Heads', NEW w \in Heads', Rivals(v, w)'
      PROVE  (v = n \/ w = n) /\ v # w
  BY <1>1, <1>3, <1>4 DEF HeadInv, Rivals, Superseding, Replacing
<1>5. ASSUME NEW v \in Heads', Rivals(v, n)'
      PROVE  ~Newest(v)' /\ At(v)'.key = op.key /\ Replaced(At(v))' /\ ~Replaced(At(n))'
  <2>1. v \in Heads /\ At(v)' = At(v) /\ v # n /\ At(v).key = op.key
    BY <1>2, <1>3, <1>5 DEF Rivals
  <2>2. Replaced(At(v)) /\ nextStart # prevStart
    BY <1>1, <2>1 DEF HeadInv, Writing
  <2>3. Replaced(At(v))' /\ ~Replaced(At(n))'
    BY <1>1, <1>2, <1>3, <2>1, <2>2 DEF Replaced
  <2>4. ~Newest(v)'
    <3> SUFFICES ASSUME Newest(v)' PROVE FALSE
      OBVIOUS
    <3>1. v[1] = Back /\ v[2] \in Items(v[1]) /\ v[2] \in Nat
      BY <1>1, <1>3, <2>1, HeadProperty DEF Newest
    <3>2. v[2] \in Items(Back)
      BY <3>1
    <3>3. v[2] < n[2] /\ n[2] <= v[2]
      BY <1>3, <3>2 DEF Newest
    <3> QED
      BY <1>3, <3>1, <3>3
  <2> QED
    BY <2>1, <2>3, <2>4
<1>6. Replacing' /\ Superseding' /\ ~Writing' /\ pc' # "dup"
  BY <1>1, <1>2 DEF Replacing, Superseding, Writing
<1>7. \A v, w \in Heads' : Rivals(v, w)' => Newest(v)' \/ Newest(w)'
  BY <1>3, <1>4
<1>8. \A v, w \in Heads' : Rivals(v, w)' /\ Newest(w)' =>
          At(v)'.key = op.key /\ Replaced(At(v))' /\ ~Replaced(At(w))'
  <2> SUFFICES ASSUME NEW v \in Heads', NEW w \in Heads', Rivals(v, w)', Newest(w)'
               PROVE  At(v)'.key = op.key /\ Replaced(At(v))' /\ ~Replaced(At(w))'
    OBVIOUS
  <2>1. w = n
    <3> SUFFICES ASSUME v = n PROVE FALSE
      BY <1>4
    <3>1. Rivals(w, n)'
      BY DEF Rivals
    <3> QED
      BY <1>5, <3>1
  <2> QED
    BY <1>5, <2>1
<1>9. nextStart' # prevStart'
  BY <1>1 DEF HeadInv, Writing
<1>10. prevStart' = VER_ANY <=> pc' = "eraseOld"
  BY <1>1
<1> QED
  BY <1>1, <1>6, <1>7, <1>8, <1>9, <1>10 DEF HeadInv

\* A blob that is set replaces the one there is of the key, in the old format or not.
LEMMA FindHeads ==
  ASSUME TypeInv, NumberInv, HeadInv, Find, pc' = "chunk"
  PROVE  /\ nextStart' # prevStart'
         /\ \A v \in Heads : At(v).key = op.key =>
              IF prevStart' = VER_ANY THEN At(v).kind = "BLOB"
              ELSE At(v).kind = "BLOB_IDX" /\ At(v).chunkStart = prevStart'
<1> DEFINE k == op.key
           p == FindPage("BLOB_IDX", k, CHUNK_ANY, VER_ANY)
           i == FindOnPage(p, "BLOB_IDX", k, CHUNK_ANY, VER_ANY)
<1>1. /\ pc = "find" /\ PagesInv
      /\ prevStart' = IF HasIndex(k) THEN PrevStart(k) ELSE VER_ANY
      /\ nextStart' = IF HasIndex(k) THEN OtherVersion(PrevStart(k)) ELSE VER_0_OFFSET
  BY DEF Find, TypeInv
<1>2. \A v, w \in Heads : ~Rivals(v, w)
  BY <1>1 DEF HeadInv, Superseding, Replacing
<1>3. CASE HasIndex(k)
  <2>1. p # NoPage /\ IndexOf(k) = {entry[p][i]}
    BY <1>3 DEF HasIndex, IndexOf, FoundItem
  <2>2. /\ <<p, i>> \in Heads /\ At(<<p, i>>).kind = "BLOB_IDX"
        /\ At(<<p, i>>).key = k /\ At(<<p, i>>) = entry[p][i]
    BY <1>1, <2>1, FoundHead
  <2> HIDE DEF p, i
  <2>3. PrevStart(k) = entry[p][i].chunkStart
    BY <2>1 DEF PrevStart
  <2>4. PrevStart(k) \in {VER_0_OFFSET, VER_1_OFFSET}
    BY <1>1, <1>3, PrevStartProperty
  <2>5. prevStart' = entry[p][i].chunkStart /\ prevStart' # VER_ANY /\ nextStart' # prevStart'
    BY <1>1, <1>3, <2>3, <2>4 DEF OtherVersion
  <2>6. \A v \in Heads : At(v).key = k => v = <<p, i>>
    BY <1>2, <2>2 DEF Rivals
  <2> QED
    BY <2>2, <2>5, <2>6
<1>4. CASE ~HasIndex(k)
  <2>1. p = NoPage
    BY <1>4 DEF HasIndex, IndexOf, FoundItem
  <2>2. ASSUME NEW v \in Heads, At(v).key = k, At(v).kind = "BLOB_IDX" PROVE FALSE
    <3>1. ASSUME NEW u \in Heads, At(u).key = At(v).key PROVE u[2] >= v[2]
      <4>1. u = v
        BY <1>2, <3>1 DEF Rivals
      <4>2. v[2] \in Nat
        BY <1>1, HeadProperty
      <4> QED
        BY <4>1, <4>2
    <3>2. FindOnPage(v[1], "BLOB_IDX", k, CHUNK_ANY, VER_ANY) # NONE
      BY <1>1, <2>2, <3>1, FoundUnlessHidden
    <3>3. v[1] \in Range(mPageList)
      BY <1>1, HeadProperty
    <3> QED
      BY <1>1, <2>1, <3>2, <3>3, FindPageProperty
  <2>3. \A v \in Heads : At(v).kind \in {"BLOB_IDX", "BLOB"}
    BY <1>1, HeadProperty
  <2>4. prevStart' = VER_ANY /\ nextStart' # prevStart'
    BY <1>1, <1>4
  <2> QED
    BY <2>2, <2>3, <2>4
<1> QED
  BY <1>3, <1>4

\* The steps there are while an index replaces what was there.
LEMMA StepFrom ==
  ASSUME [Next]_vars, ~UNCHANGED vars, ~Crash
  PROVE  /\ pc = "eraseOld" => EraseOldFormat
         /\ pc = "eraseIndex" => EraseIndex
         /\ pc = "load" => RepairDuplicate
         /\ pc = "dup" => EraseOldVersion
<1>1. CASE Write
  BY <1>1 DEF Write, Find, SkipPage, SkipToNewPage, NoTailroom, WriteChunk, MarkFull, NextPage,
              WriteIndex, Cleanup, EraseOldFormat
<1>2. CASE Erase
  BY <1>2 DEF Erase, EraseAny, EraseIndex, EraseChunk, ChunksErased
<1>3. CASE Load
  BY <1>3 DEF Load, RepairDuplicate, EraseOldVersion, EraseOrphan
<1>4. CASE Begin \/ Return \/ Read
  BY <1>4 DEF Begin, Return, Read
<1> QED
  BY <1>1, <1>2, <1>3, <1>4 DEF Next

LEMMA WritingFrom ==
  ASSUME [Next]_vars, Writing'
  PROVE  /\ UNCHANGED op
         /\ (Find /\ pc' = "chunk") \/ (Writing /\ UNCHANGED <<prevStart, nextStart>>)
<1>1. CASE Find
  <2>1. pc' \in {"return", "aborted", "chunk"} /\ UNCHANGED op
    BY <1>1 DEF Find
  <2> QED
    BY <1>1, <2>1 DEF Writing
<1>2. CASE SkipPage \/ SkipToNewPage \/ NextPage \/ WriteChunk \/ MarkFull
  BY <1>2 DEF SkipPage, SkipToNewPage, NextPage, WriteChunk, MarkFull, Writing, localVars
<1>3. CASE UNCHANGED vars
  BY <1>3 DEF vars, localVars, Writing
<1> QED
  BY <1>1, <1>2, <1>3, StepTo DEF Writing

\* One head of each key, and what is to be replaced is known: there is no more to say.
LEMMA QuietHeads ==
  ASSUME OneHead', ~Replacing', pc' # "dup",
         Writing' => /\ nextStart' # prevStart'
                     /\ \A v \in Heads' : At(v)'.key = op'.key => Replaced(At(v))'
  PROVE  HeadInv'
BY DEF HeadInv, OneHead, Rivals

\* Most steps leave the heads there are, on this page or on another.
LEMMA KeptHeads ==
  ASSUME TypeInv, NumberInv, HeadInv, [Next]_vars, HeadsKept, ~Superseding,
         pc' # "dup", ~Replacing'
  PROVE  HeadInv'
<1>1. PICK f : /\ \A v \in Heads' : f[v] \in Heads /\ At(v)' = At(f[v])
               /\ \A v, w \in Heads' : f[v] = f[w] => v = w
  BY DEF HeadsKept
<1>2. \A v, w \in Heads : At(v).key = At(w).key => v = w
  BY DEF HeadInv, Rivals
<1>3. OneHead'
  BY <1>1, <1>2 DEF OneHead
<1>4. ASSUME Writing'
      PROVE  /\ nextStart' # prevStart'
             /\ \A v \in Heads' : At(v)'.key = op'.key => Replaced(At(v))'
  <2>1. CASE Find /\ pc' = "chunk"
    <3>1. /\ nextStart' # prevStart'
          /\ \A v \in Heads : At(v).key = op.key =>
               IF prevStart' = VER_ANY THEN At(v).kind = "BLOB"
               ELSE At(v).kind = "BLOB_IDX" /\ At(v).chunkStart = prevStart'
      BY <2>1, FindHeads
    <3>2. op' = op
      BY <1>4, WritingFrom
    <3> QED
      BY <1>1, <3>1, <3>2 DEF Replaced
  <2>2. CASE Writing /\ UNCHANGED <<prevStart, nextStart>>
    <3>1. /\ nextStart # prevStart
          /\ \A v \in Heads : At(v).key = op.key => Replaced(At(v))
      BY <2>2 DEF HeadInv
    <3>2. op' = op
      BY <1>4, WritingFrom
    <3> QED
      BY <1>1, <2>2, <3>1, <3>2 DEF Replaced
  <2> QED
    BY <1>4, <2>1, <2>2, WritingFrom
<1> QED
  BY <1>3, <1>4, QuietHeads

\* A step that changes nothing.
LEMMA StutterHeads ==
  ASSUME HeadInv, UNCHANGED vars
  PROVE  HeadInv'
<1>1. /\ entry' = entry /\ mState' = mState /\ Back' = Back
      /\ op' = op /\ pc' = pc /\ prevStart' = prevStart /\ nextStart' = nextStart
  BY DEF vars, blobPageVars, localVars, Back
<1>2. Heads' = Heads /\ (\A v : At(v)' = At(v)) /\ Items(Back)' = Items(Back)
      /\ Duplicates(Back)' = Duplicates(Back)
  BY <1>1, SameHeads DEF Items, Duplicates
<1> QED
  BY <1>1, <1>2 DEF HeadInv, Rivals, Superseding, Replacing, Writing, Newest, Replaced

LEMMA NextHead ==
  ASSUME TypeInv, NumberInv, HeadInv, [Next]_vars
  PROVE  HeadInv'
<1>1. CASE Crash
  BY <1>1, CrashHeads
<1>2. CASE RepairDuplicate
  BY <1>2, RepairDuplicateHeads
<1>3. CASE WriteIndex /\ Fits(NewIndex) /\ WriteBack(NewIndex)
  BY <1>3, WriteIndexHeads
<1>4. CASE EraseOldVersion
  <2>1. OneHead'
    BY <1>4, EraseOldVersionHeads
  <2>2. pc' \in {"aborted", "orphans"}
    BY <1>4 DEF EraseOldVersion
  <2> QED
    BY <2>1, <2>2, QuietHeads DEF Replacing, Writing
<1>5. CASE EraseOldFormat
  <2>1. Replacing /\ prevStart = VER_ANY
    BY <1>5 DEF EraseOldFormat, Replacing, HeadInv
  <2>2. LET p == FindPage("BLOB", op.key, CHUNK_ANY, VER_ANY)
        IN  IF p = NoPage THEN entry' = entry
            ELSE EraseItem(p, FindOnPage(p, "BLOB", op.key, CHUNK_ANY, VER_ANY))
    BY <1>5 DEF EraseOldFormat, OldBlobPage, blobPageVars
  <2>3. OneHead'
    BY <2>1, <2>2, ReplacedGone
  <2>4. pc' = "return"
    BY <1>5 DEF EraseOldFormat
  <2> QED
    BY <2>3, <2>4, QuietHeads DEF Replacing, Writing
<1>6. CASE EraseIndex /\ op.name = "set"
  <2>1. Replacing /\ prevStart # VER_ANY
    BY <1>6 DEF EraseIndex, Replacing, HeadInv
  <2>2. LET p == FindPage("BLOB_IDX", op.key, CHUNK_ANY, prevStart)
        IN  IF p = NoPage THEN entry' = entry
            ELSE EraseItem(p, FindOnPage(p, "BLOB_IDX", op.key, CHUNK_ANY, prevStart))
    BY <1>6 DEF EraseIndex, blobPageVars
  <2>3. OneHead'
    BY <2>1, <2>2, ReplacedGone
  <2>4. pc' \in {"return", "eraseChunks"}
    BY <1>6 DEF EraseIndex
  <2> QED
    BY <2>3, <2>4, QuietHeads DEF Replacing, Writing
<1>7. CASE UNCHANGED vars
  BY <1>7, StutterHeads
<1>8. ASSUME ~Crash, ~RepairDuplicate, ~EraseOldVersion, ~EraseOldFormat,
             ~(WriteIndex /\ Fits(NewIndex) /\ WriteBack(NewIndex)),
             ~(EraseIndex /\ op.name = "set"), ~UNCHANGED vars
      PROVE  HeadInv'
  <2>1. HeadsKept
    BY <1>8, StepHeads
  <2>2. pc' # "dup"
    BY <1>8, StepTo
  <2>3. ~Replacing'
    <3>1. CASE WriteIndex
      <4>1. pc' = "aborted"
        BY <1>8, <3>1 DEF WriteIndex, NewIndex
      <4> QED
        BY <4>1 DEF Replacing
    <3>2. CASE Read \/ EraseAny
      <4>1. op' = op /\ pc' # "eraseOld" /\ pc \in {"read", "findAny"}
        BY <3>2 DEF Read, ReadOldFormat, EraseAny
      <4>2. op.name # "set"
        BY <4>1 DEF TypeInv, BlobControl, SetPC
      <4> QED
        BY <4>1, <4>2 DEF Replacing
    <3> QED
      BY <1>8, <3>1, <3>2, StepTo DEF Replacing
  <2>4. ~Superseding
    <3> SUFFICES ASSUME Superseding PROVE FALSE
      OBVIOUS
    <3>1. pc \in {"eraseOld", "load", "dup"} \/ (pc = "eraseIndex" /\ op.name = "set")
      BY DEF Superseding, Replacing
    <3> QED
      BY <1>8, <3>1, StepFrom
  <2> QED
    BY <2>1, <2>2, <2>3, <2>4, KeptHeads
<1> QED
  BY <1>1, <1>2, <1>3, <1>4, <1>5, <1>6, <1>7, <1>8

\* A partition is blank at first, or holds one blob of the old format.
LEMMA InitHeld ==
  ASSUME Init
  PROVE  \A v \in Held : v = <<0, 0>> /\ At(v).kind = "BLOB"
<1>1. PageInv(BlankPage) /\ ItemsIn(BlankPage) = {} /\ FirstEmpty(BlankPage) = 0
  BY BlankProperty DEF BlankPage
<1>2. CASE entry = [p \in Sector |-> BlankPage]
  <2>1. \A p \in Sector : Items(p) = {}
    BY <1>1, <1>2, OnPage
  <2> QED
    BY <2>1 DEF Held
<1>3. CASE \E old \in OldBlobs :
             entry = [p \in Sector |->
               IF p = 0 THEN Written(BlankPage, 0, OldBlob(old[1], old[2])) ELSE BlankPage]
  <2>1. PICK old \in OldBlobs :
          entry = [p \in Sector |->
            IF p = 0 THEN Written(BlankPage, 0, OldBlob(old[1], old[2])) ELSE BlankPage]
    BY <1>3
  <2>2. old[1] \in Key /\ old[2] \in Blob /\ Len(old[2]) <= CHUNK_MAX_SIZE /\ Len(old[2]) \in Nat
    BY PartitionAssumption, BlobAssumption
  <2> DEFINE x == OldBlob(old[1], old[2])
             w == Written(BlankPage, 0, x)
  <2>3. x \in Item /\ Span(x) = 1 + Len(old[2]) /\ x.kind = "BLOB"
    BY <2>2 DEF Item, OldBlob, Span
  <2>4. 0 + Span(x) <= ENTRY_COUNT
    BY <2>2, <2>3, EntryCountAssumption DEF CHUNK_MAX_SIZE
  <2>5. entry = [p \in Sector |-> IF p = 0 THEN w ELSE BlankPage]
    BY <2>1
  <2> HIDE DEF x
  <2>6. ItemsIn(w) = {0} /\ w[0] = x
    BY <1>1, <2>3, <2>4, WrittenProperty
  <2> HIDE DEF w
  <2>7. \A p \in Sector : Items(p) = IF p = 0 THEN {0} ELSE {}
    BY <1>1, <2>5, <2>6, OnPage
  <2>8. \A v \in Held : v \in Sector \X Index /\ v[1] = 0 /\ v[2] = 0
    BY <2>7 DEF Held
  <2>9. \A v \in Held : v = <<0, 0>> /\ 0 \in Sector
    BY <2>8
  <2> QED
    BY <2>3, <2>5, <2>6, <2>9 DEF At
<1> QED
  BY <1>2, <1>3 DEF Init

LEMMA InitHead ==
  ASSUME Init
  PROVE  CountInv /\ NumberInv /\ HeadInv
<1>1. PagesInv
  BY InitPages
<1>2. pc = "idle"
  BY DEF Init
<1>3. CountInv
  BY <1>2 DEF CountInv, MoreChunks
<1>4. NumberInv
  <2> SUFFICES ASSUME NEW p \in Sector, NEW i \in Items(p), entry[p][i].kind = "BLOB_DATA"
               PROVE  FALSE
    BY DEF NumberInv
  <2>1. <<p, i>> \in Held /\ At(<<p, i>>) = entry[p][i]
    BY <1>1, HeldProperty DEF At
  <2> QED
    BY <2>1, InitHeld
<1>5. HeadInv
  BY <1>2, InitHeld DEF HeadInv, Heads, Rivals, Superseding, Replacing, Writing
<1> QED
  BY <1>3, <1>4, <1>5

(***************************************************************************)
(* populateBlobIndices() (src/src/nvs_storage.cpp) never finds two indices *)
(* of one key: "we should never find a duplicate index at this point".  It *)
(* is proved for partitions of fewer than 128 pages, in which no chunk can *)
(* have the number 255 that findItem() takes for any.                      *)
(***************************************************************************)
THEOREM OneIndexHolds ==
  ASSUME PageCount < 128
  PROVE  Spec => []OneIndex
<1>1. Init => CountInv /\ NumberInv /\ HeadInv
  BY InitHead
<1>2. TypeInv /\ CountInv /\ NumberInv /\ HeadInv /\ [Next]_vars =>
        CountInv' /\ NumberInv' /\ HeadInv'
  BY NextCount, NextNumber, NextHead
<1>3. TypeInv /\ HeadInv => OneIndex
  <2> SUFFICES ASSUME TypeInv, HeadInv, pc \in {"orphans", "idle"},
                      NEW p \in Sector, NEW q \in Sector,
                      NEW i \in IndicesOn(p), NEW j \in IndicesOn(q),
                      entry[p][i].key = entry[q][j].key
               PROVE  p = q /\ i = j
    BY DEF OneIndex
  <2>1. /\ <<p, i>> \in Held /\ At(<<p, i>>) = entry[p][i] /\ entry[p][i].kind = "BLOB_IDX"
        /\ <<q, j>> \in Held /\ At(<<q, j>>) = entry[q][j] /\ entry[q][j].kind = "BLOB_IDX"
    BY HeldProperty DEF IndicesOn, At, TypeInv
  <2>2. <<p, i>> \in Heads /\ <<q, j>> \in Heads
    BY <2>1 DEF Heads
  <2>3. ~Superseding
    BY DEF Superseding, Replacing
  <2>4. ~Rivals(<<p, i>>, <<q, j>>)
    BY <2>2, <2>3 DEF HeadInv
  <2> QED
    BY <2>1, <2>4 DEF Rivals
<1> QED
  BY <1>1, <1>2, <1>3, TypeHolds, PTL DEF Spec

-----------------------------------------------------------------------------
(***************************************************************************)
(* Content.  What is on flash, wherever it is.  Of the steps only those    *)
(* that write or erase an item change it.                                  *)
(***************************************************************************)
Content == {At(v) : v \in Held}

LEMMA ContentProperty ==
  ASSUME PagesInv
  PROVE  \A x \in Content :
           /\ x \in Item /\ x.kind \in {"BLOB_IDX", "BLOB_DATA", "BLOB"} /\ x.key \in Key
           /\ x.kind = "BLOB_IDX" => x.chunkStart \in {0, 128} /\ x.chunkCount \in Nat
           /\ x.kind = "BLOB_DATA" => x.chunk \in Nat /\ x.data \in Seq(Datum)
<1> SUFFICES ASSUME NEW x \in Item
             PROVE  /\ x.kind \in {"BLOB_IDX", "BLOB_DATA", "BLOB"} /\ x.key \in Key
                    /\ x.kind = "BLOB_IDX" => x.chunkStart \in {0, 128} /\ x.chunkCount \in Nat
                    /\ x.kind = "BLOB_DATA" => x.chunk \in Nat /\ x.data \in Seq(Datum)
  BY HeldProperty DEF Content
<1>1. CASE x.kind = "BLOB_IDX"
  BY <1>1 DEF Item, VER_0_OFFSET, VER_1_OFFSET
<1>2. CASE x.kind = "BLOB_DATA"
  BY <1>2 DEF Item
<1>3. CASE x.kind = "BLOB"
  BY <1>3 DEF Item
<1>4. x.kind \in {"BLOB_IDX", "BLOB_DATA", "BLOB"}
  BY DEF Item
<1> QED
  BY <1>1, <1>2, <1>3, <1>4

\* Nothing is lost when the items of a page are moved.
LEMMA MoveContent ==
  ASSUME PagesInv, ~NewPageRefused, RequestNewPage
  PROVE  Content' = Content
<1> DEFINE new == Head(mFreePageList)
           old == mPageList[MostUnused]
<1>1. BlankPageAdded \/ PageMoved(old, new)
  BY RequestNewPagePages
<1>2. new \in Sector /\ new \in Range(mFreePageList)
  BY RequestNewPagePages
<1> HIDE DEF old, new
<1>3. Content' \subseteq Content
  <2>1. NothingNew
    BY MoveHeld
  <2> QED
    BY <2>1 DEF NothingNew, Content
<1>4. ASSUME NEW v \in Held PROVE \E w \in Held' : entry'[w[1]][w[2]] = At(v)
  <2>1. CASE BlankPageAdded
    BY <1>4, <2>1, SameNothingNew DEF BlankPageAdded, At
  <2>2. CASE PageMoved(old, new)
    <3> DEFINE e == entry[old]
    <3>1. /\ old \in Sector /\ old # new
          /\ entry'[old] = BlankPage /\ entry'[new] = Compact(e)
          /\ \A q \in Sector : q \notin {old, new} => entry'[q] = entry[q]
      BY <2>2 DEF PageMoved
    <3>2. \A i \in ItemsIn(e) : /\ NewPlace(e, i) \in ItemsIn(Compact(e))
                                /\ Compact(e)[NewPlace(e, i)] = e[i]
      BY <3>1, CompactProperty DEF PagesInv
    <3>3. /\ Held = {u \in Sector \X Index : u[2] \in ItemsIn(entry[u[1]])}
          /\ Held' = {u \in Sector \X Index : u[2] \in ItemsIn(entry'[u[1]])}
      BY DEF Held, Items, ItemsIn
    <3>4. v \in Sector \X Index /\ v[2] \in ItemsIn(entry[v[1]])
      BY <3>3
    <3>5. v[1] # new
      <4>1. entry[new] = BlankPage
        BY <1>2 DEF PagesInv
      <4>2. ItemsIn(entry[new]) = {}
        BY <4>1, BlankProperty DEF BlankPage
      <4> QED
        BY <3>4, <4>2
    <3>6. CASE v[1] = old
      <4> DEFINE w == <<new, NewPlace(e, v[2])>>
      <4>1. v[2] \in ItemsIn(e)
        BY <3>4, <3>6
      <4>2. NewPlace(e, v[2]) \in ItemsIn(Compact(e)) /\ Compact(e)[NewPlace(e, v[2])] = e[v[2]]
        BY <3>2, <4>1
      <4>3. NewPlace(e, v[2]) \in Index
        BY <4>2 DEF ItemsIn
      <4>4. w \in Held'
        BY <1>2, <3>1, <3>3, <4>2, <4>3
      <4>5. entry'[w[1]][w[2]] = entry'[new][NewPlace(e, v[2])] /\ At(v) = e[v[2]]
        BY <3>6 DEF At
      <4> QED
        BY <3>1, <4>2, <4>4, <4>5
    <3>7. CASE v[1] # old
      <4>1. entry'[v[1]] = entry[v[1]]
        BY <3>1, <3>4, <3>5, <3>7
      <4>2. v \in Held' /\ entry'[v[1]][v[2]] = At(v)
        BY <3>3, <3>4, <4>1 DEF At
      <4> QED
        BY <4>2
    <3> QED
      BY <3>6, <3>7
  <2> QED
    BY <1>1, <2>1, <2>2
<1>5. Content \subseteq Content'
  BY <1>4 DEF Content, At
<1> QED
  BY <1>3, <1>5

LEMMA SameContent ==
  ASSUME entry' = entry
  PROVE  Content' = Content
BY SameNothingNew DEF Content

LEMMA EraseContent ==
  ASSUME PagesInv, NEW p \in Sector, NEW i \in Items(p), EraseItem(p, i)
  PROVE  /\ <<p, i>> \in Held /\ At(<<p, i>>) = entry[p][i] /\ entry[p][i] \in Content
         /\ Content' \subseteq Content /\ Content \subseteq Content' \cup {entry[p][i]}
<1>1. <<p, i>> \in Held /\ At(<<p, i>>) = entry[p][i]
  BY HeldProperty DEF At
<1>2. Held' = Held \ {<<p, i>>} /\ (\A v \in Held' : At(v)' = At(v))
  BY EraseHeld
<1> QED
  BY <1>1, <1>2 DEF Content

LEMMA WriteContent ==
  ASSUME PagesInv, NEW x \in Item, WriteBack(x), NextFree(Back) + Span(x) <= ENTRY_COUNT
  PROVE  Content' = Content \cup {x}
<1> DEFINE n == <<Back, FirstEmpty(entry[Back])>>
<1>1. Held' = Held \cup {n} /\ entry'[n[1]][n[2]] = x /\ \A w \in Held : At(w)' = At(w)
  BY WriteHeld
<1> HIDE DEF n
<1>2. PICK m : m = n
  OBVIOUS
<1>3. At(m)' = x
  BY <1>1, <1>2 DEF At
<1> QED
  BY <1>1, <1>2, <1>3 DEF Content

\* What a step does to the content.
LEMMA StepContent ==
  ASSUME TypeInv, [Next]_vars
  PROVE  \/ Content' = Content /\ NothingNew
         \/ ItemErased
         \/ WriteChunk /\ Content' = Content \cup {NewChunk}
         \/ WriteIndex /\ Fits(NewIndex) /\ WriteBack(NewIndex) /\ Content' = Content \cup {NewIndex}
<1>1. ASSUME ~NewPageRefused, RequestNewPage PROVE Content' = Content /\ NothingNew
  BY <1>1, MoveContent, MoveHeld DEF TypeInv
<1>2. ASSUME UNCHANGED blobPageVars \/ MarkBackFull \/ LoadLists
      PROVE  Content' = Content /\ NothingNew
  BY <1>2, SameContent, SameNothingNew DEF blobPageVars, MarkBackFull, LoadLists
<1>3. ASSUME WriteChunk PROVE Content' = Content \cup {NewChunk}
  BY <1>3, ChunkProperty, WriteContent DEF TypeInv
<1>4. ASSUME WriteIndex, Fits(NewIndex), WriteBack(NewIndex) PROVE Content' = Content \cup {NewIndex}
  <2>1. NewIndex \in Item
    BY <1>4, NewIndexProperty DEF WriteIndex
  <2> QED
    BY <1>4, <2>1, WriteContent DEF Fits, TypeInv
<1> QED
  BY <1>1, <1>2, <1>3, <1>4, PageSteps

-----------------------------------------------------------------------------
(***************************************************************************)
(* Data.  No two chunks of a key have the same number; an index counts the *)
(* chunks of a whole blob; and a chunk that no index counts is one that is *)
(* being written or erased, unless load() has yet to erase it.             *)
(***************************************************************************)
ChunkPlaces == {v \in Held : At(v).kind = "BLOB_DATA"}

OneChunk ==
  \A v, w \in ChunkPlaces : At(v).key = At(w).key /\ At(v).chunk = At(w).chunk => v = w

\* In content C the chunks of key k from number start on, count of them, hold this data.
Holds(C, k, start, count, data) ==
  \E d \in Seq(Seq(Datum)) :
    /\ Len(d) = count /\ FlattenSeq(d) = data
    /\ \A n \in 1 .. count : BlobData(k, start + n - 1, d[n]) \in C

Complete(C) ==
  \A x \in C : x.kind = "BLOB_IDX" =>
    /\ x.chunkCount <= 127
    /\ \E b \in Blob : Len(b) = x.dataSize /\ Holds(C, x.key, x.chunkStart, x.chunkCount, b)

Counted(C, c) == \E x \in C : x.kind = "BLOB_IDX" /\ Counts(x, c)

HasVersion(C, k, start) ==
  \E x \in C : x.kind = "BLOB_IDX" /\ x.key = k /\ x.chunkStart = start

BeingWritten(c) ==
  /\ Writing \/ pc = "cleanup"
  /\ c.key = op.key /\ nextStart + chunkNum <= c.chunk /\ c.chunk < nextStart + Len(usedPages)

BeingErased(c) ==
  /\ pc = "eraseChunks"
  /\ c.key = op.key /\ chunkStart + chunkNum <= c.chunk /\ c.chunk < chunkStart + chunkCount

Loading == pc \in {"load", "dup", "orphans"}

Owned ==
  ~Loading => \A c \in Content :
                c.kind = "BLOB_DATA" => Counted(Content, c) \/ BeingWritten(c) \/ BeingErased(c)

\* How far a set or an erase is, and which versions there are then.
VersionInv ==
  /\ Len(usedPages) <= 127
  /\ Writing => Holds(Content, op.key, nextStart, Len(usedPages), SubSeq(op.val, 1, offset))
  /\ pc = "index" => offset = Len(op.val)
  /\ Writing \/ pc = "cleanup" => ~HasVersion(Content, op.key, nextStart)
  /\ Writing /\ prevStart # VER_ANY => HasVersion(Content, op.key, prevStart)
  /\ Replacing => HasVersion(Content, op.key, nextStart)
  /\ pc = "eraseIndex" => op.name \in {"set", "erase"}
  /\ pc = "eraseIndex" /\ op.name = "set" => HasVersion(Content, op.key, prevStart)
  /\ pc = "eraseIndex" /\ op.name = "erase" => \E start \in {0, 128} : HasVersion(Content, op.key, start)
  /\ pc = "eraseChunks" => /\ op.name \in {"set", "erase"} /\ chunkStart \in {0, 128}
                           /\ chunkCount <= 127 /\ chunkNum <= chunkCount
                           /\ ~HasVersion(Content, op.key, chunkStart)

AnswerInv ==
  /\ pc # "aborted"
  /\ pc = "cleanup" => ret = "NOT_ENOUGH_SPACE"
  /\ ret = "NOT_ENOUGH_SPACE" => pc \in {"cleanup", "return"}
  /\ pc = "return" => ret \in {"OK", "NOT_FOUND", "NOT_ENOUGH_SPACE", "VALUE_TOO_LONG"}
  /\ pc = "return" /\ op.name = "erase" => ret \in {"OK", "NOT_FOUND"}

DataInv == OneChunk /\ Complete(Content) /\ Owned /\ VersionInv /\ AnswerInv

-----------------------------------------------------------------------------
(* Reading the chunks of a blob. *)

\* An item is on a page of the list.
LEMMA HeldInList ==
  ASSUME PagesInv, NEW v \in Held
  PROVE  v[1] \in Range(mPageList)
<1>1. v[1] \in Sector /\ v[2] \in Items(v[1]) /\ v[2] \in Index
  BY HeldProperty DEF Held
<1> SUFFICES ASSUME v[1] \in Range(mFreePageList) PROVE FALSE
  BY <1>1 DEF PagesInv
<1>2. entry[v[1]] = [j \in Index |-> EMPTY]
  BY <1>1 DEF PagesInv, BlankPage
<1> QED
  BY <1>1, <1>2 DEF Items

LEMMA ChunkNumbers ==
  ASSUME PagesInv, NumberInv, NEW x \in Content
  PROVE  x.chunk = CHUNK_ANY <=> x.kind # "BLOB_DATA"
<1>1. PICK v \in Held : At(v) = x
  BY DEF Content
<1>2. x \in Item /\ x = entry[v[1]][v[2]] /\ v[1] \in Sector /\ v[2] \in Items(v[1])
  BY <1>1, HeldProperty DEF At, Held
<1>3. x.kind = "BLOB_DATA" => x.chunk # CHUNK_ANY
  BY <1>2 DEF NumberInv
<1>4. x.kind # "BLOB_DATA" => x.chunk = CHUNK_ANY
  BY <1>2, ItemProperty
<1> QED
  BY <1>3, <1>4

\* A chunk that is there is found.
LEMMA ChunkFound ==
  ASSUME PagesInv, NumberInv, OneChunk, NEW x \in Content, x.kind = "BLOB_DATA"
  PROVE  ChunkPage(x.key, x.chunk) # NoPage /\ ChunkData(x.key, x.chunk) = x.data
<1> DEFINE k == x.key
           c == x.chunk
<1>1. PICK v \in Held : At(v) = x
  BY DEF Content
<1>2. /\ v[1] \in Sector /\ v[2] \in Items(v[1]) /\ x = entry[v[1]][v[2]] /\ v = <<v[1], v[2]>>
      /\ v[1] \in Range(mPageList) /\ c # CHUNK_ANY /\ v \in ChunkPlaces
  BY <1>1, HeldProperty, HeldInList, ChunkNumbers DEF At, Held, ChunkPlaces
<1> DEFINE p == v[1]
           match == {i \in Items(p) :
                      /\ entry[p][i].key = k /\ entry[p][i].chunk = c
                      /\ "BLOB_DATA" = "BLOB_IDX" /\ VER_ANY # VER_ANY /\ entry[p][i].kind = "BLOB_IDX" =>
                           entry[p][i].chunkStart = VER_ANY}
<1>3. FindOnPage(p, "BLOB_DATA", k, c, VER_ANY) =
        IF match # {} /\ entry[p][Min(match)].kind = "BLOB_DATA" THEN Min(match) ELSE NONE
  BY DEF FindOnPage
<1>4. v[2] \in match
  BY <1>2
<1>5. Items(p) \in SUBSET Nat /\ \A i \in Items(p) : i # NONE
  <2>1. Items(p) = ItemsIn(entry[p]) /\ PageInv(entry[p])
    BY <1>2, OnPage DEF PagesInv
  <2>2. Items(p) \in SUBSET Nat /\ Items(p) \in SUBSET Index
    BY <2>1, EntryProperty DEF ItemsIn
  <2> QED
    BY <2>2, EntryCountAssumption DEF Index, NONE
<1>6. ASSUME NEW i \in match PROVE entry[p][i].kind = "BLOB_DATA" /\ i \in Items(p)
  <2>1. i \in Items(p) /\ entry[p][i].chunk = c
    OBVIOUS
  <2>2. entry[p][i] \in Content
    BY <1>2, <2>1, HeldProperty DEF Content, At
  <2> QED
    BY <1>2, <2>1, <2>2, ChunkNumbers
<1>7. match \in SUBSET Nat
  BY <1>5
<1> HIDE DEF match
<1>8. FindOnPage(p, "BLOB_DATA", k, c, VER_ANY) # NONE
  <2>1. Min(match) \in match
    BY <1>4, <1>7, MinProperty
  <2> QED
    BY <1>3, <1>4, <1>5, <1>6, <2>1
<1> DEFINE q == FindPage("BLOB_DATA", k, c, VER_ANY)
           j == FindOnPage(q, "BLOB_DATA", k, c, VER_ANY)
<1>9. q # NoPage
  BY <1>2, <1>8, FindPageProperty
<1>10. q \in Sector /\ j \in Items(q)
       /\ entry[q][j].kind = "BLOB_DATA" /\ entry[q][j].key = k /\ entry[q][j].chunk = c
  BY <1>9, FoundPlace
<1>11. ChunkData(k, c) = CHOOSE d \in {y.data : y \in {entry[q][j]}} : TRUE
  BY <1>9 DEF ChunkData, FoundItem
<1>12. ChunkPage(k, c) # NoPage
  BY <1>9 DEF ChunkPage
<1> HIDE DEF q, j
<1>13. <<q, j>> \in ChunkPlaces /\ At(<<q, j>>) = entry[q][j]
  BY <1>10, HeldProperty DEF ChunkPlaces, At
<1>14. <<q, j>> = v
  BY <1>1, <1>2, <1>10, <1>13 DEF OneChunk
<1>15. entry[q][j] = x
  BY <1>1, <1>13, <1>14
<1>16. ChunkData(k, c) = x.data
  BY <1>11, <1>15
<1> QED
  BY <1>12, <1>16

\* A blob whose chunks are there is read.
LEMMA HoldsProperty ==
  ASSUME PagesInv, NumberInv, OneChunk, NEW x \in Content, x.kind = "BLOB_IDX",
         NEW b, Holds(Content, x.key, x.chunkStart, x.chunkCount, b)
  PROVE  ~ChunkMissing(x) /\ DataOf(x) = b
<1> DEFINE k == x.key
           start == x.chunkStart
           count == x.chunkCount
<1>1. PICK d \in Seq(Seq(Datum)) :
        /\ Len(d) = count /\ FlattenSeq(d) = b
        /\ \A n \in 1 .. count : BlobData(k, start + n - 1, d[n]) \in Content
  BY DEF Holds
<1>2. ASSUME NEW n \in 1 .. count
      PROVE  ChunkPage(k, start + n - 1) # NoPage /\ ChunkData(k, start + n - 1) = d[n]
  <2> DEFINE c == BlobData(k, start + n - 1, d[n])
  <2>1. c \in Content /\ c.kind = "BLOB_DATA" /\ c.key = k /\ c.chunk = start + n - 1 /\ c.data = d[n]
    BY <1>1 DEF BlobData
  <2> HIDE DEF c
  <2>2. ChunkPage(c.key, c.chunk) # NoPage /\ ChunkData(c.key, c.chunk) = c.data
    BY <2>1, ChunkFound
  <2> QED
    BY <2>1, <2>2
<1>3. ~ChunkMissing(x)
  BY <1>2 DEF ChunkMissing
<1>4. [n \in 1 .. count |-> ChunkData(k, start + n - 1)] = d
  <2>1. d = [n \in 1 .. count |-> d[n]]
    BY <1>1
  <2> QED
    BY <1>2, <2>1
<1>5. DataOf(x) = FlattenSeq([n \in 1 .. count |-> ChunkData(k, start + n - 1)])
  BY DEF DataOf
<1> QED
  BY <1>1, <1>3, <1>4, <1>5

-----------------------------------------------------------------------------
(* What is kept of the data when the content changes. *)

\* A blob holds its data as long as the chunks its index counts are there.
LEMMA HoldsKept ==
  ASSUME NEW C, NEW D, NEW x, NEW data, Holds(C, x.key, x.chunkStart, x.chunkCount, data),
         x.chunkStart \in Nat, x.chunkCount \in Nat,
         \A c \in C : c.kind = "BLOB_DATA" /\ Counts(x, c) => c \in D
  PROVE  Holds(D, x.key, x.chunkStart, x.chunkCount, data)
<1> DEFINE k == x.key
           start == x.chunkStart
           count == x.chunkCount
<1>1. PICK d \in Seq(Seq(Datum)) :
        /\ Len(d) = count /\ FlattenSeq(d) = data
        /\ \A n \in 1 .. count : BlobData(k, start + n - 1, d[n]) \in C
  BY DEF Holds
<1>2. ASSUME NEW n \in 1 .. count PROVE BlobData(k, start + n - 1, d[n]) \in D
  <2> DEFINE c == BlobData(k, start + n - 1, d[n])
  <2>1. c \in C /\ c.kind = "BLOB_DATA" /\ c.key = k /\ c.chunk = start + n - 1
    BY <1>1 DEF BlobData
  <2>2. start <= start + n - 1 /\ start + n - 1 < start + count
    OBVIOUS
  <2> HIDE DEF c
  <2>3. Counts(x, c)
    BY <2>1, <2>2 DEF Counts
  <2>4. c \in D
    BY <2>1, <2>3
  <2> QED
    BY <2>4 DEF c
<1> QED
  BY <1>1, <1>2 DEF Holds

LEMMA HoldsMore ==
  ASSUME NEW C, NEW D, C \subseteq D, NEW k, NEW start, NEW count, NEW data,
         Holds(C, k, start, count, data)
  PROVE  Holds(D, k, start, count, data)
BY DEF Holds

\* The indices are among those that were there, and no chunk they count is lost.
LEMMA CompleteKept ==
  ASSUME NEW C, NEW D, Complete(C),
         \A x \in D : x.kind = "BLOB_IDX" => x \in C /\ x.chunkStart \in Nat /\ x.chunkCount \in Nat,
         \A c \in C : c.kind = "BLOB_DATA" /\ Counted(D, c) => c \in D
  PROVE  Complete(D)
<1> SUFFICES ASSUME NEW x \in D, x.kind = "BLOB_IDX"
             PROVE  /\ x.chunkCount <= 127
                    /\ \E b \in Blob : /\ Len(b) = x.dataSize
                                       /\ Holds(D, x.key, x.chunkStart, x.chunkCount, b)
  BY DEF Complete
<1>1. /\ x.chunkCount <= 127 /\ x.chunkStart \in Nat /\ x.chunkCount \in Nat
      /\ \E b \in Blob : Len(b) = x.dataSize /\ Holds(C, x.key, x.chunkStart, x.chunkCount, b)
  BY DEF Complete
<1>2. PICK b \in Blob : Len(b) = x.dataSize /\ Holds(C, x.key, x.chunkStart, x.chunkCount, b)
  BY <1>1
<1>3. \A c \in C : c.kind = "BLOB_DATA" /\ Counts(x, c) => c \in D
  BY DEF Counted
<1>4. Holds(D, x.key, x.chunkStart, x.chunkCount, b)
  BY <1>1, <1>2, <1>3, HoldsKept
<1> QED
  BY <1>1, <1>2, <1>4

LEMMA OneChunkKept ==
  ASSUME OneChunk, NothingNew
  PROVE  OneChunk'
<1>1. PICK f : /\ \A v \in Held' : f[v] \in Held /\ At(v)' = At(f[v])
               /\ \A v, w \in Held' : f[v] = f[w] => v = w
  BY DEF NothingNew
<1>2. ASSUME NEW v \in ChunkPlaces', NEW w \in ChunkPlaces',
             At(v)'.key = At(w)'.key, At(v)'.chunk = At(w)'.chunk
      PROVE  v = w
  <2>1. /\ v \in Held' /\ At(v)'.kind = "BLOB_DATA" /\ w \in Held' /\ At(w)'.kind = "BLOB_DATA"
    BY DEF ChunkPlaces
  <2>2. f[v] \in ChunkPlaces /\ f[w] \in ChunkPlaces
    BY <1>1, <2>1 DEF ChunkPlaces
  <2>3. f[v] = f[w]
    BY <1>1, <1>2, <2>1, <2>2 DEF OneChunk
  <2> QED
    BY <1>1, <2>1, <2>3
<1> QED
  BY <1>2 DEF OneChunk

\* What a chunk or an index is after which number.
LEMMA RangesDisjoint ==
  ASSUME NEW x, NEW c, x.kind = "BLOB_IDX", Counts(x, c), x.chunkStart \in {0, 128},
         x.chunkCount \in Nat, x.chunkCount <= 127, c.chunk \in Nat,
         NEW start \in {0, 128}, start <= c.chunk, c.chunk < start + 128
  PROVE  x.chunkStart = start
BY DEF Counts

\* An item is erased: a head, or a chunk.
LEMMA HeadErased ==
  ASSUME PagesInv, OneChunk, Complete(Content), NEW p \in Sector, NEW i \in Items(p), EraseItem(p, i),
         entry[p][i].kind # "BLOB_DATA"
  PROVE  /\ OneChunk' /\ Complete(Content') /\ Content' \subseteq Content
         /\ Content \subseteq Content' \cup {entry[p][i]}
         /\ \A c \in Content : c.kind = "BLOB_DATA" => c \in Content'
<1>1. /\ Content' \subseteq Content /\ Content \subseteq Content' \cup {entry[p][i]} /\ NothingNew
  BY EraseContent, EraseHeld
<1>2. \A c \in Content : c.kind = "BLOB_DATA" => c \in Content'
  BY <1>1
<1>3. Complete(Content')
  BY <1>1, <1>2, ContentProperty, CompleteKept
<1> QED
  BY <1>1, <1>2, <1>3, OneChunkKept

LEMMA ChunkErased ==
  ASSUME PagesInv, OneChunk, Complete(Content), NEW p \in Sector, NEW i \in Items(p), EraseItem(p, i),
         entry[p][i].kind = "BLOB_DATA", ~Counted(Content, entry[p][i])
  PROVE  /\ OneChunk' /\ Complete(Content') /\ Content' \subseteq Content
         /\ Content \subseteq Content' \cup {entry[p][i]}
         /\ \A x \in Content : x.kind = "BLOB_IDX" => x \in Content'
         /\ \A c \in Content' : c.kind = "BLOB_DATA" =>
              c.key # entry[p][i].key \/ c.chunk # entry[p][i].chunk
<1>1. /\ <<p, i>> \in Held /\ At(<<p, i>>) = entry[p][i]
      /\ Content' \subseteq Content /\ Content \subseteq Content' \cup {entry[p][i]} /\ NothingNew
      /\ Held' = Held \ {<<p, i>>} /\ \A v \in Held' : At(v)' = At(v)
  BY EraseContent, EraseHeld
<1>2. \A x \in Content : x.kind = "BLOB_IDX" => x \in Content'
  BY <1>1
<1>3. \A c \in Content : c.kind = "BLOB_DATA" /\ Counted(Content', c) => c \in Content'
  BY <1>1 DEF Counted
<1>4. Complete(Content')
  BY <1>1, <1>3, ContentProperty, CompleteKept
<1>5. ASSUME NEW c \in Content', c.kind = "BLOB_DATA", c.key = entry[p][i].key,
             c.chunk = entry[p][i].chunk
      PROVE  FALSE
  <2>1. PICK v \in Held' : At(v)' = c
    BY DEF Content
  <2>2. v \in Held /\ v # <<p, i>> /\ At(v) = c
    BY <1>1, <2>1
  <2>3. v \in ChunkPlaces /\ <<p, i>> \in ChunkPlaces
    BY <1>1, <1>5, <2>2 DEF ChunkPlaces
  <2> QED
    BY <1>1, <1>5, <2>2, <2>3 DEF OneChunk
<1> QED
  BY <1>1, <1>2, <1>4, <1>5, OneChunkKept

\* Nothing is written or erased.
LEMMA QuietData ==
  ASSUME OneChunk, Complete(Content), Content' = Content, NothingNew
  PROVE  OneChunk' /\ Complete(Content')
BY OneChunkKept

LEMMA UnchangedData ==
  ASSUME OneChunk, Complete(Content), UNCHANGED blobPageVars
  PROVE  OneChunk' /\ Complete(Content') /\ Content' = Content
BY SameContent, SameNothingNew, QuietData DEF blobPageVars

\* Between requests and when one is answered or begun every chunk is counted.
Quiet == pc \in {"idle", "return", "read", "findAny", "find"}

AllCounted == \A c \in Content : c.kind = "BLOB_DATA" => Counted(Content, c)

LEMMA QuietProperty ==
  /\ Quiet => (Owned <=> AllCounted)
  /\ Quiet \/ Loading => (VersionInv <=> Len(usedPages) <= 127)
<1>1. Quiet => ~Loading /\ ~Writing /\ pc \notin {"cleanup", "eraseChunks"}
  BY DEF Quiet, Loading, Writing
<1>2. Quiet \/ Loading => ~Writing /\ ~Replacing /\ pc \notin {"cleanup", "eraseChunks", "eraseIndex", "index"}
  BY DEF Quiet, Loading, Writing, Replacing
<1>3. Quiet => (Owned <=> AllCounted)
  BY <1>1 DEF Owned, AllCounted, BeingWritten, BeingErased
<1>4. Quiet \/ Loading => (VersionInv <=> Len(usedPages) <= 127)
  BY <1>2 DEF VersionInv
<1> QED
  BY <1>3, <1>4

-----------------------------------------------------------------------------
(* Requests that read, and that begin or end. *)

BlobInv == TypeInv /\ RoomForIndex /\ CountInv /\ NumberInv /\ HeadInv /\ DataInv

LEMMA IndexFound ==
  ASSUME BlobInv, NEW k
  PROVE  \A x \in IndexOf(k) :
           /\ x \in Content /\ x.kind = "BLOB_IDX" /\ x.key = k /\ x.chunkStart \in {0, 128}
           /\ ~ChunkMissing(x) /\ DataOf(x) \in Blob /\ Len(DataOf(x)) = x.dataSize
<1> TAKE x \in IndexOf(k)
<1> DEFINE p == FindPage("BLOB_IDX", k, CHUNK_ANY, VER_ANY)
           i == FindOnPage(p, "BLOB_IDX", k, CHUNK_ANY, VER_ANY)
<1>1. PagesInv /\ NumberInv /\ OneChunk /\ Complete(Content)
  BY DEF BlobInv, TypeInv, DataInv
<1>2. p # NoPage /\ x = entry[p][i]
  BY DEF IndexOf, FoundItem
<1>3. p \in Sector /\ i \in Items(p) /\ entry[p][i].kind = "BLOB_IDX" /\ entry[p][i].key = k
  BY <1>1, <1>2, FoundPlace
<1> HIDE DEF p, i
<1>4. x \in Content
  BY <1>1, <1>2, <1>3, HeldProperty DEF Content, At
<1>5. PICK b \in Blob : Len(b) = x.dataSize /\ Holds(Content, x.key, x.chunkStart, x.chunkCount, b)
  BY <1>1, <1>2, <1>3, <1>4 DEF Complete
<1>6. ~ChunkMissing(x) /\ DataOf(x) = b
  BY <1>1, <1>2, <1>3, <1>4, <1>5, HoldsProperty
<1> QED
  BY <1>1, <1>2, <1>3, <1>4, <1>5, <1>6, ContentProperty

LEMMA AnswerStays ==
  ASSUME AnswerInv, pc \notin {"cleanup", "return"}, ret' = ret,
         pc' \notin {"cleanup", "return", "aborted"}
  PROVE  AnswerInv'
BY DEF AnswerInv

\* Nothing is being written or erased, before or after.
LEMMA QuietStep ==
  ASSUME BlobInv, Quiet, Quiet', UNCHANGED blobPageVars, Len(usedPages') <= 127, AnswerInv'
  PROVE  DataInv'
<1>1. OneChunk' /\ Complete(Content') /\ Content' = Content
  BY UnchangedData DEF BlobInv, DataInv
<1>2. AllCounted
  BY QuietProperty DEF BlobInv, DataInv
<1>3. Owned'
  <2>1. (Quiet => (Owned <=> AllCounted))'
    BY QuietProperty, PTL
  <2> QED
    BY <1>1, <1>2, <2>1 DEF AllCounted
<1>4. VersionInv'
  <2>1. (Quiet \/ Loading => (VersionInv <=> Len(usedPages) <= 127))'
    BY QuietProperty, PTL
  <2> QED
    BY <2>1
<1> QED
  BY <1>1, <1>3, <1>4 DEF DataInv

LEMMA BeginData == ASSUME BlobInv, Begin PROVE DataInv'
<1>1. /\ UNCHANGED blobPageVars /\ usedPages' = usedPages /\ ret' = ret
      /\ pc = "idle" /\ pc' \in {"find", "read", "findAny"}
  BY DEF Begin, localVars
<1>2. AnswerInv' /\ Len(usedPages') <= 127
  BY <1>1, AnswerStays DEF BlobInv, DataInv, VersionInv
<1> QED
  BY <1>1, <1>2, QuietStep DEF Quiet

LEMMA ReturnData == ASSUME BlobInv, Return PROVE DataInv'
<1>1. /\ UNCHANGED blobPageVars /\ usedPages' = <<>> /\ ret' = "OK"
      /\ pc = "return" /\ pc' = "idle"
  BY DEF Return, ResetLocals
<1>2. AnswerInv' /\ Len(usedPages') <= 127
  BY <1>1 DEF AnswerInv
<1> QED
  BY <1>1, <1>2, QuietStep DEF Quiet

\* The chunks of a blob that has an index are there, and have the size it gives.
LEMMA ReadAnswers ==
  ASSUME BlobInv, Read
  PROVE  pc' = "return" /\ ret' \in {"OK", "NOT_FOUND"}
<1>1. CASE ~HasIndex(op.key)
  <2>1. IndexOf(op.key) = {}
    BY <1>1 DEF HasIndex
  <2> QED
    BY <2>1 DEF Read, ReadOldFormat
<1>2. CASE HasIndex(op.key)
  <2>1. \A x \in IndexOf(op.key) : ~ChunkMissing(x) /\ Len(DataOf(x)) = x.dataSize
    BY IndexFound
  <2> QED
    BY <1>2, <2>1 DEF Read
<1> QED
  BY <1>1, <1>2

LEMMA ReadData == ASSUME BlobInv, Read PROVE DataInv'
<1>1. UNCHANGED blobPageVars /\ usedPages' = usedPages /\ op' = op /\ pc = "read" /\ op.name = "get"
  BY DEF Read, localVars, BlobInv, TypeInv, BlobControl
<1>2. pc' = "return" /\ ret' \in {"OK", "NOT_FOUND"}
  BY ReadAnswers
<1>3. AnswerInv' /\ Len(usedPages') <= 127
  BY <1>1, <1>2 DEF AnswerInv, BlobInv, DataInv, VersionInv
<1> QED
  BY <1>1, <1>2, <1>3, QuietStep DEF Quiet

\* Nothing is left when the last chunk is erased.
LEMMA ChunksErasedData == ASSUME BlobInv, ChunksErased PROVE DataInv'
<1>1. /\ UNCHANGED <<blobPageVars, op, usedPages>> /\ pc = "eraseChunks" /\ chunkNum = chunkCount
      /\ pc' = "return" /\ ret' \in {"OK", "NOT_FOUND"}
  BY DEF ChunksErased, ReadOldFormat, localVars
<1>2. OneChunk' /\ Complete(Content') /\ Content' = Content
  BY <1>1, UnchangedData DEF BlobInv, DataInv
<1>3. ASSUME NEW c \in Content, c.kind = "BLOB_DATA" PROVE Counted(Content, c)
  <2>1. Counted(Content, c) \/ BeingWritten(c) \/ BeingErased(c)
    BY <1>1, <1>3 DEF BlobInv, DataInv, Owned, Loading
  <2>2. ~BeingWritten(c)
    BY <1>1 DEF BeingWritten, Writing
  <2>3. c.chunk \in Nat /\ chunkStart \in Nat /\ chunkCount \in Nat
    BY <1>3, ContentProperty DEF BlobInv, TypeInv, LocalsType
  <2>4. ~BeingErased(c)
    BY <1>1, <2>3 DEF BeingErased
  <2> QED
    BY <2>1, <2>2, <2>4
<1>4. Owned'
  <2>1. (Quiet => (Owned <=> AllCounted))'
    BY QuietProperty, PTL
  <2> QED
    BY <1>1, <1>2, <1>3, <2>1 DEF Quiet, AllCounted
<1>5. VersionInv'
  <2>1. (Quiet \/ Loading => (VersionInv <=> Len(usedPages) <= 127))'
    BY QuietProperty, PTL
  <2> QED
    BY <1>1, <2>1 DEF Quiet, BlobInv, DataInv, VersionInv
<1>6. AnswerInv'
  BY <1>1 DEF AnswerInv
<1> QED
  BY <1>2, <1>4, <1>5, <1>6 DEF DataInv

-----------------------------------------------------------------------------
(* Requests that write. *)

\* What is written goes on, or is given up, while the content stays.
LEMMA WritingGoesOn ==
  ASSUME BlobInv, Writing, Writing' \/ pc' = "cleanup", Content' = Content, NothingNew,
         UNCHANGED <<op, prevStart, nextStart, offset, usedPages, chunkNum>>,
         pc' = "index" => offset = Len(op.val), AnswerInv'
  PROVE  DataInv'
<1>1. OneChunk' /\ Complete(Content')
  BY QuietData DEF BlobInv, DataInv
<1>2. Owned'
  <2>1. ~Loading /\ \A c : ~BeingErased(c)
    BY DEF Writing, Loading, BeingErased
  <2>2. \A c \in Content : c.kind = "BLOB_DATA" => Counted(Content, c) \/ BeingWritten(c)
    BY <2>1 DEF BlobInv, DataInv, Owned
  <2>3. \A c \in Content : BeingWritten(c) => BeingWritten(c)'
    BY DEF BeingWritten
  <2> QED
    BY <2>2, <2>3 DEF Owned
<1>3. VersionInv'
  <2>1. ~Replacing' /\ pc' \notin {"eraseIndex", "eraseChunks"} /\ (pc' = "cleanup" => ~Writing')
    BY DEF Replacing, Writing
  <2> QED
    BY <2>1 DEF BlobInv, DataInv, VersionInv
<1> QED
  BY <1>1, <1>2, <1>3 DEF DataInv

LEMMA SkipPageData == ASSUME BlobInv, SkipPage PROVE DataInv'
<1>1. /\ pc = "chunk" /\ pc' = "skip" /\ ret' = ret
      /\ UNCHANGED <<op, prevStart, nextStart, offset, usedPages, chunkNum>>
      /\ UNCHANGED blobPageVars \/ MarkBackFull
  BY DEF SkipPage, eraseVars
<1>2. entry' = entry
  BY <1>1 DEF blobPageVars, MarkBackFull
<1>3. AnswerInv'
  BY <1>1, AnswerStays DEF BlobInv, DataInv
<1> QED
  BY <1>1, <1>2, <1>3, SameContent, SameNothingNew, WritingGoesOn DEF Writing

LEMMA MarkFullData == ASSUME BlobInv, MarkFull PROVE DataInv'
<1>1. /\ pc = "full" /\ pc' = "next" /\ ret' = ret
      /\ UNCHANGED <<op, prevStart, nextStart, offset, usedPages, chunkNum>>
      /\ entry' = entry
  BY DEF MarkFull, eraseVars, localVars, MarkBackFull
<1>2. AnswerInv'
  BY <1>1, AnswerStays DEF BlobInv, DataInv
<1> QED
  BY <1>1, <1>2, SameContent, SameNothingNew, WritingGoesOn DEF Writing

LEMMA NoTailroomData == ASSUME BlobInv, NoTailroom PROVE DataInv'
<1>1. /\ pc = "chunk" /\ pc' = "cleanup" /\ ret' = "NOT_ENOUGH_SPACE"
      /\ UNCHANGED <<op, prevStart, nextStart, offset, usedPages, chunkNum>>
      /\ entry' = entry
  BY DEF NoTailroom, eraseVars, localVars, blobPageVars
<1>2. AnswerInv'
  BY <1>1 DEF AnswerInv
<1> QED
  BY <1>1, <1>2, SameContent, SameNothingNew, WritingGoesOn DEF Writing

LEMMA NextPageData == ASSUME BlobInv, NextPage PROVE DataInv'
<1>1. /\ pc = "next" /\ UNCHANGED <<op, prevStart, nextStart, offset, usedPages, chunkNum>>
      /\ \/ pc' = "cleanup" /\ ret' = "NOT_ENOUGH_SPACE" /\ UNCHANGED blobPageVars
         \/ /\ ~NewPageRefused /\ RequestNewPage /\ ret' = ret
            /\ pc' = IF offset < Len(op.val) THEN "chunk" ELSE "index"
  BY DEF NextPage, eraseVars, localVars
<1>2. offset \in Nat /\ offset <= Len(op.val) /\ Len(op.val) \in Nat
  BY <1>1, RequestProperty DEF BlobInv, TypeInv, LocalsType, BlobControl, SetPC
<1>3. pc' = "index" => offset = Len(op.val)
  BY <1>1, <1>2
<1>4. AnswerInv'
  BY <1>1, AnswerStays DEF BlobInv, DataInv, AnswerInv
<1>5. Content' = Content /\ NothingNew
  BY <1>1, MoveContent, MoveHeld, SameContent, SameNothingNew DEF BlobInv, TypeInv, blobPageVars
<1> QED
  BY <1>1, <1>3, <1>4, <1>5, WritingGoesOn DEF Writing

\* Before the first chunk is written a set can be given up.
LEMMA SkipToNewPageData == ASSUME BlobInv, SkipToNewPage PROVE DataInv'
<1>1. /\ pc = "skip" /\ UNCHANGED <<op, prevStart, nextStart, offset, usedPages, chunkNum>>
      /\ \/ pc' = "return" /\ ret' = "NOT_ENOUGH_SPACE"
         \/ pc' = "chunk" /\ ret' = ret
      /\ \/ UNCHANGED blobPageVars
         \/ ~NewPageRefused /\ RequestNewPage
  BY DEF SkipToNewPage, eraseVars, localVars
<1>2. Content' = Content /\ NothingNew
  BY <1>1, MoveContent, MoveHeld, SameContent, SameNothingNew DEF BlobInv, TypeInv, blobPageVars
<1>3. CASE pc' = "chunk"
  <2>1. AnswerInv'
    BY <1>1, <1>3, AnswerStays DEF BlobInv, DataInv
  <2> QED
    BY <1>1, <1>2, <1>3, <2>1, WritingGoesOn DEF Writing
<1>4. CASE pc' = "return"
  <2>1. OneChunk' /\ Complete(Content')
    BY <1>2, QuietData DEF BlobInv, DataInv
  <2>2. usedPages = <<>> /\ op.name = "set"
    BY <1>1 DEF BlobInv, TypeInv, BlobControl, SetPC
  <2>3. ASSUME NEW c \in Content, c.kind = "BLOB_DATA" PROVE Counted(Content, c)
    <3>1. Counted(Content, c) \/ BeingWritten(c) \/ BeingErased(c)
      BY <1>1, <2>3 DEF BlobInv, DataInv, Owned, Loading
    <3>2. ~BeingErased(c)
      BY <1>1 DEF BeingErased
    <3>3. c.chunk \in Nat /\ nextStart \in Nat /\ chunkNum \in Nat
      BY <2>3, ContentProperty DEF BlobInv, TypeInv, LocalsType
    <3>4. ~BeingWritten(c)
      BY <2>2, <3>3 DEF BeingWritten
    <3> QED
      BY <3>1, <3>2, <3>4
  <2>4. Owned' /\ VersionInv'
    <3>1. (Quiet => (Owned <=> AllCounted))'
          /\ (Quiet \/ Loading => (VersionInv <=> Len(usedPages) <= 127))'
      BY QuietProperty, PTL
    <3> QED
      BY <1>1, <1>2, <1>4, <2>2, <2>3, <3>1 DEF Quiet, AllCounted
  <2>5. AnswerInv'
    BY <1>1, <1>4, <2>2 DEF AnswerInv
  <2> QED
    BY <2>1, <2>4, <2>5 DEF DataInv
<1> QED
  BY <1>1, <1>3, <1>4

-----------------------------------------------------------------------------
(* The beginning of a set, and what it writes. *)

LEMMA CountedBefore ==
  ASSUME Owned, ~Loading, ~Writing, pc \notin {"cleanup", "eraseChunks"}
  PROVE  AllCounted
BY DEF Owned, AllCounted, BeingWritten, BeingErased

\* The request or load() is done, and nothing is left over.
LEMMA QuietAfter ==
  ASSUME OneChunk', Complete(Content'), AllCounted', Quiet', Len(usedPages') <= 127, AnswerInv'
  PROVE  DataInv'
<1>1. (Quiet => (Owned <=> AllCounted))' /\ (Quiet \/ Loading => (VersionInv <=> Len(usedPages) <= 127))'
  BY QuietProperty, PTL
<1> QED
  BY <1>1 DEF DataInv

\* A version has a head.
LEMMA VersionHead ==
  ASSUME PagesInv
  PROVE  /\ \A k, start : HasVersion(Content, k, start) <=>
              \E v \in Heads : At(v).kind = "BLOB_IDX" /\ At(v).key = k /\ At(v).chunkStart = start
         /\ \A x \in Content : x.kind # "BLOB_DATA" => \E v \in Heads : At(v) = x
         /\ \A v \in Heads : At(v) \in Content
<1>1. /\ \A v \in Heads : v \in Held /\ At(v).kind # "BLOB_DATA"
      /\ \A v \in Held : At(v).kind # "BLOB_DATA" => v \in Heads
  BY DEF Heads
<1>2. \A x : x \in Content <=> \E v \in Held : At(v) = x
  BY DEF Content
<1> QED
  BY <1>1, <1>2 DEF HasVersion

LEMMA FindData == ASSUME BlobInv, Find PROVE DataInv'
<1>1. /\ pc = "find" /\ UNCHANGED <<op, offset, usedPages, chunkNum>> /\ UNCHANGED blobPageVars
      /\ prevStart' = IF HasIndex(op.key) THEN PrevStart(op.key) ELSE VER_ANY
      /\ \/ pc' = "return" /\ ret' \in {"OK", "VALUE_TOO_LONG"}
         \/ pc' = "aborted" /\ TooShort(op.key, op.val) /\ ~Unmodified(op.key, op.val)
         \/ pc' = "chunk" /\ ret' = ret
  BY DEF Find, eraseVars
<1>2. op.name = "set" /\ offset = 0 /\ usedPages = <<>> /\ chunkNum = 0 /\ op.val \in Seq(Datum)
  BY <1>1, RequestProperty DEF BlobInv, TypeInv, LocalsType, BlobControl, SetPC
<1>3. OneChunk' /\ Complete(Content') /\ Content' = Content
  BY <1>1, UnchangedData DEF BlobInv, DataInv
<1>4. AllCounted /\ PagesInv
  BY <1>1, CountedBefore DEF BlobInv, DataInv, TypeInv, Loading, Writing
<1>5. CASE pc' = "return"
  BY <1>1, <1>2, <1>3, <1>4, <1>5, QuietAfter DEF AllCounted, Quiet, AnswerInv
<1>6. ~TooShort(op.key, op.val) \/ Unmodified(op.key, op.val)
  <2> SUFFICES ASSUME NEW x \in IndexOf(op.key), x.dataSize = Len(op.val), IsStrictPrefix(DataOf(x), op.val)
               PROVE  FALSE
    BY DEF TooShort, Compared
  <2>1. DataOf(x) \in Seq(Datum) /\ Len(DataOf(x)) = Len(op.val)
    BY IndexFound, BlobAssumption
  <2> DEFINE d == DataOf(x)
  <2>2. SubSeq(d, 1, Len(d)) = SubSeq(op.val, 1, Len(d)) /\ d # op.val
    BY DEF IsStrictPrefix, IsPrefix
  <2> HIDE DEF d
  <2>3. SubSeq(d, 1, Len(d)) = d /\ SubSeq(op.val, 1, Len(op.val)) = op.val
    BY <1>2, <2>1 DEF d
  <2> QED
    BY <2>1, <2>2, <2>3 DEF d
<1>7. CASE pc' = "chunk"
  <2>1. /\ nextStart' # prevStart'
        /\ \A v \in Heads : At(v).key = op.key =>
             IF prevStart' = VER_ANY THEN At(v).kind = "BLOB"
             ELSE At(v).kind = "BLOB_IDX" /\ At(v).chunkStart = prevStart'
    BY <1>7, FindHeads DEF BlobInv
  <2>2. ~HasVersion(Content, op.key, nextStart')
    BY <1>4, <2>1, VersionHead
  <2>3. prevStart' # VER_ANY => HasVersion(Content, op.key, prevStart')
    <3> SUFFICES ASSUME HasIndex(op.key) PROVE HasVersion(Content, op.key, PrevStart(op.key))
      BY <1>1
    <3>1. PICK x \in IndexOf(op.key) : PrevStart(op.key) = x.chunkStart
      BY DEF HasIndex, PrevStart
    <3> QED
      BY <3>1, IndexFound DEF HasVersion
  <2>4. Holds(Content, op.key, nextStart', 0, <<>>)
    <3>1. <<>> \in Seq(Seq(Datum)) /\ <<>> \in Seq(Datum) /\ Len(<<>>) = 0
      OBVIOUS
    <3>2. FlattenSeq(<<>>) = <<>>
      BY <3>1, FlattenAppend
    <3>3. \A n \in 1 .. 0 : FALSE
      OBVIOUS
    <3> QED
      BY <3>1, <3>2, <3>3 DEF Holds
  <2>5. Len(usedPages') = 0 /\ SubSeq(op'.val, 1, offset') = <<>>
    BY <1>1, <1>2
  <2>6. VersionInv'
    <3>1. /\ Holds(Content', op'.key, nextStart', Len(usedPages'), SubSeq(op'.val, 1, offset'))
          /\ ~HasVersion(Content', op'.key, nextStart')
          /\ prevStart' # VER_ANY => HasVersion(Content', op'.key, prevStart')
      BY <1>1, <1>3, <2>2, <2>3, <2>4, <2>5
    <3>2. ~Replacing' /\ pc' \notin {"cleanup", "index", "eraseIndex", "eraseChunks"}
      BY <1>7 DEF Replacing
    <3>3. Len(usedPages') <= 127
      BY <2>5
    <3> QED
      BY <3>1, <3>2, <3>3 DEF VersionInv
  <2>7. Owned'
    BY <1>3, <1>4 DEF Owned, AllCounted
  <2>8. AnswerInv'
    BY <1>1, <1>7, AnswerStays DEF BlobInv, DataInv
  <2> QED
    BY <1>3, <2>6, <2>7, <2>8 DEF DataInv
<1> QED
  BY <1>1, <1>5, <1>6, <1>7

\* An item is written: a head, or a chunk that there is not yet.
LEMMA ItemWritten ==
  ASSUME PagesInv, OneChunk, NEW x \in Item, WriteBack(x), NextFree(Back) + Span(x) <= ENTRY_COUNT,
         \A c \in Content : c.kind = "BLOB_DATA" /\ x.kind = "BLOB_DATA" /\ c.key = x.key =>
           c.chunk # x.chunk
  PROVE  OneChunk'
<1> DEFINE n == <<Back, FirstEmpty(entry[Back])>>
<1>1. /\ Held' = Held \cup {n} /\ n \notin Held
      /\ entry'[n[1]][n[2]] = x /\ \A w \in Held : At(w)' = At(w)
  BY WriteHeld
<1> HIDE DEF n
<1>2. PICK m : m = n
  OBVIOUS
<1>3. At(m)' = x
  BY <1>1, <1>2 DEF At
<1>4. \A v \in ChunkPlaces' : \/ v \in ChunkPlaces /\ At(v)' = At(v)
                              \/ v = m /\ x.kind = "BLOB_DATA"
  BY <1>1, <1>2, <1>3 DEF ChunkPlaces
<1>5. \A v \in ChunkPlaces : At(v) \in Content /\ At(v).kind = "BLOB_DATA"
  BY DEF ChunkPlaces, Content
<1> QED
  BY <1>3, <1>4, <1>5 DEF OneChunk

\* A number from which on nothing is written yet belongs to no chunk.
LEMMA NewNumber ==
  ASSUME BlobInv, WriteChunk, PageCount < 128, NEW c \in Content, c.kind = "BLOB_DATA", c.key = op.key
  PROVE  c.chunk # nextStart + Len(usedPages)
<1> SUFFICES ASSUME c.chunk = nextStart + Len(usedPages) PROVE FALSE
  OBVIOUS
<1>1. /\ PagesInv /\ pc = "chunk" /\ nextStart \in {0, 128} /\ Len(usedPages) \in Nat /\ c.chunk \in Nat
      /\ Len(usedPages) < 128
  BY ContentProperty, FewChunks, PageCountAssumption DEF BlobInv, TypeInv, LocalsType, WriteChunk
<1>2. Counted(Content, c)
  <2>1. ~BeingWritten(c) /\ ~BeingErased(c)
    BY <1>1 DEF BeingWritten, BeingErased
  <2> QED
    BY <1>1, <2>1 DEF BlobInv, DataInv, Owned, Loading
<1>3. PICK x \in Content : x.kind = "BLOB_IDX" /\ Counts(x, c)
  BY <1>2 DEF Counted
<1>4. x.chunkStart \in {0, 128} /\ x.chunkCount \in Nat /\ x.chunkCount <= 127 /\ x.key = op.key
  BY <1>1, <1>3, ContentProperty DEF BlobInv, DataInv, Complete, Counts
<1>5. x.chunkStart = nextStart
  BY <1>1, <1>3, <1>4, RangesDisjoint
<1> QED
  BY <1>1, <1>3, <1>4, <1>5 DEF BlobInv, DataInv, VersionInv, Writing, HasVersion

\* What is written so far, and the next chunk.
LEMMA MoreHeld ==
  ASSUME NEW C, NEW D, NEW k, NEW start \in Nat, NEW count \in Nat, NEW v \in Seq(Datum),
         NEW m \in 0 .. Len(v), NEW size \in Nat, m + size <= Len(v),
         Holds(C, k, start, count, SubSeq(v, 1, m)), C \subseteq D,
         BlobData(k, start + count, SubSeq(v, m + 1, m + size)) \in D
  PROVE  Holds(D, k, start, count + 1, SubSeq(v, 1, m + size))
<1>1. PICK d \in Seq(Seq(Datum)) :
        /\ Len(d) = count /\ FlattenSeq(d) = SubSeq(v, 1, m)
        /\ \A n \in 1 .. count : BlobData(k, start + n - 1, d[n]) \in C
  BY DEF Holds
<1> DEFINE new == SubSeq(v, m + 1, m + size)
           e == Append(d, new)
<1>2. new \in Seq(Datum)
  OBVIOUS
<1>3. SubSeq(v, 1, m) \o new = SubSeq(v, 1, m + size)
  OBVIOUS
<1> HIDE DEF new
<1>4. e \in Seq(Seq(Datum)) /\ Len(e) = count + 1 /\ e[count + 1] = new
      /\ \A n \in 1 .. count : e[n] = d[n]
  BY <1>1, <1>2
<1>5. FlattenSeq(e) = SubSeq(v, 1, m + size)
  BY <1>1, <1>2, <1>3, FlattenAppend
<1> HIDE DEF e
<1>6. ASSUME NEW n \in 1 .. count + 1 PROVE BlobData(k, start + n - 1, e[n]) \in D
  <2>1. CASE n = count + 1
    <3>1. start + n - 1 = start + count
      BY <2>1
    <3> QED
      BY <1>4, <2>1, <3>1 DEF new
  <2>2. CASE n # count + 1
    <3>1. n \in 1 .. count
      BY <2>2
    <3>2. BlobData(k, start + n - 1, d[n]) \in C
      BY <1>1, <3>1
    <3> QED
      BY <1>4, <3>1, <3>2
  <2> QED
    BY <2>1, <2>2
<1> QED
  BY <1>4, <1>5, <1>6 DEF Holds

LEMMA WriteChunkData == ASSUME BlobInv, WriteChunk, PageCount < 128 PROVE DataInv'
<1>1. /\ pc = "chunk" /\ ret' = ret /\ UNCHANGED <<op, prevStart, nextStart, chunkNum>>
      /\ pc' = IF GoOn(ChunkSize) THEN "full" ELSE "index"
  BY DEF WriteChunk, ChunkSize, eraseVars
<1>2. /\ WriteBack(NewChunk) /\ NewChunk \in Item /\ NextFree(Back) + Span(NewChunk) <= ENTRY_COUNT
      /\ offset' = offset + ChunkSize /\ usedPages' = Append(usedPages, Back)
      /\ ChunkSize \in Nat /\ offset + ChunkSize <= Len(op.val) /\ Len(usedPages) \in Nat
      /\ Back \in Sector /\ op.name = "set" /\ PagesInv
  BY ChunkProperty DEF BlobInv, TypeInv
<1>3. /\ NewChunk.kind = "BLOB_DATA" /\ NewChunk.key = op.key
      /\ NewChunk.chunk = nextStart + Len(usedPages)
  BY DEF NewChunk, BlobData
<1>4. /\ usedPages \in Seq(Sector) /\ nextStart \in {0, 128} /\ offset \in Nat /\ chunkNum = 0
      /\ op.val \in Seq(Datum) /\ Len(op.val) \in Nat /\ Len(usedPages) < 127
  BY <1>1, <1>2, RequestProperty, FewChunks, PageCountAssumption
  DEF BlobInv, TypeInv, LocalsType, BlobControl, SetPC
<1>5. Content' = Content \cup {NewChunk}
  BY <1>2, WriteContent
<1>6. OneChunk'
  BY <1>2, <1>3, NewNumber, ItemWritten DEF BlobInv, DataInv
<1>7. Complete(Content')
  BY <1>2, <1>3, <1>5, ContentProperty, CompleteKept DEF BlobInv, DataInv
<1>8. Len(usedPages') = Len(usedPages) + 1
  BY <1>2, <1>4
<1>9. Owned'
  <2> SUFFICES ASSUME NEW c \in Content', c.kind = "BLOB_DATA"
               PROVE  Counted(Content', c) \/ BeingWritten(c)'
    BY DEF Owned
  <2>1. Writing'
    BY <1>1 DEF Writing
  <2>2. CASE c = NewChunk
    BY <1>1, <1>3, <1>4, <1>8, <2>1, <2>2 DEF BeingWritten
  <2>3. CASE c \in Content
    <3>1. Counted(Content, c) \/ BeingWritten(c)
      BY <1>1, <2>3 DEF BlobInv, DataInv, Owned, Loading, BeingErased
    <3>2. Counted(Content, c) => Counted(Content', c)
      BY <1>5 DEF Counted
    <3>3. c.chunk \in Nat
      BY <1>2, <2>3, ContentProperty
    <3>4. BeingWritten(c) => BeingWritten(c)'
      BY <1>1, <1>4, <1>8, <2>1, <3>3 DEF BeingWritten
    <3> QED
      BY <3>1, <3>2, <3>4
  <2> QED
    BY <1>5, <2>2, <2>3
<1>10. Holds(Content', op.key, nextStart, Len(usedPages) + 1, SubSeq(op.val, 1, offset + ChunkSize))
  <2>1. Holds(Content, op.key, nextStart, Len(usedPages), SubSeq(op.val, 1, offset))
    BY <1>1 DEF BlobInv, DataInv, VersionInv, Writing
  <2>2. BlobData(op.key, nextStart + Len(usedPages), SubSeq(op.val, offset + 1, offset + ChunkSize))
          \in Content'
    BY <1>5 DEF NewChunk
  <2>3. offset \in 0 .. Len(op.val) /\ nextStart \in Nat /\ Content \subseteq Content'
    BY <1>2, <1>4, <1>5
  <2>4. PICK D, size : D = Content' /\ size = ChunkSize
    OBVIOUS
  <2>5. /\ offset + size <= Len(op.val) /\ size \in Nat /\ Content \subseteq D
        /\ BlobData(op.key, nextStart + Len(usedPages), SubSeq(op.val, offset + 1, offset + size)) \in D
    BY <1>2, <2>2, <2>3, <2>4
  <2>6. op.val \in Seq(Datum) /\ Len(usedPages) \in Nat
    BY <1>2, <1>4
  <2>7. Holds(D, op.key, nextStart, Len(usedPages) + 1, SubSeq(op.val, 1, offset + size))
    BY <2>1, <2>3, <2>5, <2>6, MoreHeld
  <2> QED
    BY <2>4, <2>7
<1>11. ~HasVersion(Content', op.key, nextStart)
       /\ (prevStart # VER_ANY => HasVersion(Content', op.key, prevStart))
  BY <1>1, <1>3, <1>5 DEF BlobInv, DataInv, VersionInv, Writing, HasVersion
<1>12. pc' = "index" => offset' = Len(op.val)
  <2>1. pc' = "index" => ~GoOn(ChunkSize)
    BY <1>1
  <2>2. ~GoOn(ChunkSize) => ~(offset + ChunkSize < Len(op.val))
    BY DEF GoOn
  <2>3. /\ offset \in Nat /\ ChunkSize \in Nat /\ Len(op.val) \in Nat
        /\ offset + ChunkSize <= Len(op.val) /\ offset' = offset + ChunkSize
    BY <1>2, <1>4
  <2> QED
    BY <2>1, <2>2, <2>3
<1>13. VersionInv'
  BY <1>1, <1>2, <1>4, <1>8, <1>10, <1>11, <1>12 DEF VersionInv, Writing, Replacing
<1>14. AnswerInv'
  BY <1>1, AnswerStays DEF BlobInv, DataInv
<1> QED
  BY <1>6, <1>7, <1>9, <1>13, <1>14 DEF DataInv

\* The chunks written become a blob.
LEMMA WriteIndexData == ASSUME BlobInv, WriteIndex PROVE DataInv'
<1>1. pc = "index" /\ Fits(NewIndex) /\ PagesInv
  BY IndexFits DEF BlobInv, TypeInv, WriteIndex
<1>2. /\ UNCHANGED <<op, prevStart, nextStart, offset, usedPages, chunkNum>> /\ ret' = ret
      /\ WriteBack(NewIndex) /\ pc' = IF prevStart = VER_ANY THEN "eraseOld" ELSE "eraseIndex"
  BY <1>1 DEF WriteIndex, NewIndex, localVars, eraseVars
<1>3. /\ op.name = "set" /\ NewIndex \in Item /\ NewIndex.kind = "BLOB_IDX" /\ NewIndex.key = op.key
      /\ NewIndex.chunkStart = nextStart /\ NewIndex.chunkCount = Len(usedPages)
      /\ NewIndex.dataSize = Len(op.val) /\ NextFree(Back) + Span(NewIndex) <= ENTRY_COUNT
  BY <1>1, NewIndexProperty DEF BlobInv, NewIndex, BlobIndex, Fits
<1>4. Content' = Content \cup {NewIndex}
  BY <1>1, <1>2, <1>3, WriteContent
<1>5. OneChunk'
  BY <1>1, <1>2, <1>3, ItemWritten DEF BlobInv, DataInv
<1>6. /\ Len(usedPages) <= 127 /\ offset = Len(op.val) /\ op.val \in Blob
      /\ Holds(Content, op.key, nextStart, Len(usedPages), op.val)
  <2>1. op.val \in Blob /\ op.val \in Seq(Datum)
    BY <1>3, RequestProperty DEF BlobInv, TypeInv, LocalsType
  <2>2. SubSeq(op.val, 1, Len(op.val)) = op.val
    BY <2>1
  <2>3. /\ Len(usedPages) <= 127 /\ offset = Len(op.val)
        /\ Holds(Content, op.key, nextStart, Len(usedPages), SubSeq(op.val, 1, offset))
    BY <1>1 DEF BlobInv, DataInv, VersionInv, Writing
  <2> QED
    BY <2>1, <2>2, <2>3
<1>7. Complete(Content')
  <2> SUFFICES ASSUME NEW x \in Content', x.kind = "BLOB_IDX"
               PROVE  /\ x.chunkCount <= 127
                      /\ \E b \in Blob : /\ Len(b) = x.dataSize
                                         /\ Holds(Content', x.key, x.chunkStart, x.chunkCount, b)
    BY DEF Complete
  <2>1. CASE x = NewIndex
    <3>1. Holds(Content', op.key, nextStart, Len(usedPages), op.val)
      BY <1>4, <1>6, HoldsMore
    <3> QED
      BY <1>3, <1>6, <2>1, <3>1
  <2>2. CASE x \in Content
    <3>1. x.chunkCount <= 127
          /\ \E b \in Blob : Len(b) = x.dataSize /\ Holds(Content, x.key, x.chunkStart, x.chunkCount, b)
      BY <2>2 DEF BlobInv, DataInv, Complete
    <3>2. PICK b \in Blob : Len(b) = x.dataSize /\ Holds(Content, x.key, x.chunkStart, x.chunkCount, b)
      BY <3>1
    <3>3. Holds(Content', x.key, x.chunkStart, x.chunkCount, b)
      BY <1>4, <3>2, HoldsMore
    <3> QED
      BY <3>1, <3>2, <3>3
  <2> QED
    BY <1>4, <2>1, <2>2
<1>8. Owned'
  <2> SUFFICES ASSUME NEW c \in Content, c.kind = "BLOB_DATA" PROVE Counted(Content', c)
    BY <1>3, <1>4 DEF Owned
  <2>1. Counted(Content, c) \/ BeingWritten(c)
    BY <1>1 DEF BlobInv, DataInv, Owned, Loading, BeingErased
  <2>2. Counted(Content, c) => Counted(Content', c)
    BY <1>4 DEF Counted
  <2>3. BeingWritten(c) => Counts(NewIndex, c)
    <3>1. chunkNum = 0 /\ nextStart \in Nat
      BY <1>1 DEF BlobInv, TypeInv, LocalsType, BlobControl
    <3> QED
      BY <1>3, <3>1 DEF BeingWritten, Counts
  <2> QED
    BY <1>3, <1>4, <2>1, <2>2, <2>3 DEF Counted
<1>9. VersionInv'
  <2>1. HasVersion(Content', op.key, nextStart)
        /\ (prevStart # VER_ANY => HasVersion(Content', op.key, prevStart))
    BY <1>1, <1>3, <1>4 DEF BlobInv, DataInv, VersionInv, Writing, HasVersion
  <2>2. ~Writing' /\ pc' \notin {"index", "cleanup", "eraseChunks"}
        /\ (pc' = "eraseIndex" => prevStart # VER_ANY)
    BY <1>2 DEF Writing
  <2> QED
    BY <1>2, <1>3, <1>6, <2>1, <2>2 DEF VersionInv
<1>10. AnswerInv'
  BY <1>1, <1>2, AnswerStays DEF BlobInv, DataInv
<1> QED
  BY <1>5, <1>7, <1>8, <1>9, <1>10 DEF DataInv

-----------------------------------------------------------------------------
(* Steps that erase. *)

\* A blob of the old format is erased, and the request is done.
LEMMA OldBlobErased ==
  ASSUME BlobInv, AllCounted, NEW p \in Sector, NEW i \in Items(p), EraseItem(p, i),
         entry[p][i].kind = "BLOB", Quiet', Len(usedPages') <= 127, AnswerInv'
  PROVE  DataInv'
<1>1. /\ OneChunk' /\ Complete(Content') /\ Content' \subseteq Content
      /\ Content \subseteq Content' \cup {entry[p][i]}
  BY HeadErased DEF BlobInv, TypeInv, DataInv
<1>2. \A x \in Content : x.kind = "BLOB_IDX" => x \in Content'
  BY <1>1
<1>3. AllCounted'
  BY <1>1, <1>2 DEF AllCounted, Counted
<1> QED
  BY <1>1, <1>3, QuietAfter

LEMMA EraseAnyData == ASSUME BlobInv, EraseAny PROVE DataInv'
<1> DEFINE found == {n \in DOMAIN mPageList : ItemsOf(mPageList[n], op.key) # {}}
           p == mPageList[Min(found)]
           i == Min(ItemsOf(p, op.key))
<1>1. /\ pc = "findAny" /\ op.name = "erase" /\ UNCHANGED <<op, usedPages, chunkNum>>
      /\ PagesInv /\ Len(usedPages) <= 127
  BY DEF EraseAny, localVars, eraseVars, BlobInv, TypeInv, BlobControl, DataInv, VersionInv
<1>2. \/ UNCHANGED blobPageVars /\ pc' = "return" /\ ret' = "NOT_FOUND"
      \/ found # {} /\ entry[p][i].kind = "BLOB" /\ EraseItem(p, i) /\ pc' = "return" /\ ret' = "OK"
      \/ found # {} /\ entry[p][i].kind # "BLOB" /\ pc' = "eraseIndex" /\ ret' = ret
         /\ UNCHANGED blobPageVars
  BY DEF EraseAny
<1>3. found # {} => p \in Sector /\ i \in Items(p) /\ entry[p][i].key = op.key
  BY <1>1, FirstOfKey, Zenon
<1> HIDE DEF found, p, i
<1>4. AllCounted
  BY <1>1, CountedBefore DEF BlobInv, DataInv, Loading, Writing
<1>5. ASSUME UNCHANGED blobPageVars
      PROVE  OneChunk' /\ Complete(Content') /\ Content' = Content /\ AllCounted'
  BY <1>4, <1>5, UnchangedData DEF BlobInv, DataInv, AllCounted
<1>6. CASE UNCHANGED blobPageVars /\ pc' = "return" /\ ret' = "NOT_FOUND"
  BY <1>1, <1>5, <1>6, QuietAfter DEF Quiet, AnswerInv
<1>7. CASE found # {} /\ entry[p][i].kind = "BLOB" /\ EraseItem(p, i) /\ pc' = "return" /\ ret' = "OK"
  BY <1>1, <1>3, <1>4, <1>7, OldBlobErased DEF Quiet, AnswerInv
<1>8. CASE found # {} /\ entry[p][i].kind # "BLOB" /\ pc' = "eraseIndex" /\ ret' = ret
           /\ UNCHANGED blobPageVars
  <2>1. \E start \in {0, 128} : HasVersion(Content, op.key, start)
    <3>1. entry[p][i] \in Content
      BY <1>1, <1>3, <1>8, HeldProperty DEF Content, At
    <3>2. CASE entry[p][i].kind = "BLOB_IDX"
      BY <1>1, <1>3, <1>8, <3>1, <3>2, ContentProperty DEF HasVersion
    <3>3. CASE entry[p][i].kind = "BLOB_DATA"
      <4>1. PICK x \in Content : x.kind = "BLOB_IDX" /\ Counts(x, entry[p][i])
        BY <1>4, <3>1, <3>3 DEF AllCounted, Counted
      <4> QED
        BY <1>1, <1>3, <1>8, <4>1, ContentProperty DEF HasVersion, Counts
    <3> QED
      BY <1>1, <1>8, <3>1, <3>2, <3>3, ContentProperty
  <2>2. Owned'
    BY <1>5, <1>8 DEF Owned, AllCounted
  <2>3. VersionInv'
    <3>1. ~Writing' /\ ~Replacing' /\ pc' \notin {"index", "cleanup", "eraseChunks"}
      BY <1>1, <1>8 DEF Writing, Replacing
    <3> QED
      BY <1>1, <1>5, <1>8, <2>1, <3>1 DEF VersionInv
  <2>4. AnswerInv'
    BY <1>1, <1>8, AnswerStays DEF BlobInv, DataInv
  <2> QED
    BY <1>5, <1>8, <2>2, <2>3, <2>4 DEF DataInv
<1> QED
  BY <1>2, <1>6, <1>7, <1>8

LEMMA EraseOldFormatData == ASSUME BlobInv, EraseOldFormat PROVE DataInv'
<1> DEFINE p == FindPage("BLOB", op.key, CHUNK_ANY, VER_ANY)
           i == FindOnPage(p, "BLOB", op.key, CHUNK_ANY, VER_ANY)
<1>1. /\ pc = "eraseOld" /\ op.name = "set" /\ UNCHANGED <<op, usedPages>>
      /\ pc' = "return" /\ ret' = "OK" /\ PagesInv /\ Len(usedPages) <= 127
      /\ IF p = NoPage THEN UNCHANGED blobPageVars ELSE EraseItem(p, i)
  BY DEF EraseOldFormat, OldBlobPage, localVars, BlobInv, TypeInv, BlobControl, SetPC, DataInv, VersionInv
<1>2. p # NoPage => p \in Sector /\ i \in Items(p) /\ entry[p][i].kind = "BLOB"
  BY <1>1, FoundPlace
<1> HIDE DEF p, i
<1>3. AllCounted
  BY <1>1, CountedBefore DEF BlobInv, DataInv, Loading, Writing
<1>4. AnswerInv' /\ Quiet'
  BY <1>1 DEF AnswerInv, Quiet
<1>5. CASE p = NoPage
  <2>1. OneChunk' /\ Complete(Content') /\ Content' = Content
    BY <1>1, <1>5, UnchangedData DEF BlobInv, DataInv
  <2> QED
    BY <1>1, <1>3, <1>4, <2>1, QuietAfter DEF AllCounted
<1>6. CASE p # NoPage
  BY <1>1, <1>2, <1>3, <1>4, <1>6, OldBlobErased
<1> QED
  BY <1>5, <1>6

\* eraseMultiPageBlob() finds the index, and no other of this version.
LEMMA IndexThere ==
  ASSUME BlobInv, EraseIndex
  PROVE  LET ver == IF op.name = "set" THEN prevStart ELSE VER_ANY
             p == FindPage("BLOB_IDX", op.key, CHUNK_ANY, ver)
             i == FindOnPage(p, "BLOB_IDX", op.key, CHUNK_ANY, ver)
         IN  /\ p # NoPage /\ p \in Sector /\ i \in Items(p) /\ EraseItem(p, i)
             /\ entry[p][i].kind = "BLOB_IDX" /\ entry[p][i].key = op.key
             /\ ~HasVersion(Content', op.key, entry[p][i].chunkStart)
             /\ op.name = "set" => entry[p][i].chunkStart = prevStart
<1> DEFINE ver == IF op.name = "set" THEN prevStart ELSE VER_ANY
           p == FindPage("BLOB_IDX", op.key, CHUNK_ANY, ver)
           i == FindOnPage(p, "BLOB_IDX", op.key, CHUNK_ANY, ver)
           h == <<p, i>>
<1>1. /\ pc = "eraseIndex" /\ op.name \in {"set", "erase"} /\ PagesInv /\ NumberInv /\ HeadInv /\ TypeInv
  BY DEF EraseIndex, BlobInv, TypeInv, DataInv, VersionInv
<1>2. /\ op.name = "set" => /\ Replacing /\ prevStart # VER_ANY /\ nextStart # prevStart
                            /\ HasVersion(Content, op.key, nextStart)
                            /\ HasVersion(Content, op.key, prevStart)
      /\ op.name = "erase" => /\ \E start \in {0, 128} : HasVersion(Content, op.key, start)
                              /\ ~Superseding
  BY <1>1 DEF BlobInv, DataInv, VersionInv, Replacing, Superseding, HeadInv
<1>3. ASSUME op.name = "set"
      PROVE  /\ p # NoPage
             /\ \A u, v \in Heads : At(u).key = op.key /\ At(v).key = op.key
                                   /\ At(u).kind = "BLOB_IDX" /\ At(u).chunkStart = prevStart
                                   /\ At(v).kind = "BLOB_IDX" /\ At(v).chunkStart = prevStart => u = v
  <2>1. /\ \A x : Replaced(x) <=> x.kind = "BLOB_IDX" /\ x.chunkStart = prevStart
        /\ \A v, w \in Heads : Rivals(v, w) /\ Newest(w) =>
             /\ Replaced(At(v)) /\ ~Replaced(At(w))
             /\ FindPage("BLOB_IDX", op.key, CHUNK_ANY, prevStart) # NoPage
        /\ \A v, w \in Heads : Rivals(v, w) => Newest(v) \/ Newest(w)
    BY <1>1, <1>2, <1>3, ReplacedFound
  <2>2. PICK v \in Heads, w \in Heads :
          /\ At(v).key = op.key /\ At(v).chunkStart = prevStart
          /\ At(w).key = op.key /\ At(w).chunkStart = nextStart
    BY <1>1, <1>2, <1>3, VersionHead
  <2>3. Rivals(v, w) /\ Rivals(w, v)
    BY <1>2, <1>3, <2>2 DEF Rivals
  <2>4. p # NoPage
    BY <1>3, <2>1, <2>3
  <2> HIDE DEF p
  <2>5. ASSUME NEW u \in Heads, NEW t \in Heads, At(u).key = At(t).key,
               At(u).kind = "BLOB_IDX", At(u).chunkStart = prevStart,
               At(t).kind = "BLOB_IDX", At(t).chunkStart = prevStart, u # t
        PROVE  FALSE
    <3>1. Rivals(u, t) /\ Rivals(t, u) /\ Replaced(At(u)) /\ Replaced(At(t))
      BY <2>1, <2>5 DEF Rivals
    <3> QED
      BY <2>1, <3>1
  <2> QED
    BY <2>4, <2>5
<1>4. ASSUME op.name = "erase"
      PROVE  p # NoPage /\ \A u, v \in Heads : At(u).key = At(v).key => u = v
  <2>1. \A u, v \in Heads : At(u).key = At(v).key => u = v
    BY <1>1, <1>2, <1>4 DEF HeadInv, Rivals
  <2>2. PICK v \in Heads : At(v).kind = "BLOB_IDX" /\ At(v).key = op.key
    BY <1>1, <1>2, <1>4, VersionHead
  <2>3. v[1] \in Range(mPageList) /\ v[2] \in Nat
    BY <1>1, HeadProperty
  <2>4. \A u \in Heads : u[1] = v[1] /\ At(u).key = At(v).key => u[2] >= v[2]
    BY <2>1, <2>3
  <2>5. FindOnPage(v[1], "BLOB_IDX", op.key, CHUNK_ANY, VER_ANY) # NONE
    BY <1>1, <2>2, <2>4, FoundUnlessHidden
  <2>6. FindPage("BLOB_IDX", op.key, CHUNK_ANY, VER_ANY) # NoPage
    BY <1>1, <2>3, <2>5, FindPageProperty
  <2>7. ver = VER_ANY
    BY <1>4
  <2> QED
    BY <2>1, <2>6, <2>7
<1>5. p # NoPage
  BY <1>1, <1>3, <1>4
<1>6. EraseItem(p, i)
  BY <1>5 DEF EraseIndex
<1>7. /\ p \in Sector /\ i \in Items(p) /\ h \in Heads /\ At(h) = entry[p][i]
      /\ entry[p][i].kind = "BLOB_IDX" /\ entry[p][i].key = op.key
      /\ ver # VER_ANY => entry[p][i].chunkStart = ver
  <2> HIDE DEF ver
  <2> QED
    BY <1>1, <1>5, FoundHead
<1>8. op.name = "set" => entry[p][i].chunkStart = prevStart
  BY <1>2, <1>7
<1> HIDE DEF ver, p, i
<1>9. ~HasVersion(Content', op.key, entry[p][i].chunkStart)
  <2> SUFFICES ASSUME NEW x \in Content', x.kind = "BLOB_IDX", x.key = op.key,
                      x.chunkStart = entry[p][i].chunkStart
               PROVE  FALSE
    BY DEF HasVersion
  <2>1. PICK u \in Held' : At(u)' = x
    BY DEF Content
  <2>2. u \in Heads'
    BY <2>1 DEF Heads
  <2>3. u \in Heads /\ u # h /\ At(u) = x
    BY <1>1, <1>6, <1>7, <2>1, <2>2, EraseHeads
  <2> QED
    BY <1>1, <1>3, <1>4, <1>7, <1>8, <2>3
<1> QED
  BY <1>5, <1>6, <1>7, <1>8, <1>9, Zenon DEF ver, p, i

LEMMA EraseIndexData == ASSUME BlobInv, EraseIndex PROVE DataInv'
<1> DEFINE ver == IF op.name = "set" THEN prevStart ELSE VER_ANY
           p == FindPage("BLOB_IDX", op.key, CHUNK_ANY, ver)
           i == FindOnPage(p, "BLOB_IDX", op.key, CHUNK_ANY, ver)
<1>1. /\ p # NoPage /\ p \in Sector /\ i \in Items(p) /\ EraseItem(p, i)
      /\ entry[p][i].kind = "BLOB_IDX" /\ entry[p][i].key = op.key
      /\ ~HasVersion(Content', op.key, entry[p][i].chunkStart)
  BY IndexThere
<1>2. /\ pc = "eraseIndex" /\ pc' = "eraseChunks" /\ UNCHANGED <<op, ret, usedPages>>
      /\ chunkStart' = entry[p][i].chunkStart /\ chunkCount' = entry[p][i].chunkCount /\ chunkNum' = 0
  BY <1>1 DEF EraseIndex, localVars
<1> HIDE DEF p, i
<1> DEFINE x == entry[p][i]
<1>3. /\ op.name \in {"set", "erase"} /\ PagesInv /\ Len(usedPages) <= 127
  BY <1>2 DEF BlobInv, TypeInv, DataInv, VersionInv
<1>4. /\ OneChunk' /\ Complete(Content') /\ Content' \subseteq Content
      /\ Content \subseteq Content' \cup {x} /\ x \in Content
  BY <1>1, <1>3, HeadErased, EraseContent DEF BlobInv, DataInv
<1>5. x.chunkStart \in {0, 128} /\ x.chunkCount \in Nat /\ x.chunkCount <= 127
  BY <1>1, <1>3, <1>4, ContentProperty DEF BlobInv, DataInv, Complete
<1>6. AllCounted
  BY <1>2, CountedBefore DEF BlobInv, DataInv, Loading, Writing
<1> HIDE DEF x
<1>7. Owned'
  <2> SUFFICES ASSUME NEW c \in Content, c.kind = "BLOB_DATA"
               PROVE  Counted(Content', c) \/ BeingErased(c)'
    BY <1>4 DEF Owned
  <2>1. PICK y \in Content : y.kind = "BLOB_IDX" /\ Counts(y, c)
    BY <1>6 DEF AllCounted, Counted
  <2>2. CASE y = x
    <3>1. BeingErased(c)'
      BY <1>1, <1>2, <1>5, <2>1, <2>2 DEF BeingErased, Counts, x
    <3> QED
      BY <3>1
  <2>3. CASE y # x
    BY <1>4, <2>1, <2>3 DEF Counted
  <2> QED
    BY <2>2, <2>3
<1>8. VersionInv'
  <2>1. ~Writing' /\ ~Replacing' /\ pc' \notin {"index", "cleanup", "eraseIndex"}
    BY <1>2 DEF Writing, Replacing
  <2> QED
    BY <1>1, <1>2, <1>3, <1>5, <2>1 DEF VersionInv, x
<1>9. AnswerInv'
  BY <1>2, AnswerStays DEF BlobInv, DataInv
<1> QED
  BY <1>4, <1>7, <1>8, <1>9 DEF DataInv

\* The chunks of an index that is gone are counted by no other.
LEMMA EraseChunkData == ASSUME BlobInv, EraseChunk PROVE DataInv'
<1> DEFINE n == chunkStart + chunkNum
           p == ChunkPage(op.key, n)
           i == FindOnPage(p, "BLOB_DATA", op.key, n, VER_ANY)
<1>1. /\ pc = "eraseChunks" /\ chunkNum < chunkCount /\ chunkNum' = chunkNum + 1
      /\ UNCHANGED <<op, pc, ret, usedPages, chunkStart, chunkCount>>
      /\ IF p = NoPage THEN UNCHANGED blobPageVars ELSE EraseItem(p, i)
  BY DEF EraseChunk, localVars
<1>2. /\ PagesInv /\ op.name \in {"set", "erase"} /\ chunkStart \in {0, 128} /\ chunkCount <= 127
      /\ chunkNum \in Nat /\ chunkCount \in Nat /\ n \in Nat /\ Len(usedPages) <= 127
      /\ ~HasVersion(Content, op.key, chunkStart)
  BY <1>1 DEF BlobInv, TypeInv, LocalsType, DataInv, VersionInv
<1>3. p # NoPage => /\ p \in Sector /\ i \in Items(p) /\ entry[p][i].kind = "BLOB_DATA"
                    /\ entry[p][i].key = op.key /\ entry[p][i].chunk = n
  BY <1>2, FoundPlace DEF ChunkPage
<1>4. ASSUME NEW c, c.key = op.key, c.chunk = n PROVE ~Counted(Content, c)
  <2> SUFFICES ASSUME NEW x \in Content, x.kind = "BLOB_IDX", Counts(x, c) PROVE FALSE
    BY DEF Counted
  <2>1. x.chunkStart \in {0, 128} /\ x.chunkCount \in Nat /\ x.chunkCount <= 127 /\ x.key = op.key
    BY <1>2, <1>4, ContentProperty DEF BlobInv, DataInv, Complete, Counts
  <2>2. chunkStart <= c.chunk /\ c.chunk < chunkStart + 128 /\ c.chunk \in Nat
    BY <1>1, <1>2, <1>4
  <2>3. x.chunkStart = chunkStart
    BY <1>2, <2>1, <2>2, RangesDisjoint
  <2> QED
    BY <1>2, <2>1, <2>3 DEF HasVersion
<1>5. /\ OneChunk' /\ Complete(Content') /\ Content' \subseteq Content
      /\ \A x \in Content : x.kind = "BLOB_IDX" => x \in Content'
      /\ \A c \in Content' : c.kind = "BLOB_DATA" => c.key # op.key \/ c.chunk # n
  <2>1. CASE p = NoPage
    <3>1. OneChunk' /\ Complete(Content') /\ Content' = Content
      BY <1>1, <2>1, UnchangedData DEF BlobInv, DataInv
    <3>2. \A c \in Content : c.kind = "BLOB_DATA" => c.key # op.key \/ c.chunk # n
      BY <1>2, <2>1, ChunkFound DEF BlobInv, DataInv
    <3> QED
      BY <3>1, <3>2
  <2>2. CASE p # NoPage
    <3> HIDE DEF p, i, n
    <3>1. ~Counted(Content, entry[p][i])
      BY <1>3, <1>4, <2>2
    <3> QED
      BY <1>1, <1>2, <1>3, <2>2, <3>1, ChunkErased DEF BlobInv, DataInv
  <2> QED
    BY <2>1, <2>2
<1> HIDE DEF p, i
<1>6. Owned'
  <2> SUFFICES ASSUME NEW c \in Content', c.kind = "BLOB_DATA"
               PROVE  Counted(Content', c) \/ BeingErased(c)'
    BY DEF Owned
  <2>1. Counted(Content, c) \/ BeingErased(c)
    BY <1>1, <1>5 DEF BlobInv, DataInv, Owned, Loading, BeingWritten, Writing
  <2>2. Counted(Content, c) => Counted(Content', c)
    BY <1>5 DEF Counted
  <2>3. c.chunk \in Nat
    BY <1>2, <1>5, ContentProperty
  <2>4. BeingErased(c) => BeingErased(c)'
    BY <1>1, <1>2, <1>5, <2>3 DEF BeingErased
  <2> QED
    BY <2>1, <2>2, <2>4
<1>7. VersionInv'
  <2>1. ~Writing' /\ ~Replacing' /\ pc' \notin {"index", "cleanup", "eraseIndex"}
    BY <1>1 DEF Writing, Replacing
  <2>2. ~HasVersion(Content', op.key, chunkStart)
    BY <1>2, <1>5 DEF HasVersion
  <2> QED
    BY <1>1, <1>2, <2>1, <2>2 DEF VersionInv
<1>8. AnswerInv'
  BY <1>1, AnswerStays DEF BlobInv, DataInv
<1> QED
  BY <1>5, <1>6, <1>7, <1>8 DEF DataInv

\* Of a set that is given up every chunk is found.
LEMMA CleanupData == ASSUME BlobInv, CleanupFinds, Cleanup PROVE DataInv'
<1>1. /\ pc = "cleanup" /\ UNCHANGED <<op, ret, nextStart, usedPages>>
      /\ PagesInv /\ op.name = "set" /\ ret = "NOT_ENOUGH_SPACE" /\ Len(usedPages) <= 127
      /\ nextStart \in {0, 128} /\ chunkNum \in Nat /\ chunkNum <= Len(usedPages)
      /\ usedPages \in Seq(Sector) /\ Len(usedPages) \in Nat
      /\ ~HasVersion(Content, op.key, nextStart)
  BY DEF Cleanup, localVars, BlobInv, TypeInv, LocalsType, BlobControl, SetPC, DataInv, VersionInv, AnswerInv
<1>2. \A c \in Content : c.kind = "BLOB_DATA" => Counted(Content, c) \/ BeingWritten(c)
  BY <1>1 DEF BlobInv, DataInv, Owned, Loading, BeingErased
<1>3. CASE chunkNum = Len(usedPages)
  <2>1. pc' = "return" /\ UNCHANGED blobPageVars
    BY <1>3 DEF Cleanup
  <2>2. OneChunk' /\ Complete(Content') /\ Content' = Content
    BY <2>1, UnchangedData DEF BlobInv, DataInv
  <2>3. AllCounted
    <3> SUFFICES ASSUME NEW c \in Content, c.kind = "BLOB_DATA", BeingWritten(c) PROVE FALSE
      BY <1>2 DEF AllCounted
    <3>1. c.chunk \in Nat
      BY <1>1, ContentProperty
    <3> QED
      BY <1>1, <1>3, <3>1 DEF BeingWritten
  <2>4. AnswerInv' /\ Quiet'
    BY <1>1, <2>1 DEF AnswerInv, Quiet
  <2> QED
    BY <1>1, <2>2, <2>3, <2>4, QuietAfter DEF AllCounted
<1>4. CASE chunkNum # Len(usedPages)
  <2> DEFINE p == usedPages[chunkNum + 1]
             i == FindOnPage(p, "BLOB_DATA", op.key, chunkNum, VER_ANY)
  <2>1. chunkNum < Len(usedPages)
    BY <1>1, <1>4
  <2>2. nextStart = 0 /\ i # NONE
    BY <1>1, <2>1 DEF CleanupFinds
  <2>3. EraseItem(p, i) /\ chunkNum' = chunkNum + 1 /\ pc' = "cleanup"
    BY <1>1, <1>4, <2>2 DEF Cleanup
  <2>4. p \in Sector
    BY <1>1, <2>1
  <2> HIDE DEF p
  <2>5. /\ i \in Items(p) /\ entry[p][i].kind = "BLOB_DATA"
        /\ entry[p][i].key = op.key /\ entry[p][i].chunk = chunkNum
    BY <1>1, <2>2, <2>4, FindOnPageProperty
  <2> HIDE DEF i
  <2>6. ~Counted(Content, entry[p][i])
    <3> SUFFICES ASSUME NEW x \in Content, x.kind = "BLOB_IDX", Counts(x, entry[p][i]) PROVE FALSE
      BY DEF Counted
    <3>1. x.chunkStart \in {0, 128} /\ x.chunkCount \in Nat /\ x.chunkCount <= 127 /\ x.key = op.key
      BY <1>1, <2>5, ContentProperty DEF BlobInv, DataInv, Complete, Counts
    <3>2. 0 <= chunkNum /\ chunkNum < 0 + 128
      BY <1>1, <2>1
    <3>3. x.chunkStart = 0
      BY <1>1, <2>5, <3>1, <3>2, RangesDisjoint
    <3> QED
      BY <1>1, <2>2, <3>1, <3>3 DEF HasVersion
  <2>7. /\ OneChunk' /\ Complete(Content') /\ Content' \subseteq Content
        /\ \A x \in Content : x.kind = "BLOB_IDX" => x \in Content'
        /\ \A c \in Content' : c.kind = "BLOB_DATA" => c.key # op.key \/ c.chunk # chunkNum
    BY <1>1, <2>3, <2>4, <2>5, <2>6, ChunkErased DEF BlobInv, DataInv
  <2>8. Owned'
    <3> SUFFICES ASSUME NEW c \in Content', c.kind = "BLOB_DATA"
                 PROVE  Counted(Content', c) \/ BeingWritten(c)'
      BY DEF Owned
    <3>1. Counted(Content, c) => Counted(Content', c)
      BY <2>7 DEF Counted
    <3>2. c.chunk \in Nat
      BY <1>1, <2>7, ContentProperty
    <3>3. BeingWritten(c) => BeingWritten(c)'
      BY <1>1, <2>2, <2>3, <2>7, <3>2 DEF BeingWritten
    <3> QED
      BY <1>2, <2>7, <3>1, <3>3
  <2>9. VersionInv'
    <3>1. ~Writing' /\ ~Replacing' /\ pc' \notin {"index", "eraseIndex", "eraseChunks"}
      BY <2>3 DEF Writing, Replacing
    <3>2. ~HasVersion(Content', op.key, nextStart)
      BY <1>1, <2>7 DEF HasVersion
    <3> QED
      BY <1>1, <3>1, <3>2 DEF VersionInv
  <2>10. AnswerInv'
    BY <1>1, <2>3 DEF AnswerInv
  <2> QED
    BY <2>7, <2>8, <2>9, <2>10 DEF DataInv
<1> QED
  BY <1>3, <1>4

-----------------------------------------------------------------------------
(* Power failures and load(). *)

\* While load() is at it, chunks that no index counts may be left.
LEMMA LoadingAfter ==
  ASSUME OneChunk', Complete(Content'), Loading', Len(usedPages') <= 127, AnswerInv'
  PROVE  DataInv'
<1>1. (Quiet \/ Loading => (VersionInv <=> Len(usedPages) <= 127))'
  BY QuietProperty, PTL
<1> QED
  BY <1>1 DEF DataInv, Owned

LEMMA CrashData == ASSUME BlobInv, Crash PROVE DataInv'
<1>1. entry' = entry /\ pc' = "load" /\ ret' = "OK" /\ usedPages' = <<>>
  BY DEF Crash, LoadLists, ResetLocals
<1>2. OneChunk' /\ Complete(Content')
  BY <1>1, SameContent, SameNothingNew, QuietData DEF BlobInv, DataInv
<1>3. AnswerInv' /\ Loading' /\ Len(usedPages') <= 127
  BY <1>1 DEF AnswerInv, Loading
<1> QED
  BY <1>2, <1>3, LoadingAfter

\* Two items that have key and number in common are heads.
LEMMA AlikeHeads ==
  ASSUME BlobInv, NEW p \in Sector, NEW i \in Items(p), NEW q \in Sector, NEW j \in Items(q),
         entry[p][i].key = entry[q][j].key, entry[p][i].chunk = entry[q][j].chunk,
         <<p, i>> # <<q, j>>
  PROVE  entry[p][i].kind # "BLOB_DATA" /\ entry[q][j].kind # "BLOB_DATA"
<1>1. /\ <<p, i>> \in Held /\ At(<<p, i>>) = entry[p][i] /\ entry[p][i] \in Content
      /\ <<q, j>> \in Held /\ At(<<q, j>>) = entry[q][j] /\ entry[q][j] \in Content
  BY HeldProperty DEF BlobInv, TypeInv, Content, At
<1>2. entry[p][i].kind = "BLOB_DATA" <=> entry[q][j].kind = "BLOB_DATA"
  BY <1>1, ChunkNumbers DEF BlobInv, TypeInv
<1>3. OneChunk
  BY DEF BlobInv, DataInv
<1> QED
  BY <1>1, <1>2, <1>3 DEF OneChunk, ChunkPlaces

LEMMA RepairDuplicateData == ASSUME BlobInv, RepairDuplicate PROVE DataInv'
<1> DEFINE p == Min(ActiveDuplicates)
           j == Min(Duplicates(p))
           i == Superseded(p, j)
<1>1. /\ pc = "load" /\ pc' \in {"load", "dup"} /\ UNCHANGED <<ret, usedPages>>
      /\ IF ActiveDuplicates = {} THEN UNCHANGED blobPageVars ELSE EraseItem(p, i)
      /\ PagesInv /\ OneChunk /\ Complete(Content) /\ Len(usedPages) <= 127
  BY DEF RepairDuplicate, localVars, BlobInv, TypeInv, DataInv, VersionInv
<1>2. AnswerInv' /\ Loading'
  BY <1>1, AnswerStays DEF BlobInv, DataInv, Loading
<1>3. CASE ActiveDuplicates = {}
  BY <1>1, <1>2, <1>3, UnchangedData, LoadingAfter
<1>4. CASE ActiveDuplicates # {}
  <2>1. /\ p \in Sector /\ i \in Items(p) /\ j \in Items(p) /\ i < j
        /\ entry[p][i].key = entry[p][j].key /\ entry[p][i].chunk = entry[p][j].chunk
    BY <1>1, <1>4, DuplicateProperty
  <2> HIDE DEF p, i, j
  <2>2. i # j
    <3>1. i \in Nat
      BY <1>1, <2>1, OnPage, EntryProperty DEF PagesInv
    <3> QED
      BY <2>1, <3>1
  <2>3. entry[p][i].kind # "BLOB_DATA"
    BY <2>1, <2>2, AlikeHeads
  <2>4. OneChunk' /\ Complete(Content')
    BY <1>1, <1>4, <2>1, <2>3, HeadErased
  <2> QED
    BY <1>1, <1>2, <2>4, LoadingAfter
<1> QED
  BY <1>3, <1>4

\* The last item of a page.
LEMMA LastItem ==
  ASSUME PagesInv, NEW p \in Sector, Items(p) # {}
  PROVE  Max(Items(p)) \in Items(p) /\ \A i \in Items(p) : i <= Max(Items(p))
<1> DEFINE S == Items(p)
           T == {ENTRY_COUNT - i : i \in S}
<1>1. \A i \in S : i \in Nat /\ i < ENTRY_COUNT
  BY EntryCountAssumption DEF Items, Index
<1>2. T \in SUBSET Nat /\ T # {}
  BY <1>1, EntryCountAssumption
<1>3. Min(T) \in T /\ \A t \in T : Min(T) <= t
  <2> HIDE DEF T
  <2> QED
    BY <1>2, MinProperty
<1>4. PICK m \in S : Min(T) = ENTRY_COUNT - m
  BY <1>3
<1>5. ASSUME NEW i \in S PROVE m >= i
  <2>1. ENTRY_COUNT - m <= ENTRY_COUNT - i
    BY <1>3, <1>4
  <2> QED
    BY <1>1, <2>1, EntryCountAssumption
<1> HIDE DEF S
<1>6. Max(S) \in S /\ \A i \in S : Max(S) >= i
  BY <1>5 DEF Max
<1> QED
  BY <1>1, <1>6 DEF S

\* What load() erases for the item it wrote last, and the item.
LEMMA ErasedAlike ==
  ASSUME PagesInv, Items(Back) # {}, NEW kind, Alike(entry[Back][Max(Items(Back))], kind) # {},
         EraseAlike(entry[Back][Max(Items(Back))], kind)
  PROVE  \E p \in Sector : \E i \in Items(p) :
           LET j == Max(Items(Back))
           IN  /\ EraseItem(p, i) /\ p # Back /\ Back \in Sector /\ j \in Items(Back)
               /\ \A m \in Items(Back) : m <= j
               /\ entry[p][i].kind = kind /\ entry[p][i].key = entry[Back][j].key
               /\ entry[p][i].chunk = entry[Back][j].chunk
<1> DEFINE j == Max(Items(Back))
           x == entry[Back][j]
           p == mPageList[Min(Alike(x, kind))]
           i == FindOnPage(p, kind, x.key, x.chunk, VER_ANY)
<1>1. j \in Items(Back) /\ Back \in Sector /\ \A m \in Items(Back) : m <= j
  BY BackProperty, LastItem
<1>2. EraseItem(p, i)
  BY DEF EraseAlike
<1>3. Alike(x, kind) # {}
  OBVIOUS
<1>4. /\ p \in Sector /\ p # Back /\ i \in Items(p)
      /\ entry[p][i].kind = kind /\ entry[p][i].key = x.key /\ entry[p][i].chunk = x.chunk
  <2> HIDE DEF x
  <2> QED
    BY <1>3, AlikeProperty
<1>5. x = entry[Back][j]
  OBVIOUS
<1> HIDE DEF p, i, x, j
<1>6. \E q \in Sector : \E m \in Items(q) :
        /\ EraseItem(q, m) /\ q # Back /\ Back \in Sector /\ j \in Items(Back)
        /\ \A n \in Items(Back) : n <= j
        /\ entry[q][m].kind = kind /\ entry[q][m].key = entry[Back][j].key
        /\ entry[q][m].chunk = entry[Back][j].chunk
  BY <1>1, <1>2, <1>4, <1>5
<1> QED
  BY <1>6 DEF j

LEMMA EraseOldVersionData == ASSUME BlobInv, EraseOldVersion PROVE DataInv'
<1> DEFINE item == entry[Back][Max(Items(Back))]
<1>1. /\ pc = "dup" /\ pc' = "orphans" /\ UNCHANGED <<ret, usedPages>>
      /\ PagesInv /\ OneChunk /\ Complete(Content) /\ Len(usedPages) <= 127
  BY DEF EraseOldVersion, localVars, BlobInv, TypeInv, PagesInv, DataInv, VersionInv
<1>2. \/ UNCHANGED blobPageVars
      \/ \E kind : Items(Back) # {} /\ Alike(item, kind) # {} /\ EraseAlike(item, kind)
  BY DEF EraseOldVersion
<1>3. AnswerInv' /\ Loading'
  BY <1>1, AnswerStays DEF BlobInv, DataInv, Loading
<1>4. CASE UNCHANGED blobPageVars
  BY <1>1, <1>3, <1>4, UnchangedData, LoadingAfter
<1>5. ASSUME NEW kind, Items(Back) # {}, Alike(item, kind) # {}, EraseAlike(item, kind)
      PROVE  DataInv'
  <2>1. PICK p, i, j :
          /\ EraseItem(p, i) /\ p \in Sector /\ p # Back /\ Back \in Sector
          /\ i \in Items(p) /\ j \in Items(Back)
          /\ entry[p][i].key = entry[Back][j].key /\ entry[p][i].chunk = entry[Back][j].chunk
    BY <1>1, <1>5, ErasedAlike
  <2>2. entry[p][i].kind # "BLOB_DATA"
    BY <2>1, AlikeHeads
  <2>3. OneChunk' /\ Complete(Content')
    BY <1>1, <2>1, <2>2, HeadErased
  <2> QED
    BY <1>1, <1>3, <2>3, LoadingAfter
<1> QED
  BY <1>2, <1>4, <1>5

\* populateBlobIndices() lists the indices there are.
LEMMA IndicesProperty ==
  ASSUME PagesInv
  PROVE  \A x : x \in Indices <=> x \in Content /\ x.kind = "BLOB_IDX"
<1>1. ASSUME NEW x \in Indices PROVE x \in Content /\ x.kind = "BLOB_IDX"
  <2>1. PICK p \in Sector : \E i \in IndicesOn(p) : x = entry[p][i]
    BY DEF Indices
  <2>2. PICK i \in Items(p) : x = entry[p][i] /\ entry[p][i].kind = "BLOB_IDX"
    BY <2>1 DEF IndicesOn
  <2> QED
    BY <2>2, HeldProperty DEF Content, At
<1>2. ASSUME NEW x \in Content, x.kind = "BLOB_IDX" PROVE x \in Indices
  <2>1. PICK v \in Held : At(v) = x
    BY DEF Content
  <2>2. v[1] \in Sector /\ v[2] \in Items(v[1]) /\ x = entry[v[1]][v[2]]
    BY <2>1, HeldProperty DEF At, Held
  <2>3. v[2] \in IndicesOn(v[1])
    BY <1>2, <2>2 DEF IndicesOn
  <2> QED
    BY <2>2, <2>3 DEF Indices
<1> QED
  BY <1>1, <1>2

LEMMA EraseOrphanData == ASSUME BlobInv, EraseOrphan PROVE DataInv'
<1> DEFINE found == {n \in DOMAIN mPageList : Orphans(mPageList[n]) # {}}
           p == mPageList[Min(found)]
           i == Min(Orphans(p))
<1>1. /\ pc = "orphans" /\ UNCHANGED <<op, usedPages>> /\ ret' = ret
      /\ IF found = {} THEN pc' = "idle" /\ UNCHANGED blobPageVars
         ELSE pc' = "orphans" /\ EraseItem(p, i)
  BY DEF EraseOrphan, localVars
<1>2. PagesInv /\ OneChunk /\ Complete(Content) /\ Len(usedPages) <= 127
  BY DEF BlobInv, TypeInv, DataInv, VersionInv
<1>3. AnswerInv'
  BY <1>1, AnswerStays DEF BlobInv, DataInv
<1>4. \A c : Counted(Content, c) <=> \E x \in Indices : Counts(x, c)
  BY <1>2, IndicesProperty DEF Counted
<1>5. CASE found = {}
  <2>1. AllCounted
    <3> SUFFICES ASSUME NEW v \in Held, At(v).kind = "BLOB_DATA" PROVE \E x \in Indices : Counts(x, At(v))
      BY <1>4 DEF AllCounted, Content
    <3>1. v[2] \in Items(v[1]) /\ At(v) = entry[v[1]][v[2]]
      BY DEF Held, At
    <3>2. PICK n \in DOMAIN mPageList : mPageList[n] = v[1]
      BY <1>2, HeldInList DEF Range
    <3>3. Orphans(mPageList[n]) = {}
      BY <1>5
    <3> QED
      BY <3>1, <3>2, <3>3 DEF Orphans
  <2>2. OneChunk' /\ Complete(Content') /\ Content' = Content
    BY <1>1, <1>2, <1>5, UnchangedData
  <2>3. AllCounted' /\ Quiet'
    BY <1>1, <1>5, <2>1, <2>2 DEF AllCounted, Quiet
  <2> QED
    BY <1>1, <1>2, <1>3, <2>2, <2>3, QuietAfter
<1>6. CASE found # {}
  <2>1. /\ p \in Sector /\ i \in Items(p) /\ entry[p][i].kind = "BLOB_DATA"
        /\ ~\E x \in Indices : Counts(x, entry[p][i])
    BY <1>2, <1>6, OrphanProperty, Zenon
  <2> HIDE DEF found, p, i
  <2>2. OneChunk' /\ Complete(Content')
    BY <1>1, <1>2, <1>4, <1>6, <2>1, ChunkErased
  <2>3. Loading'
    BY <1>1, <1>6 DEF Loading
  <2> QED
    BY <1>1, <1>2, <1>3, <2>2, <2>3, LoadingAfter
<1> QED
  BY <1>5, <1>6

-----------------------------------------------------------------------------
LEMMA StutterData == ASSUME BlobInv, UNCHANGED vars PROVE DataInv'
<1>1. /\ UNCHANGED blobPageVars
      /\ UNCHANGED <<op, pc, ret, prevStart, nextStart, offset, usedPages, chunkStart, chunkCount, chunkNum>>
  BY DEF vars, localVars, eraseVars
<1>2. OneChunk' /\ Complete(Content') /\ Content' = Content
  BY <1>1, UnchangedData DEF BlobInv, DataInv
<1>3. Owned'
  BY <1>1, <1>2 DEF BlobInv, DataInv, Owned, Loading, BeingWritten, BeingErased, Writing
<1>4. VersionInv'
  BY <1>1, <1>2 DEF BlobInv, DataInv, VersionInv, Writing, Replacing
<1>5. AnswerInv'
  BY <1>1 DEF BlobInv, DataInv, AnswerInv
<1> QED
  BY <1>2, <1>3, <1>4, <1>5 DEF DataInv

LEMMA NextData == ASSUME BlobInv, CleanupFinds, [Next]_vars, PageCount < 128 PROVE DataInv'
<1>1. CASE Begin \/ Return \/ Read
  BY <1>1, BeginData, ReturnData, ReadData
<1>2. CASE Write
  BY <1>2, FindData, SkipPageData, SkipToNewPageData, NoTailroomData, WriteChunkData, MarkFullData,
     NextPageData, WriteIndexData, CleanupData, EraseOldFormatData DEF Write
<1>3. CASE Erase
  BY <1>3, EraseAnyData, EraseIndexData, EraseChunkData, ChunksErasedData DEF Erase
<1>4. CASE Load
  BY <1>4, RepairDuplicateData, EraseOldVersionData, EraseOrphanData DEF Load
<1>5. CASE Crash
  BY <1>5, CrashData
<1>6. CASE UNCHANGED vars
  BY <1>6, StutterData
<1> QED
  BY <1>1, <1>2, <1>3, <1>4, <1>5, <1>6 DEF Next

LEMMA InitData == ASSUME Init PROVE DataInv
<1>1. \A x \in Content : x.kind = "BLOB"
  BY InitHeld DEF Content
<1>2. ChunkPlaces = {}
  BY InitHeld DEF ChunkPlaces
<1>3. pc = "idle" /\ ret = "OK" /\ usedPages = <<>>
  BY DEF Init
<1>4. Complete(Content) /\ AllCounted /\ OneChunk
  BY <1>1, <1>2 DEF Complete, AllCounted, OneChunk
<1>5. Owned /\ VersionInv
  BY <1>3, <1>4, QuietProperty DEF Quiet
<1>6. AnswerInv
  BY <1>3 DEF AnswerInv
<1> QED
  BY <1>4, <1>5, <1>6 DEF DataInv

LEMMA DataHolds ==
  ASSUME PageCount < 128
  PROVE  Spec /\ []CleanupFinds => []BlobInv
<1>1. Init => RoomForIndex /\ CountInv /\ NumberInv /\ HeadInv /\ DataInv
  BY InitHead, InitData DEF Init, RoomForIndex
<1>2. TypeInv /\ RoomForIndex /\ CountInv /\ NumberInv /\ HeadInv /\ DataInv /\ CleanupFinds /\ [Next]_vars =>
        RoomForIndex' /\ CountInv' /\ NumberInv' /\ HeadInv' /\ DataInv'
  BY NextRoom, NextCount, NextNumber, NextHead, NextData DEF BlobInv
<1>3. TypeInv /\ RoomForIndex /\ CountInv /\ NumberInv /\ HeadInv /\ DataInv => BlobInv
  BY DEF BlobInv
<1> QED
  BY <1>1, <1>2, <1>3, TypeHolds, PTL DEF Spec

(***************************************************************************)
(* Between requests the chunks on flash are those the indices count, each  *)
(* of them once (eraseOrphanDataBlobs() in src/src/nvs_storage.cpp), power *)
(* failures or not: as long as every set that is given up finds its chunks *)
(* again, which the code does not always do.                               *)
(***************************************************************************)
THEOREM NoChunkLeftHolds ==
  ASSUME PageCount < 128
  PROVE  Spec /\ []CleanupFinds => []NoChunkLeft
<1>1. BlobInv => NoChunkLeft
  <2> SUFFICES ASSUME BlobInv, pc = "idle", NEW k \in Key PROVE ChunksCounted(k)
    BY DEF NoChunkLeft
  <2>1. AllCounted /\ PagesInv /\ OneChunk /\ NumberInv /\ Complete(Content)
    BY CountedBefore DEF BlobInv, DataInv, TypeInv, Loading, Writing
  <2>2. \A v \in Chunks(k) : /\ v \in ChunkPlaces /\ At(v) = entry[v[1]][v[2]] /\ At(v) \in Content
                             /\ At(v).kind = "BLOB_DATA" /\ At(v).key = k
    BY DEF Chunks, ChunkPlaces, Held, At, Content
  <2>3. \A v \in Chunks(k) : \E x \in Indices : Counts(x, entry[v[1]][v[2]])
    BY <2>1, <2>2, IndicesProperty DEF AllCounted, Counted
  <2>4. \A v, w \in Chunks(k) : entry[v[1]][v[2]].chunk = entry[w[1]][w[2]].chunk => v = w
    BY <2>1, <2>2 DEF OneChunk
  <2>5. ASSUME NEW x \in Indices PROVE ~ChunkMissing(x)
    <3>1. x \in Content /\ x.kind = "BLOB_IDX"
      BY <2>1, IndicesProperty
    <3>2. PICK b \in Blob : Holds(Content, x.key, x.chunkStart, x.chunkCount, b)
      BY <2>1, <3>1 DEF Complete
    <3> QED
      BY <2>1, <3>1, <3>2, HoldsProperty
  <2> QED
    BY <2>3, <2>4, <2>5 DEF ChunksCounted
<1> QED
  BY <1>1, DataHolds, PTL

(***************************************************************************)
(* The assertions on the way hold, for sizes of all kinds: there is room   *)
(* for the index, load() finds a free page, the chunks of a blob have the  *)
(* size its index gives (readMultiPageBlob() and cmpMultiPageBlob() in     *)
(* src/src/nvs_storage.cpp); as long as every set that is given up finds   *)
(* its chunks again.                                                       *)
(***************************************************************************)
THEOREM NeverAbortsHolds ==
  ASSUME PageCount < 128
  PROVE  Spec /\ []CleanupFinds => []NeverAborts
<1>1. BlobInv => NeverAborts
  BY DEF BlobInv, DataInv, AnswerInv, NeverAborts
<1> QED
  BY <1>1, DataHolds, PTL

-----------------------------------------------------------------------------
(***************************************************************************)
(* What is stored.  Of two heads of a key the newest one counts, and its   *)
(* value is what its chunks hold.                                          *)
(***************************************************************************)
Standing(h) == h \in Heads /\ \A w \in Heads : Rivals(h, w) => Newest(h)

ValueIn(C, x, b) ==
  IF x.kind = "BLOB" THEN b = x.data
  ELSE b \in Blob /\ Holds(C, x.key, x.chunkStart, x.chunkCount, b)

IsStored(k, b) ==
  \/ b = NoValue /\ \A h \in Heads : At(h).key # k
  \/ \E h \in Heads : At(h).key = k /\ Standing(h) /\ ValueIn(Content, At(h), b)

\* The places of the refinement mapping are those of the heads.
LEMMA HeadPlaces ==
  ASSUME PagesInv
  PROVE  /\ \A k, kind : kind # "BLOB_DATA" => \A v \in Places(k, kind) :
              LET h == <<mPageList[v[1]], v[2]>>
              IN  /\ v[1] \in 1 .. Len(mPageList) /\ v[2] \in Items(mPageList[v[1]]) /\ v[2] \in Nat
                  /\ v = <<v[1], v[2]>>
                  /\ h \in Heads /\ At(h).kind = kind /\ At(h).key = k
                  /\ At(h) = entry[mPageList[v[1]]][v[2]]
         /\ \A h \in Heads : \E n \in 1 .. Len(mPageList) :
              mPageList[n] = h[1] /\ <<n, h[2]>> \in Places(At(h).key, At(h).kind)
<1>1. DOMAIN mPageList = 1 .. Len(mPageList) /\ \A n \in DOMAIN mPageList : mPageList[n] \in Sector
  BY BackProperty DEF PagesInv
<1>2. ASSUME NEW k, NEW kind, kind # "BLOB_DATA", NEW v \in Places(k, kind)
      PROVE  LET h == <<mPageList[v[1]], v[2]>>
             IN  /\ v[1] \in 1 .. Len(mPageList) /\ v[2] \in Items(mPageList[v[1]]) /\ v[2] \in Nat
                 /\ v = <<v[1], v[2]>>
                 /\ h \in Heads /\ At(h).kind = kind /\ At(h).key = k
                 /\ At(h) = entry[mPageList[v[1]]][v[2]]
  <2>1. /\ v \in (1 .. Len(mPageList)) \X Index /\ v[2] \in Items(mPageList[v[1]])
        /\ entry[mPageList[v[1]]][v[2]].kind = kind /\ entry[mPageList[v[1]]][v[2]].key = k
    BY DEF Places
  <2> DEFINE p == mPageList[v[1]]
  <2>2. p \in Sector /\ <<p, v[2]>> \in Held /\ At(<<p, v[2]>>) = entry[p][v[2]]
    BY <1>1, <2>1, HeldProperty DEF At
  <2>3. <<p, v[2]>> \in Heads /\ v[2] \in Nat
    BY <1>2, <2>1, <2>2, EntryCountAssumption DEF Heads, Index
  <2> QED
    BY <2>1, <2>2, <2>3
<1>3. ASSUME NEW h \in Heads
      PROVE  \E n \in 1 .. Len(mPageList) :
               mPageList[n] = h[1] /\ <<n, h[2]>> \in Places(At(h).key, At(h).kind)
  <2>1. /\ h[2] \in Items(h[1]) /\ h[2] \in Index /\ At(h) = entry[h[1]][h[2]]
        /\ h[1] \in Range(mPageList)
    BY HeadProperty
  <2>2. PICK n \in DOMAIN mPageList : mPageList[n] = h[1]
    BY <2>1 DEF Range
  <2> QED
    BY <1>1, <2>1, <2>2 DEF Places
<1> QED
  BY <1>2, <1>3

LEMMA StandingItems ==
  ASSUME PagesInv, NEW h, Standing(h)
  PROVE  /\ NewestItems(At(h).key, At(h).kind) = {At(h)} /\ Places(At(h).key, At(h).kind) # {}
         /\ At(h).kind = "BLOB" => Places(At(h).key, "BLOB_IDX") = {}
<1> DEFINE k == At(h).key
           kind == At(h).kind
           S == Places(k, kind)
<1>1. h \in Heads /\ kind \in {"BLOB_IDX", "BLOB"} /\ h[2] \in Nat /\ h = <<h[1], h[2]>>
      /\ At(h) = entry[h[1]][h[2]]
  BY HeadProperty DEF Standing
<1>2. PICK n \in 1 .. Len(mPageList) : mPageList[n] = h[1] /\ <<n, h[2]>> \in S
  BY <1>1, HeadPlaces
<1>3. /\ DOMAIN mPageList = 1 .. Len(mPageList) /\ Len(mPageList) \in Nat
      /\ Back = mPageList[Len(mPageList)] /\ Len(mPageList) \in DOMAIN mPageList
      /\ \A i, j \in DOMAIN mPageList : mPageList[i] = mPageList[j] => i = j
  BY BackProperty DEF PagesInv, IsInjective
<1>4. ASSUME NEW w \in S PROVE w[1] < n \/ (w[1] = n /\ w[2] <= h[2])
  <2> DEFINE u == <<mPageList[w[1]], w[2]>>
  <2>1. /\ w[1] \in 1 .. Len(mPageList) /\ w[2] \in Items(mPageList[w[1]]) /\ w[2] \in Nat
        /\ u \in Heads /\ At(u).key = k
    BY <1>1, <1>4, HeadPlaces
  <2>2. CASE u = h
    <3>1. mPageList[w[1]] = mPageList[n] /\ w[2] = h[2]
      BY <1>1, <1>2, <2>2
    <3> QED
      BY <1>1, <1>3, <2>1, <3>1
  <2>3. CASE u # h
    <3>1. Rivals(h, u)
      BY <2>1, <2>3 DEF Rivals
    <3>2. h[1] = Back /\ \A i \in Items(Back) : i <= h[2]
      BY <2>1, <3>1 DEF Standing, Newest
    <3>3. n = Len(mPageList)
      BY <1>2, <1>3, <3>2
    <3> QED
      BY <1>3, <2>1, <3>2, <3>3
  <2> QED
    BY <2>2, <2>3
<1>5. ASSUME NEW w \in S PROVE w[1] \in Nat /\ w[2] \in Nat /\ w = <<w[1], w[2]>>
  <2>1. w \in (1 .. Len(mPageList)) \X Index
    BY DEF Places
  <2> QED
    BY <1>3, <2>1, EntryCountAssumption DEF Index
<1> HIDE DEF S
<1> DEFINE N == {v \in S : \A w \in S : w[1] < v[1] \/ (w[1] = v[1] /\ w[2] <= v[2])}
<1>6. <<n, h[2]>> \in N
  BY <1>2, <1>4
<1>7. ASSUME NEW v \in N PROVE v = <<n, h[2]>>
  <2>1. v \in S /\ (n < v[1] \/ (n = v[1] /\ h[2] <= v[2]))
    BY <1>2, <1>7
  <2>2. v[1] < n \/ (v[1] = n /\ v[2] <= h[2])
    BY <1>4, <2>1
  <2>3. v[1] \in Nat /\ v[2] \in Nat /\ v = <<v[1], v[2]>> /\ n \in Nat
    BY <1>5, <2>1
  <2> QED
    BY <1>1, <2>1, <2>2, <2>3
<1>8. N = {<<n, h[2]>>}
  BY <1>6, <1>7
<1>9. NewestItems(k, kind) = {entry[mPageList[v[1]]][v[2]] : v \in N}
  BY DEF NewestItems, S
<1>10. NewestItems(k, kind) = {At(h)}
  <2> HIDE DEF N, k, kind
  <2> QED
    BY <1>1, <1>2, <1>8, <1>9
<1>11. ASSUME kind = "BLOB", NEW w \in Places(k, "BLOB_IDX") PROVE FALSE
  <2> DEFINE u == <<mPageList[w[1]], w[2]>>
  <2>1. u \in Heads /\ At(u).key = k /\ At(u).kind = "BLOB_IDX"
    BY <1>11, HeadPlaces
  <2> HIDE DEF u
  <2>2. Rivals(h, u)
    BY <1>11, <2>1 DEF Rivals
  <2> QED
    BY <1>11, <2>1, <2>2 DEF Standing, Newest
<1> QED
  BY <1>2, <1>10, <1>11 DEF S

\* The store of the refinement mapping has this value.
StoredRule == \A k, b : IsStored(k, b) => Stored(k) = b

LEMMA StoredIs == BlobInv => StoredRule
<1> SUFFICES ASSUME NEW k, NEW b, BlobInv, IsStored(k, b) PROVE Stored(k) = b
  BY DEF StoredRule
<1>1. PagesInv /\ NumberInv /\ OneChunk
  BY DEF BlobInv, TypeInv, DataInv
<1>2. CASE b = NoValue /\ \A h \in Heads : At(h).key # k
  <2>1. ASSUME NEW kind \in {"BLOB_IDX", "BLOB"}, NEW v \in Places(k, kind) PROVE FALSE
    <3> DEFINE h == <<mPageList[v[1]], v[2]>>
    <3>1. h \in Heads /\ At(h).key = k
      BY <1>1, <2>1, HeadPlaces
    <3> HIDE DEF h
    <3> QED
      BY <1>2, <3>1
  <2>2. StoredValues(k) = {NoValue}
    BY <2>1, Zenon DEF StoredValues
  <2> QED
    BY <1>2, <2>2 DEF Stored
<1>3. ASSUME NEW h \in Heads, At(h).key = k, Standing(h), ValueIn(Content, At(h), b)
      PROVE  Stored(k) = b
  <2> DEFINE x == At(h)
  <2>1. /\ NewestItems(k, x.kind) = {x} /\ Places(k, x.kind) # {}
        /\ x.kind = "BLOB" => Places(k, "BLOB_IDX") = {}
    BY <1>1, <1>3, StandingItems
  <2>2. x.kind \in {"BLOB_IDX", "BLOB"} /\ x \in Content
    BY <1>1, HeadProperty, VersionHead
  <2> HIDE DEF x
  <2>3. CASE x.kind = "BLOB"
    <3>1. StoredValues(k) = {y.data : y \in {x}} /\ b = x.data
      BY <1>3, <2>1, <2>3 DEF StoredValues, ValueIn, x
    <3> QED
      BY <3>1 DEF Stored
  <2>4. CASE x.kind = "BLOB_IDX"
    <3>1. ~ChunkMissing(x) /\ DataOf(x) = b
      BY <1>1, <1>3, <2>2, <2>4, HoldsProperty DEF ValueIn, x
    <3>2. StoredValues(k) = {IF ChunkMissing(y) THEN NoValue ELSE DataOf(y) : y \in {x}}
      BY <2>1, <2>4 DEF StoredValues
    <3>3. StoredValues(k) = {b}
      BY <3>1, <3>2
    <3> QED
      BY <3>3 DEF Stored
  <2> QED
    BY <2>2, <2>3, <2>4
<1> QED
  BY <1>2, <1>3 DEF IsStored

\* There is a value, or none, of every key.
LEMMA SomeStored ==
  ASSUME BlobInv, NEW k
  PROVE  \E b \in Blob \cup {NoValue} :
           /\ IsStored(k, b) /\ (b = NoValue => \A h \in Heads : At(h).key # k)
<1>1. PagesInv /\ HeadInv /\ Complete(Content)
  BY DEF BlobInv, TypeInv, DataInv
<1>2. CASE \A h \in Heads : At(h).key # k
  BY <1>2 DEF IsStored
<1>3. CASE \E h \in Heads : At(h).key = k
  <2>1. PICK v \in Heads : At(v).key = k
    BY <1>3
  <2>2. PICK h \in Heads : At(h).key = k /\ Standing(h)
    <3>1. CASE Standing(v)
      BY <2>1, <3>1
    <3>2. CASE ~Standing(v)
      <4>1. PICK w \in Heads : Rivals(v, w) /\ ~Newest(v)
        BY <3>2 DEF Standing
      <4>2. Newest(w) /\ At(w).key = k
        BY <1>1, <2>1, <4>1 DEF HeadInv, Rivals
      <4> QED
        BY <4>2 DEF Standing
    <3> QED
      BY <3>1, <3>2
  <2>3. At(h) \in Content /\ At(h) \in Item /\ At(h).kind \in {"BLOB_IDX", "BLOB"}
    BY <1>1, HeadProperty, VersionHead
  <2>4. PICK b \in Blob : ValueIn(Content, At(h), b)
    <3>1. CASE At(h).kind = "BLOB"
      <4>1. At(h).data \in Blob
        BY <2>3, <3>1 DEF Item
      <4> QED
        BY <3>1, <4>1 DEF ValueIn
    <3>2. CASE At(h).kind = "BLOB_IDX"
      <4>1. PICK b \in Blob : Holds(Content, At(h).key, At(h).chunkStart, At(h).chunkCount, b)
        BY <1>1, <2>3, <3>2 DEF Complete
      <4> QED
        BY <3>2, <4>1 DEF ValueIn
    <3> QED
      BY <2>3, <3>1, <3>2
  <2> QED
    BY <2>2, <2>4, NoValueAssumption DEF IsStored
<1> QED
  BY <1>2, <1>3

LEMMA StoredProperty == BlobInv => \A k : Stored(k) \in Blob \cup {NoValue} /\ IsStored(k, Stored(k))
<1> SUFFICES ASSUME BlobInv, NEW k PROVE Stored(k) \in Blob \cup {NoValue} /\ IsStored(k, Stored(k))
  OBVIOUS
<1>1. PICK b \in Blob \cup {NoValue} : IsStored(k, b)
  BY SomeStored
<1>2. Stored(k) = b
  BY <1>1, StoredIs DEF StoredRule
<1> QED
  BY <1>1, <1>2

-----------------------------------------------------------------------------
(* Steps that leave the value of a key what it is. *)

Comparable == Content' \subseteq Content \/ Content \subseteq Content'

\* What a head holds it still holds.
LEMMA SameValue ==
  ASSUME BlobInv, BlobInv', Comparable, NEW x \in Content, x \in Content', x.kind # "BLOB_DATA",
         NEW b, ValueIn(Content, x, b)
  PROVE  ValueIn(Content', x, b)
<1>1. /\ PagesInv /\ NumberInv /\ OneChunk /\ Complete(Content')
      /\ x.kind \in {"BLOB_IDX", "BLOB_DATA", "BLOB"}
  BY ContentProperty DEF BlobInv, TypeInv, DataInv
<1>2. CASE x.kind = "BLOB"
  BY <1>2 DEF ValueIn
<1>3. CASE x.kind = "BLOB_IDX"
  <2>1. b \in Blob /\ Holds(Content, x.key, x.chunkStart, x.chunkCount, b)
    BY <1>3 DEF ValueIn
  <2>2. PICK C : C = Content'
    OBVIOUS
  <2>3. Holds(C, x.key, x.chunkStart, x.chunkCount, b)
    <3>1. CASE Content \subseteq C
      BY <2>1, <3>1, HoldsMore
    <3>2. CASE C \subseteq Content
      <4>1. PICK a \in Blob : Holds(C, x.key, x.chunkStart, x.chunkCount, a)
        BY <1>1, <1>3, <2>2 DEF Complete
      <4>2. Holds(Content, x.key, x.chunkStart, x.chunkCount, a)
        BY <3>2, <4>1, HoldsMore
      <4>3. DataOf(x) = a /\ DataOf(x) = b
        BY <1>1, <1>3, <2>1, <4>2, HoldsProperty
      <4> QED
        BY <4>1, <4>3
    <3> QED
      BY <2>2, <3>1, <3>2 DEF Comparable
  <2> QED
    BY <1>3, <2>1, <2>2, <2>3 DEF ValueIn
<1> QED
  BY <1>1, <1>2, <1>3

\* The store of the refinement mapping follows.
LEMMA StoredAfter ==
  ASSUME BlobInv', NEW k, NEW b, IsStored(k, b)'
  PROVE  Stored(k)' = b
<1>1. (BlobInv => StoredRule)'
  BY StoredIs, PTL
<1> QED
  BY <1>1 DEF StoredRule

LEMMA StoredStays ==
  ASSUME BlobInv, BlobInv', NEW k, \A b : IsStored(k, b) => IsStored(k, b)'
  PROVE  Stored(k)' = Stored(k)
<1>1. PICK b : b = Stored(k)
  OBVIOUS
<1>2. IsStored(k, b)
  BY <1>1, StoredProperty
<1>3. Stored(k)' = b
  BY <1>2, StoredAfter
<1> QED
  BY <1>1, <1>3

\* Where a key has one head, what is stored is what its head holds.
ValueAmong(C, k, b) ==
  \/ b = NoValue /\ \A x \in C : x.kind # "BLOB_DATA" => x.key # k
  \/ \E x \in C : x.kind # "BLOB_DATA" /\ x.key = k /\ ValueIn(C, x, b)

AmongRule == \A k, b : IsStored(k, b) <=> ValueAmong(Content, k, b)

LEMMA AmongProperty == PagesInv /\ OneHead => AmongRule
<1> SUFFICES ASSUME PagesInv, OneHead, NEW k, NEW b
             PROVE  IsStored(k, b) <=> ValueAmong(Content, k, b)
  BY DEF AmongRule
<1>1. /\ \A x \in Content : x.kind # "BLOB_DATA" => \E v \in Heads : At(v) = x
      /\ \A v \in Heads : At(v) \in Content /\ At(v).kind # "BLOB_DATA" /\ Standing(v)
  BY VersionHead DEF Heads, Standing, OneHead, Rivals
<1>2. (\A h \in Heads : At(h).key # k) <=> (\A x \in Content : x.kind # "BLOB_DATA" => x.key # k)
  BY <1>1
<1>3. (\E h \in Heads : At(h).key = k /\ Standing(h) /\ ValueIn(Content, At(h), b))
      <=> (\E x \in Content : x.kind # "BLOB_DATA" /\ x.key = k /\ ValueIn(Content, x, b))
  BY <1>1
<1> QED
  BY <1>2, <1>3 DEF IsStored, ValueAmong

LEMMA SameHeadStored ==
  ASSUME BlobInv, BlobInv', OneHead, OneHead', Comparable, NEW k,
         \A x \in Content \cup Content' : x.kind # "BLOB_DATA" /\ x.key = k =>
           (x \in Content <=> x \in Content')
  PROVE  Stored(k)' = Stored(k)
<1> SUFFICES ASSUME NEW b, IsStored(k, b) PROVE IsStored(k, b)'
  BY StoredStays
<1>1. PagesInv /\ PagesInv'
  BY DEF BlobInv, TypeInv
<1>2. ValueAmong(Content, k, b)
  BY <1>1, AmongProperty DEF AmongRule
<1>3. ValueAmong(Content', k, b)
  <2>1. CASE b = NoValue /\ \A x \in Content : x.kind # "BLOB_DATA" => x.key # k
    BY <2>1 DEF ValueAmong
  <2>2. ASSUME NEW x \in Content, x.kind # "BLOB_DATA", x.key = k, ValueIn(Content, x, b)
        PROVE  ValueAmong(Content', k, b)
    <3>1. x \in Content' /\ ValueIn(Content', x, b)
      BY <2>2, SameValue
    <3> QED
      BY <2>2, <3>1 DEF ValueAmong
  <2> QED
    BY <1>2, <2>1, <2>2 DEF ValueAmong
<1>4. (PagesInv /\ OneHead => AmongRule)'
  BY AmongProperty, PTL
<1> QED
  BY <1>1, <1>3, <1>4 DEF AmongRule, ValueAmong, ValueIn

\* Where it may have two, the one that counts is not erased, and stays the newest.
LEMMA StandingStored ==
  ASSUME BlobInv, BlobInv', Comparable,
         \A v \in Heads' : v \in Heads /\ At(v)' = At(v),
         \A h \in Heads : Standing(h) => h \in Heads' /\ (Newest(h) => Newest(h)')
  PROVE  \A k : Stored(k)' = Stored(k)
<1> SUFFICES ASSUME NEW k, NEW b, IsStored(k, b) PROVE IsStored(k, b)'
  BY StoredStays
<1>1. CASE b = NoValue /\ \A h \in Heads : At(h).key # k
  BY <1>1 DEF IsStored
<1>2. ASSUME NEW h \in Heads, At(h).key = k, Standing(h), ValueIn(Content, At(h), b)
      PROVE  IsStored(k, b)'
  <2>1. h \in Heads' /\ At(h)' = At(h) /\ (Newest(h) => Newest(h)')
    BY <1>2
  <2>2. Standing(h)'
    BY <1>2, <2>1 DEF Standing, Rivals
  <2>3. At(h) \in Content /\ At(h)' \in Content' /\ At(h).kind # "BLOB_DATA"
    <3>1. PagesInv /\ PagesInv'
      BY DEF BlobInv, TypeInv
    <3>2. h \in Held /\ h \in Held'
      BY <1>2, <2>1 DEF Heads
    <3> QED
      BY <1>2, <3>2 DEF Heads, Content
  <2>4. ValueIn(Content', At(h), b)
    BY <1>2, <2>1, <2>3, SameValue
  <2>5. (ValueIn(Content, At(h), b))'
    BY <2>1, <2>4 DEF ValueIn
  <2> QED
    BY <1>2, <2>1, <2>2, <2>5 DEF IsStored
<1> QED
  BY <1>1, <1>2 DEF IsStored

\* Of two heads the one that does not count is erased.
LEMMA RivalErased ==
  ASSUME BlobInv, BlobInv', NEW p \in Sector, NEW i \in Items(p), EraseItem(p, i),
         <<p, i>> \in Heads, NEW w \in Heads, Rivals(<<p, i>>, w), ~Newest(<<p, i>>)
  PROVE  \A k : Stored(k)' = Stored(k)
<1>1. PagesInv
  BY DEF BlobInv, TypeInv
<1>2. /\ \A v \in Heads' : v \in Heads /\ v # <<p, i>> /\ At(v)' = At(v)
      /\ Back' = Back /\ mState' = mState /\ \A j \in Items(Back)' : j \in Items(Back)
  BY <1>1, EraseHeads
<1>3. Held' = Held \ {<<p, i>>} /\ (\A v \in Held' : At(v)' = At(v)) /\ Content' \subseteq Content
  BY <1>1, EraseHeld, EraseContent
<1>4. ASSUME NEW h \in Heads, Standing(h) PROVE h \in Heads' /\ (Newest(h) => Newest(h)')
  <2>1. h # <<p, i>>
    BY <1>4 DEF Standing
  <2>2. h \in Heads' /\ At(h)' = At(h)
    BY <1>3, <2>1 DEF Heads
  <2>3. Newest(h) => Newest(h)'
    <3> SUFFICES ASSUME Newest(h) PROVE Newest(h)'
      OBVIOUS
    <3>1. mState'[Back] = "ACTIVE"
      BY <1>2 DEF Newest
    <3> QED
      BY <1>2, <2>2, <3>1, NewestStays
  <2> QED
    BY <2>2, <2>3
<1> QED
  BY <1>2, <1>3, <1>4, StandingStored DEF Comparable

\* Nothing is written or erased.
LEMMA NothingStored ==
  ASSUME BlobInv, BlobInv', entry' = entry, mState[Back] = "ACTIVE" => Back' = Back /\ mState' = mState
  PROVE  \A k : Stored(k)' = Stored(k)
<1>1. Heads' = Heads /\ (\A v : At(v)' = At(v)) /\ Content' = Content
  BY SameHeads, SameContent
<1>2. ASSUME NEW h \in Heads, Newest(h) PROVE Newest(h)'
  <2>1. Back' = Back /\ mState'[Back] = "ACTIVE" /\ \A j \in Items(Back)' : j \in Items(Back)
    BY <1>2 DEF Newest, Items
  <2> QED
    BY <1>1, <1>2, <2>1, NewestStays
<1> QED
  BY <1>1, <1>2, StandingStored DEF Comparable

-----------------------------------------------------------------------------
(* What each step does to the store. *)

SameStored == \A k : Stored(k)' = Stored(k)

LEMMA NotSuperseding == BlobInv /\ ~Superseding => OneHead
BY DEF BlobInv, HeadInv, OneHead, Rivals

\* Steps of a request that neither write a head nor erase one.
LEMMA QuietStored ==
  ASSUME BlobInv, BlobInv', ~Superseding, ~Superseding',
         entry' = entry \/ (~NewPageRefused /\ RequestNewPage) \/ WriteChunk
  PROVE  SameStored
<1>1. OneHead /\ OneHead'
  <2>1. (BlobInv /\ ~Superseding => OneHead)'
    BY NotSuperseding, PTL
  <2> QED
    BY <2>1, NotSuperseding
<1>2. Content' = Content \/ (Content' = Content \cup {NewChunk} /\ NewChunk.kind = "BLOB_DATA")
  <2>1. CASE entry' = entry
    BY <2>1, SameContent
  <2>2. CASE ~NewPageRefused /\ RequestNewPage
    BY <2>2, MoveContent DEF BlobInv, TypeInv
  <2>3. CASE WriteChunk
    <3>1. NewChunk \in Item /\ WriteBack(NewChunk) /\ NextFree(Back) + Span(NewChunk) <= ENTRY_COUNT
          /\ NewChunk.kind = "BLOB_DATA"
      BY <2>3, ChunkProperty DEF NewChunk, BlobData, BlobInv
    <3> QED
      BY <3>1, WriteContent DEF BlobInv, TypeInv
  <2> QED
    BY <2>1, <2>2, <2>3
<1> QED
  BY <1>1, <1>2, SameHeadStored DEF SameStored, Comparable

LEMMA ChunkErasedStored ==
  ASSUME BlobInv, BlobInv', ~Superseding, ~Superseding', NEW p \in Sector, NEW i \in Items(p),
         EraseItem(p, i), entry[p][i].kind = "BLOB_DATA"
  PROVE  SameStored
<1>1. OneHead /\ OneHead'
  <2>1. (BlobInv /\ ~Superseding => OneHead)'
    BY NotSuperseding, PTL
  <2> QED
    BY <2>1, NotSuperseding
<1>2. Content' \subseteq Content /\ Content \subseteq Content' \cup {entry[p][i]}
  BY EraseContent DEF BlobInv, TypeInv
<1> QED
  BY <1>1, <1>2, SameHeadStored DEF SameStored, Comparable

\* The request and load() erase the version that does not count.
LEMMA EraseOldFormatStored ==
  ASSUME BlobInv, BlobInv', EraseOldFormat
  PROVE  SameStored
<1> DEFINE p == FindPage("BLOB", op.key, CHUNK_ANY, VER_ANY)
           i == FindOnPage(p, "BLOB", op.key, CHUNK_ANY, VER_ANY)
<1>1. /\ pc = "eraseOld" /\ PagesInv
      /\ IF p = NoPage THEN UNCHANGED blobPageVars ELSE EraseItem(p, i)
  BY DEF EraseOldFormat, OldBlobPage, BlobInv, TypeInv
<1>2. CASE p = NoPage
  <2>1. entry' = entry /\ Back' = Back /\ mState' = mState
    BY <1>1, <1>2 DEF blobPageVars, Back
  <2> QED
    BY <2>1, NothingStored DEF SameStored
<1>3. CASE p # NoPage
  <2>1. /\ p \in Sector /\ i \in Items(p) /\ <<p, i>> \in Heads
        /\ At(<<p, i>>).kind = "BLOB" /\ At(<<p, i>>).key = op.key
    BY <1>1, <1>3, FoundHead
  <2> HIDE DEF p, i
  <2>2. HasVersion(Content, op.key, nextStart)
    BY <1>1 DEF BlobInv, DataInv, VersionInv, Replacing
  <2>3. PICK w \in Heads : At(w).kind = "BLOB_IDX" /\ At(w).key = op.key
    BY <1>1, <2>2, VersionHead
  <2>4. Rivals(<<p, i>>, w) /\ ~Newest(<<p, i>>)
    BY <2>1, <2>3 DEF Rivals, Newest
  <2> QED
    BY <1>1, <1>3, <2>1, <2>4, RivalErased DEF SameStored
<1> QED
  BY <1>2, <1>3

LEMMA EraseIndexStored ==
  ASSUME BlobInv, BlobInv', EraseIndex, op.name = "set"
  PROVE  SameStored
<1>1. PICK p, i : /\ p \in Sector /\ i \in Items(p) /\ EraseItem(p, i)
                  /\ entry[p][i].kind = "BLOB_IDX" /\ entry[p][i].key = op.key
                  /\ entry[p][i].chunkStart = prevStart
  BY IndexThere
<1>2. /\ pc = "eraseIndex" /\ PagesInv /\ Replacing /\ prevStart # VER_ANY /\ nextStart # prevStart
      /\ HasVersion(Content, op.key, nextStart)
  BY DEF EraseIndex, BlobInv, TypeInv, HeadInv, DataInv, VersionInv, Replacing
<1>3. <<p, i>> \in Heads /\ At(<<p, i>>) = entry[p][i]
  BY <1>1, <1>2, HeldProperty DEF Heads, At
<1>4. PICK w \in Heads : At(w).key = op.key /\ At(w).chunkStart = nextStart
  BY <1>2, VersionHead
<1>5. Rivals(<<p, i>>, w) /\ Rivals(w, <<p, i>>)
  BY <1>1, <1>2, <1>3, <1>4 DEF Rivals
<1>6. Replaced(At(<<p, i>>))
  BY <1>1, <1>2, <1>3 DEF Replaced
<1>7. ~Newest(<<p, i>>)
  BY <1>2, <1>3, <1>5, <1>6 DEF BlobInv, HeadInv
<1> QED
  BY <1>1, <1>3, <1>5, <1>7, RivalErased DEF SameStored

LEMMA RepairDuplicateStored ==
  ASSUME BlobInv, BlobInv', RepairDuplicate
  PROVE  SameStored
<1> DEFINE p == Min(ActiveDuplicates)
           j == Min(Duplicates(p))
           i == Superseded(p, j)
<1>1. IF ActiveDuplicates = {} THEN UNCHANGED blobPageVars ELSE EraseItem(p, i)
  BY DEF RepairDuplicate
<1>2. PagesInv
  BY DEF BlobInv, TypeInv
<1>3. CASE ActiveDuplicates = {}
  <2>1. entry' = entry /\ Back' = Back /\ mState' = mState
    BY <1>1, <1>3 DEF blobPageVars, Back
  <2> QED
    BY <2>1, NothingStored DEF SameStored
<1>4. CASE ActiveDuplicates # {}
  <2>1. /\ p \in Sector /\ i \in Items(p) /\ j \in Items(p) /\ i < j
        /\ entry[p][i].key = entry[p][j].key /\ entry[p][i].chunk = entry[p][j].chunk
    BY <1>2, <1>4, DuplicateProperty
  <2> HIDE DEF p, i, j
  <2>2. i \in Nat /\ j \in Nat /\ i # j
    <3>1. i \in Nat /\ j \in Nat
      BY <1>2, <2>1, OnPage, EntryProperty DEF PagesInv
    <3> QED
      BY <2>1, <3>1
  <2>3. entry[p][i].kind # "BLOB_DATA" /\ entry[p][j].kind # "BLOB_DATA"
    BY <2>1, <2>2, AlikeHeads
  <2>4. /\ <<p, i>> \in Heads /\ At(<<p, i>>) = entry[p][i]
        /\ <<p, j>> \in Heads /\ At(<<p, j>>) = entry[p][j]
    BY <1>2, <2>1, <2>3, HeldProperty DEF Heads, At
  <2>5. Rivals(<<p, i>>, <<p, j>>)
    BY <2>1, <2>2, <2>4 DEF Rivals
  <2>6. ~Newest(<<p, i>>)
    <3> SUFFICES ASSUME Newest(<<p, i>>) PROVE FALSE
      OBVIOUS
    <3>1. p = Back /\ j <= i
      BY <2>1 DEF Newest
    <3> QED
      BY <2>1, <2>2, <3>1
  <2> QED
    BY <1>1, <1>4, <2>1, <2>4, <2>5, <2>6, RivalErased DEF SameStored
<1> QED
  BY <1>3, <1>4

LEMMA EraseOldVersionStored ==
  ASSUME BlobInv, BlobInv', EraseOldVersion
  PROVE  SameStored
<1> DEFINE item == entry[Back][Max(Items(Back))]
<1>1. \/ UNCHANGED blobPageVars
      \/ \E kind : Items(Back) # {} /\ Alike(item, kind) # {} /\ EraseAlike(item, kind)
  BY DEF EraseOldVersion
<1>2. PagesInv
  BY DEF BlobInv, TypeInv
<1>3. CASE UNCHANGED blobPageVars
  <2>1. entry' = entry /\ Back' = Back /\ mState' = mState
    BY <1>3 DEF blobPageVars, Back
  <2> QED
    BY <2>1, NothingStored DEF SameStored
<1>4. ASSUME NEW kind, Items(Back) # {}, Alike(item, kind) # {}, EraseAlike(item, kind)
      PROVE  SameStored
  <2>1. PICK p, i, j, b :
          /\ EraseItem(p, i) /\ p \in Sector /\ p # b /\ b = Back /\ b \in Sector
          /\ i \in Items(p) /\ j \in Items(b)
          /\ entry[p][i].key = entry[b][j].key /\ entry[p][i].chunk = entry[b][j].chunk
    BY <1>2, <1>4, ErasedAlike
  <2>2. entry[p][i].kind # "BLOB_DATA" /\ entry[b][j].kind # "BLOB_DATA"
    BY <2>1, AlikeHeads
  <2>3. /\ <<p, i>> \in Heads /\ At(<<p, i>>) = entry[p][i]
        /\ <<b, j>> \in Heads /\ At(<<b, j>>) = entry[b][j]
    BY <1>2, <2>1, <2>2, HeldProperty DEF Heads, At
  <2>4. Rivals(<<p, i>>, <<b, j>>) /\ ~Newest(<<p, i>>)
    BY <2>1, <2>3 DEF Rivals, Newest
  <2> QED
    BY <2>1, <2>3, <2>4, RivalErased DEF SameStored
<1> QED
  BY <1>1, <1>3, <1>4

LEMMA CrashStored ==
  ASSUME BlobInv, BlobInv', Crash
  PROVE  SameStored
<1>1. LoadLists /\ entry' = entry /\ mState' = mState
  BY DEF Crash, LoadLists
<1>2. mState[Back] = "ACTIVE" => Back' = Back
  BY <1>1, LoadListsPages DEF BlobInv, TypeInv
<1> QED
  BY <1>1, <1>2, NothingStored DEF SameStored

LEMMA StutterStored ==
  ASSUME BlobInv, BlobInv', UNCHANGED vars
  PROVE  SameStored
<1>1. entry' = entry /\ mState' = mState /\ Back' = Back
  BY DEF vars, blobPageVars, Back
<1> QED
  BY <1>1, NothingStored DEF SameStored

\* The steps that only write or erase chunks, or nothing.
LEMMA ChunkStored ==
  ASSUME BlobInv, BlobInv', EraseChunk \/ Cleanup \/ EraseOrphan
  PROVE  SameStored
<1>1. PagesInv
  BY DEF BlobInv, TypeInv
<1>2. CASE EraseChunk
  <2> DEFINE n == chunkStart + chunkNum
             p == ChunkPage(op.key, n)
             i == FindOnPage(p, "BLOB_DATA", op.key, n, VER_ANY)
  <2>1. /\ pc = "eraseChunks" /\ pc' = pc
        /\ IF p = NoPage THEN UNCHANGED blobPageVars ELSE EraseItem(p, i)
    BY <1>2 DEF EraseChunk
  <2>2. p # NoPage => p \in Sector /\ i \in Items(p) /\ entry[p][i].kind = "BLOB_DATA"
    BY <1>1, FoundPlace DEF ChunkPage
  <2>3. ~Superseding /\ ~Superseding'
    BY <2>1 DEF Superseding, Replacing
  <2> HIDE DEF p, i
  <2> QED
    BY <2>1, <2>2, <2>3, QuietStored, ChunkErasedStored DEF blobPageVars
<1>3. CASE Cleanup
  <2> DEFINE p == usedPages[chunkNum + 1]
             i == FindOnPage(p, "BLOB_DATA", op.key, chunkNum, VER_ANY)
  <2>1. /\ pc = "cleanup" /\ pc' \in {"cleanup", "return"}
        /\ \/ UNCHANGED blobPageVars
           \/ chunkNum # Len(usedPages) /\ i # NONE /\ EraseItem(p, i)
    BY <1>3 DEF Cleanup
  <2>2. ~Superseding /\ ~Superseding'
    BY <2>1 DEF Superseding, Replacing
  <2>3. CASE UNCHANGED blobPageVars
    BY <2>2, <2>3, QuietStored DEF blobPageVars
  <2>4. CASE chunkNum # Len(usedPages) /\ i # NONE /\ EraseItem(p, i)
    <3>1. chunkNum \in Nat /\ chunkNum <= Len(usedPages) /\ usedPages \in Seq(Sector)
      BY <2>1 DEF BlobInv, TypeInv, LocalsType, BlobControl
    <3>2. p \in Sector
      BY <2>4, <3>1
    <3>3. i \in Items(p) /\ entry[p][i].kind = "BLOB_DATA"
      <4> HIDE DEF p
      <4> QED
        BY <1>1, <2>4, <3>2, FindOnPageProperty
    <3> HIDE DEF p, i
    <3> QED
      BY <2>2, <2>4, <3>2, <3>3, ChunkErasedStored
  <2> QED
    BY <2>1, <2>3, <2>4
<1>4. CASE EraseOrphan
  <2> DEFINE found == {n \in DOMAIN mPageList : Orphans(mPageList[n]) # {}}
             p == mPageList[Min(found)]
             i == Min(Orphans(p))
  <2>1. /\ pc = "orphans" /\ pc' \in {"orphans", "idle"}
        /\ IF found = {} THEN UNCHANGED blobPageVars ELSE EraseItem(p, i)
    BY <1>4 DEF EraseOrphan
  <2>2. ~Superseding /\ ~Superseding'
    BY <2>1 DEF Superseding, Replacing
  <2>3. found # {} => p \in Sector /\ i \in Items(p) /\ entry[p][i].kind = "BLOB_DATA"
    BY <1>1, OrphanProperty, Zenon
  <2> HIDE DEF found, p, i
  <2> QED
    BY <2>1, <2>2, <2>3, QuietStored, ChunkErasedStored DEF blobPageVars
<1> QED
  BY <1>2, <1>3, <1>4

LEMMA RequestStored ==
  ASSUME BlobInv, BlobInv',
         Begin \/ Return \/ Read \/ Find \/ SkipPage \/ SkipToNewPage \/ NoTailroom \/ WriteChunk
           \/ MarkFull \/ NextPage \/ ChunksErased
  PROVE  SameStored
<1>1. entry' = entry \/ (~NewPageRefused /\ RequestNewPage) \/ WriteChunk
  BY DEF Begin, Return, Read, Find, SkipPage, SkipToNewPage, NoTailroom, MarkFull, NextPage,
         ChunksErased, MarkBackFull, blobPageVars
<1>2. ~Superseding /\ ~Superseding'
  <2>1. CASE Read
    <3>1. pc = "read" /\ pc' = "return"
      BY <2>1, ReadAnswers DEF Read
    <3> QED
      BY <3>1 DEF Superseding, Replacing
  <2>2. CASE Begin \/ Return \/ Find \/ SkipPage \/ SkipToNewPage \/ NoTailroom
    BY <2>2 DEF Begin, Return, Find, SkipPage, SkipToNewPage, NoTailroom, Superseding, Replacing
  <2>3. CASE WriteChunk \/ MarkFull \/ NextPage \/ ChunksErased
    BY <2>3 DEF WriteChunk, MarkFull, NextPage, ChunksErased, ReadOldFormat, Superseding, Replacing
  <2> QED
    BY <2>1, <2>2, <2>3
<1> QED
  BY <1>1, <1>2, QuietStored

LEMMA LoadStored ==
  ASSUME BlobInv, BlobInv', Load
  PROVE  SameStored
BY RepairDuplicateStored, EraseOldVersionStored, ChunkStored DEF Load

\* Every other step leaves the store what it is.
LEMMA StepStored ==
  ASSUME BlobInv, BlobInv', [Next]_vars,
         ~WriteIndex, ~(EraseIndex /\ op.name = "erase"), ~EraseAny
  PROVE  SameStored
<1>1. EraseIndex => op.name \in {"set", "erase"}
  BY DEF EraseIndex, BlobInv, DataInv, VersionInv
<1>2. CASE Write
  BY <1>2, RequestStored, ChunkStored, EraseOldFormatStored DEF Write
<1>3. CASE Erase
  BY <1>1, <1>3, RequestStored, ChunkStored, EraseIndexStored DEF Erase
<1>4. CASE Load \/ Crash \/ UNCHANGED vars
  BY <1>4, LoadStored, CrashStored, StutterStored
<1>5. CASE Begin \/ Return \/ Read
  BY <1>5, RequestStored
<1> QED
  BY <1>2, <1>3, <1>4, <1>5 DEF Next

\* The value that is set takes effect as its index is written.
LEMMA SetStored ==
  ASSUME BlobInv, BlobInv', WriteIndex
  PROVE  /\ pc = "index" /\ op.name = "set" /\ op' = op /\ ret' = ret
         /\ pc' \in {"eraseOld", "eraseIndex"}
         /\ Stored(op.key)' = op.val /\ \A k : k # op.key => Stored(k)' = Stored(k)
<1>1. /\ Fits(NewIndex) /\ TypeInv /\ PagesInv /\ op.name = "set" /\ pc = "index"
  <2>1. pc = "index" /\ TypeInv /\ PagesInv /\ RoomForIndex
    BY DEF BlobInv, TypeInv, WriteIndex
  <2>2. op.name = "set"
    BY <2>1 DEF TypeInv, BlobControl, SetPC
  <2> QED
    BY <2>1, <2>2, IndexFits
<1>2. /\ WriteBack(NewIndex) /\ pc' \in {"eraseOld", "eraseIndex"} /\ op' = op /\ ret' = ret
  BY <1>1 DEF WriteIndex, NewIndex
<1>3. PICK n : /\ n \in Heads' /\ At(n)' = NewIndex /\ Newest(n)'
               /\ \A v \in Heads' : v = n \/ (v \in Heads /\ At(v)' = At(v) /\ v # n)
               /\ \A v \in Heads : v \in Heads' /\ At(v)' = At(v)
  BY <1>1, <1>2, IndexWritten
<1>4. /\ NewIndex \in Item /\ NewIndex.key = op.key /\ NewIndex.kind = "BLOB_IDX"
      /\ NewIndex.chunkStart = nextStart /\ NewIndex.chunkCount = Len(usedPages)
  BY <1>1, NewIndexProperty DEF NewIndex, BlobIndex
<1>5. Content' = Content \cup {NewIndex}
  BY <1>1, <1>2, <1>4, WriteContent DEF Fits
<1>6. OneHead
  BY <1>1, NotSuperseding DEF Superseding, Replacing
<1>7. Stored(op.key)' = op.val
  <2>1. PICK C, x, k, b : C = Content' /\ x = NewIndex /\ k = op.key /\ b = op.val
    OBVIOUS
  <2>2. Holds(Content, op.key, nextStart, Len(usedPages), op.val)
    <3>1. op.val \in Blob /\ op.val \in Seq(Datum)
      BY <1>1, RequestProperty DEF TypeInv, LocalsType
    <3>2. SubSeq(op.val, 1, offset) = op.val
      <4>1. offset = Len(op.val)
        BY <1>1 DEF BlobInv, DataInv, VersionInv
      <4> QED
        BY <3>1, <4>1
    <3> QED
      BY <1>1, <3>2 DEF BlobInv, DataInv, VersionInv, Writing
  <2>3. Holds(C, op.key, nextStart, Len(usedPages), op.val)
    BY <1>5, <2>1, <2>2, HoldsMore
  <2>4. ValueIn(C, x, b)
    BY <1>1, <1>4, <2>1, <2>3, RequestProperty DEF ValueIn, TypeInv, LocalsType
  <2>5. Standing(n)'
    BY <1>3 DEF Standing
  <2>6. IsStored(k, b)'
    BY <1>3, <1>4, <2>1, <2>4, <2>5 DEF IsStored, ValueIn
  <2>7. Stored(k)' = b
    BY <2>6, StoredAfter
  <2> QED
    BY <1>2, <2>1, <2>7
<1>8. ASSUME NEW k, k # op.key PROVE Stored(k)' = Stored(k)
  <2> SUFFICES ASSUME NEW b, IsStored(k, b) PROVE IsStored(k, b)'
    BY StoredStays
  <2>1. \A v \in Heads' : At(v)'.key = k => v \in Heads /\ At(v)' = At(v)
    BY <1>3, <1>4, <1>8
  <2>2. CASE b = NoValue /\ \A h \in Heads : At(h).key # k
    BY <2>1, <2>2 DEF IsStored
  <2>3. ASSUME NEW h \in Heads, At(h).key = k, Standing(h), ValueIn(Content, At(h), b)
        PROVE  IsStored(k, b)'
    <3>1. h \in Heads' /\ At(h)' = At(h)
      BY <1>3
    <3>2. Standing(h)'
      BY <1>6, <2>1, <2>3, <3>1 DEF Standing, Rivals, OneHead
    <3>3. At(h) \in Content /\ At(h).kind # "BLOB_DATA"
      BY <1>1, VersionHead DEF Heads
    <3>4. ValueIn(Content', At(h), b)
      BY <1>5, <2>3, <3>3, SameValue DEF Comparable
    <3>5. (ValueIn(Content, At(h), b))'
      BY <3>1, <3>4 DEF ValueIn
    <3> QED
      BY <2>3, <3>1, <3>2, <3>5 DEF IsStored
  <2> QED
    BY <2>2, <2>3 DEF IsStored
<1> QED
  BY <1>1, <1>2, <1>7, <1>8

\* A blob is erased as its index, or its one item in the old format, is erased.
LEMMA HeadErasedStored ==
  ASSUME BlobInv, BlobInv', ~Superseding, NEW p \in Sector, NEW i \in Items(p), EraseItem(p, i),
         entry[p][i].kind # "BLOB_DATA", NEW k, entry[p][i].key = k
  PROVE  /\ Stored(k) # NoValue /\ Stored(k)' = NoValue
         /\ \A j : j # k => Stored(j)' = Stored(j)
<1> DEFINE h == <<p, i>>
           x == entry[p][i]
<1>1. PagesInv /\ OneHead
  BY NotSuperseding DEF BlobInv, TypeInv
<1>2. h \in Heads /\ At(h) = x /\ h \in Held
  BY <1>1, HeldProperty DEF Heads, At
<1>3. /\ \A v \in Heads' : v \in Heads /\ v # h /\ At(v)' = At(v)
      /\ Content' \subseteq Content /\ Content \subseteq Content' \cup {x}
  BY <1>1, EraseHeads, EraseContent
<1> HIDE DEF h
<1>4. x.key = k
  OBVIOUS
<1> HIDE DEF x
<1>5. Stored(k) # NoValue
  <2>1. PICK b : IsStored(k, b) /\ (b = NoValue => \A v \in Heads : At(v).key # k)
    BY SomeStored
  <2>2. b # NoValue
    BY <1>2, <1>4, <2>1
  <2> QED
    BY <2>1, <2>2, StoredIs DEF StoredRule
<1>6. Stored(k)' = NoValue
  <2>1. \A v \in Heads' : At(v)'.key # k
    BY <1>1, <1>2, <1>3, <1>4 DEF OneHead
  <2>2. PICK b : b = NoValue
    OBVIOUS
  <2>3. IsStored(k, b)'
    BY <2>1, <2>2 DEF IsStored
  <2> QED
    BY <2>2, <2>3, StoredAfter
<1>7. ASSUME NEW j, j # k PROVE Stored(j)' = Stored(j)
  <2>1. OneHead'
    BY <1>1, <1>3 DEF OneHead
  <2> QED
    BY <1>1, <1>3, <1>4, <1>7, <2>1, SameHeadStored DEF Comparable
<1> QED
  BY <1>4, <1>5, <1>6, <1>7

LEMMA EraseStored ==
  ASSUME BlobInv, BlobInv', EraseIndex, op.name = "erase"
  PROVE  /\ Stored(op.key) # NoValue /\ Stored(op.key)' = NoValue
         /\ \A k : k # op.key => Stored(k)' = Stored(k)
<1>1. PICK p, i : /\ p \in Sector /\ i \in Items(p) /\ EraseItem(p, i)
                  /\ entry[p][i].kind = "BLOB_IDX" /\ entry[p][i].key = op.key
  BY IndexThere
<1>2. ~Superseding
  BY DEF EraseIndex, Superseding, Replacing
<1>3. PICK k : k = op.key
  OBVIOUS
<1>4. /\ Stored(k) # NoValue /\ Stored(k)' = NoValue
      /\ \A j : j # k => Stored(j)' = Stored(j)
  BY <1>1, <1>2, <1>3, HeadErasedStored
<1>5. op' = op
  BY DEF EraseIndex
<1> QED
  BY <1>3, <1>4, <1>5

\* nvs_erase_key() of a key that has no blob, of one in the old format, and of one with an index.
LEMMA EraseAnyStored ==
  ASSUME BlobInv, BlobInv', EraseAny
  PROVE  /\ pc = "findAny" /\ op.name = "erase" /\ op' = op
         /\ \/ pc' = "return" /\ ret' = "NOT_FOUND" /\ SameStored /\ Stored(op.key) = NoValue
            \/ pc' = "eraseIndex" /\ SameStored
            \/ /\ pc' = "return" /\ ret' = "OK"
               /\ Stored(op.key) # NoValue /\ Stored(op.key)' = NoValue
               /\ \A k : k # op.key => Stored(k)' = Stored(k)
<1> DEFINE found == {n \in DOMAIN mPageList : ItemsOf(mPageList[n], op.key) # {}}
           p == mPageList[Min(found)]
           i == Min(ItemsOf(p, op.key))
<1>1. pc = "findAny" /\ op.name = "erase" /\ op' = op /\ PagesInv /\ NumberInv
  BY DEF EraseAny, BlobInv, TypeInv, BlobControl
<1>2. \/ found = {} /\ pc' = "return" /\ ret' = "NOT_FOUND" /\ UNCHANGED blobPageVars
      \/ found # {} /\ entry[p][i].kind = "BLOB" /\ EraseItem(p, i) /\ pc' = "return" /\ ret' = "OK"
      \/ found # {} /\ pc' = "eraseIndex" /\ UNCHANGED blobPageVars
  BY DEF EraseAny
<1>3. ~Superseding
  BY <1>1 DEF Superseding, Replacing
<1>4. UNCHANGED blobPageVars => SameStored
  BY NothingStored DEF blobPageVars, Back, SameStored
<1>5. CASE found = {}
  <2>1. \A h \in Heads : At(h).key # op.key
    <3> SUFFICES ASSUME NEW h \in Heads, At(h).key = op.key PROVE FALSE
      OBVIOUS
    <3>1. h[2] \in Items(h[1]) /\ At(h) = entry[h[1]][h[2]] /\ h[1] \in Range(mPageList)
      BY <1>1, HeadProperty
    <3>2. PICK n \in DOMAIN mPageList : mPageList[n] = h[1]
      BY <3>1 DEF Range
    <3>3. ItemsOf(mPageList[n], op.key) # {}
      BY <3>1, <3>2 DEF ItemsOf
    <3> QED
      BY <1>5, <3>3
  <2>2. IsStored(op.key, NoValue)
    BY <2>1 DEF IsStored
  <2>3. Stored(op.key) = NoValue
    BY <2>2, StoredIs DEF StoredRule
  <2> QED
    BY <1>1, <1>2, <1>4, <1>5, <2>3
<1>6. CASE found # {}
  <2>1. p \in Sector /\ i \in Items(p) /\ entry[p][i].key = op.key
    <3>1. Min(found) \in found
      <4>1. found \in SUBSET Nat
        BY <1>1, BackProperty
      <4> QED
        BY <1>6, <4>1, MinProperty
    <3>2. p \in Sector /\ ItemsOf(p, op.key) # {}
      <4>1. ItemsOf(p, op.key) # {} /\ Min(found) \in DOMAIN mPageList
        BY <3>1
      <4>2. p \in Sector
        <5> HIDE DEF found
        <5> QED
          BY <1>1, <4>1 DEF PagesInv
      <4> QED
        BY <4>1, <4>2
    <3> HIDE DEF p
    <3>3. ItemsOf(p, op.key) \in SUBSET Nat
      BY <1>1, <3>2, OnPage, EntryProperty DEF PagesInv, ItemsOf
    <3>4. i \in ItemsOf(p, op.key)
      BY <3>2, <3>3, MinProperty
    <3> QED
      BY <3>2, <3>4 DEF ItemsOf
  <2>2. CASE entry[p][i].kind = "BLOB" /\ EraseItem(p, i)
    <3> HIDE DEF found, p, i
    <3>1. PICK k : k = op.key
      OBVIOUS
    <3>2. /\ Stored(k) # NoValue /\ Stored(k)' = NoValue
          /\ \A j : j # k => Stored(j)' = Stored(j)
      BY <1>3, <2>1, <2>2, <3>1, HeadErasedStored
    <3> QED
      BY <1>1, <1>2, <1>4, <1>6, <3>1, <3>2
  <2> QED
    BY <1>1, <1>2, <1>4, <1>6, <2>2
<1> QED
  BY <1>5, <1>6

-----------------------------------------------------------------------------
(* The steps of the abstract store. *)

Requested == op.name \in {"set", "erase"}

Taking == op.name = "set" /\ pc \in {"eraseIndex", "eraseChunks", "eraseOld"}

\* The phases, told apart by pc.
LEMMA Phases ==
  Requested => /\ pc = "return" => Phase = ret
               /\ Taking => Phase = "applied"
               /\ op.name = "erase" /\ pc = "eraseChunks" => Phase = "OK"
               /\ ~(pc = "return" \/ Taking \/ (op.name = "erase" /\ pc = "eraseChunks")) =>
                    Phase = "pending"
BY DEF Requested, Taking, Phase, NoOp

LEMMA NoPhase == ~Requested /\ op \in Request => Phase = "idle" /\ MappedRequest = NoOp
<1> SUFFICES ASSUME ~Requested, op \in Request PROVE Phase = "idle" /\ MappedRequest = NoOp
  OBVIOUS
<1>1. op = NoOp \/ op.name = "get"
  BY RequestProperty DEF Requested
<1> QED
  BY <1>1 DEF Phase, MappedRequest

LEMMA PhasesNext ==
  ASSUME Requested, op' = op
  PROVE  /\ pc' = "return" => Phase' = ret'
         /\ op.name = "set" /\ pc' \in {"eraseIndex", "eraseChunks", "eraseOld"} => Phase' = "applied"
         /\ op.name = "erase" /\ pc' = "eraseChunks" => Phase' = "OK"
         /\ pc' \notin {"return", "eraseIndex", "eraseChunks", "eraseOld"} => Phase' = "pending"
         /\ op.name = "erase" /\ pc' = "eraseIndex" => Phase' = "pending"
BY DEF Requested, Phase, NoOp

\* The store of the refinement mapping.
LEMMA SameStore ==
  ASSUME SameStored
  PROVE  [k \in Key |-> Stored(k)]' = [k \in Key |-> Stored(k)]
BY DEF SameStored

\* A step that the store does not see.
LEMMA SameKV ==
  ASSUME SameStored, op' = op, Phase' = Phase
  PROVE  UNCHANGED KV!vars
BY SameStore DEF KV!vars, MappedRequest

\* And one that is of no request, or of one that reads.
LEMMA UnseenKV ==
  ASSUME SameStored, op \in Request, op' = op, ~Requested
  PROVE  UNCHANGED KV!vars
<1>1. (~Requested /\ op \in Request => Phase = "idle" /\ MappedRequest = NoOp)'
  BY NoPhase, PTL
<1>2. ~Requested' /\ op' \in Request
  BY DEF Requested
<1>3. Phase' = Phase
  BY <1>1, <1>2, NoPhase DEF Request
<1> QED
  BY <1>3, SameKV

\* The end of a request, by a return or by a restart.
LEMMA RestartKV ==
  ASSUME SameStored, op' = NoOp
  PROVE  KV!Next
<1>1. MappedRequest' = KV!NoRequest /\ Phase' = "idle"
  BY DEF MappedRequest, Phase, NoOp, KV!NoRequest
<1> QED
  BY <1>1, SameStore DEF KV!Next, KV!Restart

\* An error before anything took effect.
LEMMA RefuseKV ==
  ASSUME SameStored, op' = op, Phase = "pending", Phase' \in KV!Refusal
  PROVE  KV!Next
BY SameStore DEF KV!Next, KV!Refuse, MappedRequest

\* The answer to a set that took effect.
LEMMA DoneKV ==
  ASSUME SameStored, op' = op, op.name = "set", Phase = "applied", Phase' = "OK"
  PROVE  KV!Next
BY SameStore DEF KV!Next, KV!Done, MappedRequest

\* A key gets its value.
LEMMA SetKV ==
  ASSUME op \in Request, op' = op, op.name = "set", Phase = "pending", Phase' \in {"applied", "OK"},
         Stored(op.key)' = op.val, \A k : k # op.key => Stored(k)' = Stored(k)
  PROVE  KV!Next
<1>1. /\ MappedRequest' = MappedRequest /\ MappedRequest.name = "set"
      /\ MappedRequest.item = op.key /\ MappedRequest.val = op.val
  BY DEF MappedRequest, NoOp
<1>2. op.key \in Key
  BY RequestProperty
<1>3. [k \in Key |-> Stored(k)]' = [[k \in Key |-> Stored(k)] EXCEPT ![op.key] = op.val]
  BY <1>2
<1> QED
  BY <1>1, <1>3 DEF KV!Next, KV!Set

\* The value of a key is erased.
LEMMA EraseKV ==
  ASSUME op \in Request, op' = op, op.name = "erase", Phase = "pending", Phase' = "OK",
         Stored(op.key) # NoValue, Stored(op.key)' = NoValue,
         \A k : k # op.key => Stored(k)' = Stored(k)
  PROVE  KV!Next
<1>1. MappedRequest' = MappedRequest /\ MappedRequest.name = "erase" /\ MappedRequest.key = op.key
  BY DEF MappedRequest, NoOp
<1>2. op.key \in Key
  BY RequestProperty
<1>3. [k \in Key |-> Stored(k)]' = [[k \in Key |-> Stored(k)] EXCEPT ![op.key] = NoValue]
  BY <1>2
<1> QED
  BY <1>1, <1>2, <1>3 DEF KV!Next, KV!Erase

\* There is no value of the key.
LEMMA NotFoundKV ==
  ASSUME op \in Request, SameStored, op' = op, op.name = "erase", Phase = "pending",
         Phase' = "NOT_FOUND", Stored(op.key) = NoValue
  PROVE  KV!Next
<1>1. MappedRequest' = MappedRequest /\ MappedRequest.name = "erase" /\ MappedRequest.key = op.key
  BY DEF MappedRequest, NoOp
<1> QED
  BY <1>1, SameStore DEF KV!Next, KV!NotFound

-----------------------------------------------------------------------------
(* Each step of a blob request is one of the store, or none. *)

LEMMA BeginKV ==
  ASSUME BlobInv, SameStored, Begin
  PROVE  KV!Next \/ UNCHANGED KV!vars
<1>1. op = NoOp /\ Phase = "idle" /\ MappedRequest = NoOp
  BY NoPhase, RequestProperty DEF Begin, Requested, BlobInv, TypeInv, LocalsType, BlobControl
<1>2. PICK k \in Key : \/ \E v \in Blob : op' = [name |-> "set", key |-> k, val |-> v] /\ pc' = "find"
                       \/ op' = [name |-> "get", key |-> k] /\ pc' = "read"
                       \/ op' = [name |-> "erase", key |-> k] /\ pc' = "findAny"
  BY DEF Begin
<1>3. ASSUME NEW v \in Blob, op' = [name |-> "set", key |-> k, val |-> v], pc' = "find"
      PROVE  KV!Next
  <2>1. MappedRequest' = [name |-> "set", item |-> k, val |-> v] /\ Phase' = "pending"
    BY <1>3 DEF MappedRequest, Phase, NoOp
  <2> QED
    BY <1>1, <2>1, SameStore DEF KV!Next, KV!Begin, KV!Request
<1>4. CASE op' = [name |-> "get", key |-> k] /\ pc' = "read"
  <2>1. MappedRequest' = NoOp /\ Phase' = "idle"
    BY <1>4 DEF MappedRequest, Phase, NoOp
  <2> QED
    BY <1>1, <2>1, SameStore DEF KV!vars
<1>5. CASE op' = [name |-> "erase", key |-> k] /\ pc' = "findAny"
  <2>1. MappedRequest' = [name |-> "erase", key |-> k] /\ Phase' = "pending"
    BY <1>5 DEF MappedRequest, Phase, NoOp
  <2>2. MappedRequest' \in KV!Request
    BY <2>1 DEF KV!Request
  <2> QED
    BY <1>1, <2>1, <2>2, SameStore DEF KV!Next, KV!Begin
<1> QED
  BY <1>2, <1>3, <1>4, <1>5

\* A value that is there already is not written again: the store has it.
LEMMA FindKV ==
  ASSUME BlobInv, BlobInv', SameStored, Find
  PROVE  KV!Next \/ UNCHANGED KV!vars
<1>1. /\ pc = "find" /\ op.name = "set" /\ op' = op /\ op \in Request /\ PagesInv
      /\ NumberInv /\ OneChunk /\ Complete(Content)
  BY DEF Find, BlobInv, TypeInv, BlobControl, SetPC, LocalsType, DataInv
<1>2. Phase = "pending" /\ Requested /\ OneHead
  BY <1>1, Phases, NotSuperseding DEF Requested, Taking, Superseding, Replacing
<1>3. CASE Unmodified(op.key, op.val)
  <2>1. Phase' = "OK"
    BY <1>1, <1>2, <1>3, PhasesNext DEF Find
  <2>2. PICK x \in IndexOf(op.key) : op.val = DataOf(x)
    BY <1>3 DEF Unmodified, Compared
  <2>3. x \in Content /\ x.kind = "BLOB_IDX" /\ x.key = op.key
    BY <2>2, IndexFound
  <2>4. PICK b \in Blob : Holds(Content, x.key, x.chunkStart, x.chunkCount, b)
    BY <1>1, <2>3 DEF Complete
  <2>5. b = op.val
    BY <1>1, <2>2, <2>3, <2>4, HoldsProperty
  <2>6. IsStored(op.key, op.val)
    <3>1. ValueAmong(Content, op.key, op.val)
      BY <2>3, <2>4, <2>5 DEF ValueAmong, ValueIn
    <3> QED
      BY <1>1, <1>2, <3>1, AmongProperty DEF AmongRule
  <2>7. PICK k : k = op.key
    OBVIOUS
  <2>8. Stored(k)' = op.val
    BY <2>6, <2>7, StoredIs DEF StoredRule, SameStored
  <2> QED
    BY <1>1, <1>2, <2>1, <2>7, <2>8, SetKV DEF SameStored
<1>4. CASE ~Unmodified(op.key, op.val)
  <2>1. pc' # "aborted"
    BY DEF BlobInv, DataInv, AnswerInv
  <2>2. (pc' = "return" /\ ret' = "VALUE_TOO_LONG") \/ pc' = "chunk"
    BY <1>4, <2>1 DEF Find
  <2>3. pc' = "chunk" => Phase' = Phase
    BY <1>1, <1>2, PhasesNext
  <2>4. pc' = "return" => Phase' \in KV!Refusal
    BY <1>1, <1>2, <2>2, PhasesNext DEF KV!Refusal
  <2> QED
    BY <1>1, <1>2, <2>2, <2>3, <2>4, SameKV, RefuseKV
<1> QED
  BY <1>3, <1>4

\* A set on its way, and one that is refused.
LEMMA WriteKV ==
  ASSUME BlobInv, BlobInv', SameStored,
         SkipPage \/ SkipToNewPage \/ NoTailroom \/ WriteChunk \/ MarkFull \/ NextPage \/ Cleanup
  PROVE  KV!Next \/ UNCHANGED KV!vars
<1>1. /\ pc \in {"chunk", "skip", "full", "next", "cleanup"} /\ op' = op
      /\ \/ pc' \in {"skip", "chunk", "full", "next", "index", "cleanup"}
         \/ pc' = "return" /\ (ret' = "NOT_ENOUGH_SPACE" \/ (pc = "cleanup" /\ ret' = ret))
  BY DEF SkipPage, SkipToNewPage, NoTailroom, WriteChunk, MarkFull, NextPage, Cleanup
<1>2. op.name = "set" /\ (pc = "cleanup" => ret = "NOT_ENOUGH_SPACE")
  BY <1>1 DEF BlobInv, TypeInv, BlobControl, SetPC, DataInv, AnswerInv
<1>3. Requested /\ Phase = "pending"
  BY <1>1, <1>2, Phases DEF Requested, Taking
<1>4. CASE pc' = "return"
  <2>1. Phase' \in KV!Refusal
    BY <1>1, <1>2, <1>3, <1>4, PhasesNext DEF KV!Refusal
  <2> QED
    BY <1>1, <1>3, <2>1, RefuseKV
<1>5. CASE pc' # "return"
  BY <1>1, <1>3, <1>5, PhasesNext, SameKV
<1> QED
  BY <1>4, <1>5

LEMMA WriteIndexKV ==
  ASSUME BlobInv, BlobInv', WriteIndex
  PROVE  KV!Next
<1>1. /\ pc = "index" /\ op.name = "set" /\ op' = op
      /\ pc' \in {"eraseOld", "eraseIndex"}
      /\ Stored(op.key)' = op.val /\ \A k : k # op.key => Stored(k)' = Stored(k)
  BY SetStored
<1>2. Phase = "pending" /\ Phase' = "applied" /\ op \in Request
  BY <1>1, Phases, PhasesNext DEF Requested, Taking, BlobInv, TypeInv, LocalsType
<1> QED
  BY <1>1, <1>2, SetKV

\* What was replaced is erased, and the set is answered.
LEMMA OldVersionKV ==
  ASSUME BlobInv, BlobInv', SameStored,
         EraseOldFormat \/ (EraseIndex /\ op.name = "set") \/ EraseChunk \/ ChunksErased
  PROVE  KV!Next \/ UNCHANGED KV!vars
<1>1. CASE EraseOldFormat \/ (EraseIndex /\ op.name = "set")
  <2>1. /\ op.name = "set" /\ op' = op /\ pc \in {"eraseOld", "eraseIndex"}
        /\ (pc' = "return" /\ ret' = "OK") \/ pc' = "eraseChunks"
    <3>1. CASE EraseOldFormat
      BY <3>1 DEF EraseOldFormat, BlobInv, TypeInv, BlobControl, SetPC
    <3>2. CASE EraseIndex /\ op.name = "set"
      <4>1. FindPage("BLOB_IDX", op.key, CHUNK_ANY, prevStart) # NoPage
        BY <3>2, IndexThere
      <4> QED
        BY <3>2, <4>1 DEF EraseIndex
    <3> QED
      BY <1>1, <3>1, <3>2
  <2>2. Phase = "applied" /\ Phase' \in {"applied", "OK"}
    BY <2>1, Phases, PhasesNext DEF Requested, Taking
  <2> QED
    BY <2>1, <2>2, SameKV, DoneKV
<1>2. CASE EraseChunk \/ ChunksErased
  <2>1. /\ pc = "eraseChunks" /\ op' = op /\ op.name \in {"set", "erase"}
        /\ (pc' = "return" /\ ret' = "OK") \/ pc' = "eraseChunks"
    BY <1>2 DEF EraseChunk, ChunksErased, BlobInv, DataInv, VersionInv
  <2>2. CASE op.name = "set"
    <3>1. Phase = "applied" /\ Phase' \in {"applied", "OK"}
      BY <2>1, <2>2, Phases, PhasesNext DEF Requested, Taking
    <3> QED
      BY <2>1, <2>2, <3>1, SameKV, DoneKV
  <2>3. CASE op.name = "erase"
    <3>1. Phase = "OK" /\ Phase' = "OK"
      BY <2>1, <2>3, Phases, PhasesNext DEF Requested, Taking
    <3> QED
      BY <2>1, <3>1, SameKV
  <2> QED
    BY <2>1, <2>2, <2>3
<1> QED
  BY <1>1, <1>2

LEMMA EraseAnyKV ==
  ASSUME BlobInv, BlobInv', EraseAny
  PROVE  KV!Next \/ UNCHANGED KV!vars
<1>1. /\ pc = "findAny" /\ op.name = "erase" /\ op' = op
      /\ \/ pc' = "return" /\ ret' = "NOT_FOUND" /\ SameStored /\ Stored(op.key) = NoValue
         \/ pc' = "eraseIndex" /\ SameStored
         \/ /\ pc' = "return" /\ ret' = "OK"
            /\ Stored(op.key) # NoValue /\ Stored(op.key)' = NoValue
            /\ \A k : k # op.key => Stored(k)' = Stored(k)
  BY EraseAnyStored
<1>2. Phase = "pending" /\ op \in Request /\ Requested
  BY <1>1, Phases DEF Requested, Taking, BlobInv, TypeInv, LocalsType
<1>3. (pc' = "return" => Phase' = ret') /\ (pc' = "eraseIndex" => Phase' = "pending")
  BY <1>1, <1>2, PhasesNext
<1> QED
  BY <1>1, <1>2, <1>3, SameKV, NotFoundKV, EraseKV

LEMMA EraseIndexKV ==
  ASSUME BlobInv, BlobInv', EraseIndex, op.name = "erase"
  PROVE  KV!Next
<1>1. /\ Stored(op.key) # NoValue /\ Stored(op.key)' = NoValue
      /\ \A k : k # op.key => Stored(k)' = Stored(k)
  BY EraseStored
<1>2. pc = "eraseIndex" /\ pc' = "eraseChunks" /\ op' = op /\ op \in Request
  <2>1. FindPage("BLOB_IDX", op.key, CHUNK_ANY, VER_ANY) # NoPage
    BY IndexThere
  <2> QED
    BY <2>1 DEF EraseIndex, BlobInv, TypeInv, LocalsType
<1>3. Phase = "pending" /\ Phase' = "OK"
  BY <1>2, Phases, PhasesNext DEF Requested, Taking
<1> QED
  BY <1>1, <1>2, <1>3, EraseKV

LEMMA NextKV ==
  ASSUME BlobInv, BlobInv', [Next]_vars
  PROVE  KV!Next \/ UNCHANGED KV!vars
<1>1. op \in Request
  BY DEF BlobInv, TypeInv, LocalsType
<1>2. CASE WriteIndex \/ (EraseIndex /\ op.name = "erase") \/ EraseAny
  BY <1>2, WriteIndexKV, EraseIndexKV, EraseAnyKV
<1>3. ASSUME ~WriteIndex, ~(EraseIndex /\ op.name = "erase"), ~EraseAny
      PROVE  KV!Next \/ UNCHANGED KV!vars
  <2>1. SameStored
    BY <1>3, StepStored
  <2>2. CASE Begin
    BY <2>1, <2>2, BeginKV
  <2>3. CASE Return \/ Crash
    <3>1. op' = NoOp
      BY <2>3 DEF Return, Crash
    <3> QED
      BY <2>1, <3>1, RestartKV
  <2>4. CASE Read \/ Load
    <3>1. op' = op /\ ~Requested
      BY <2>4 DEF Read, Load, RepairDuplicate, EraseOldVersion, EraseOrphan, Requested, NoOp,
                  BlobInv, TypeInv, BlobControl
    <3> QED
      BY <1>1, <2>1, <3>1, UnseenKV
  <2>5. CASE Write
    BY <1>3, <2>1, <2>5, FindKV, WriteKV, OldVersionKV DEF Write
  <2>6. CASE Erase
    <3>1. EraseIndex => op.name = "set"
      BY <1>3 DEF EraseIndex, BlobInv, DataInv, VersionInv
    <3> QED
      BY <1>3, <2>1, <2>6, <3>1, OldVersionKV DEF Erase
  <2>7. CASE UNCHANGED vars
    <3>1. op' = op /\ Phase' = Phase
      BY <2>7 DEF vars, Phase
    <3> QED
      BY <2>1, <3>1, SameKV
  <2> QED
    BY <2>2, <2>3, <2>4, <2>5, <2>6, <2>7 DEF Next
<1> QED
  BY <1>2, <1>3

LEMMA InitKV ==
  ASSUME Init, BlobInv
  PROVE  KV!Init
<1>1. \A k : Stored(k) \in Blob \cup {NoValue}
  BY StoredProperty
<1>2. Phase = "idle" /\ MappedRequest = KV!NoRequest
  BY DEF Init, Phase, MappedRequest, NoOp, KV!NoRequest
<1>3. [k \in Key |-> Stored(k)] \in [Key -> Blob \cup {NoValue}]
  BY <1>1
<1> QED
  BY <1>2, <1>3 DEF KV!Init

(***************************************************************************)
(* However many chunks it takes, a blob is replaced and erased in one      *)
(* step: a set takes effect as writeMultiPageBlob() returns and its index  *)
(* is written, an erase as the index is erased; until then, and when the   *)
(* set is refused or the power fails, what is stored is what was there.    *)
(***************************************************************************)
THEOREM BlobsRefined ==
  ASSUME PageCount < 128
  PROVE  Spec /\ []CleanupFinds => BlobsImplemented
<1>1. Init /\ BlobInv => KV!Init
  BY InitKV
<1>2. BlobInv /\ BlobInv' /\ [Next]_vars => [KV!Next]_(KV!vars)
  BY NextKV
<1> QED
  BY <1>1, <1>2, DataHolds, PTL DEF Spec, BlobsImplemented, KV!Spec

(***************************************************************************)
(* A set that is refused has changed no value, neither of its own key nor  *)
(* of another, nor does the cleanup after it.                              *)
(***************************************************************************)
THEOREM RefusedKeepsValueHolds ==
  ASSUME PageCount < 128
  PROVE  Spec /\ []CleanupFinds => RefusedKeepsValue
<1>1. ASSUME BlobInv, BlobInv', [Next]_vars, op.name = "set",
             pc = "cleanup" \/ ret' = "NOT_ENOUGH_SPACE"
      PROVE  \A k \in Key : Stored(k)' = Stored(k)
  <2>1. ~(EraseIndex /\ op.name = "erase") /\ ~EraseAny
    BY <1>1 DEF EraseAny, BlobInv, TypeInv, BlobControl
  <2>2. ~WriteIndex
    <3> SUFFICES ASSUME WriteIndex PROVE FALSE
      OBVIOUS
    <3>1. pc = "index" /\ ret' = ret
      BY <1>1, SetStored
    <3> QED
      BY <1>1, <3>1 DEF BlobInv, DataInv, AnswerInv
  <2> QED
    BY <1>1, <2>1, <2>2, StepStored DEF SameStored
<1>2. BlobInv /\ BlobInv' /\ [Next]_vars =>
        [op.name = "set" /\ (pc = "cleanup" \/ ret' = "NOT_ENOUGH_SPACE") =>
           \A k \in Key : Stored(k)' = Stored(k)]_vars
  BY <1>1
<1> QED
  BY <1>2, DataHolds, PTL DEF Spec, RefusedKeepsValue
=============================================================================
