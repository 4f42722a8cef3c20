---------------------------- MODULE NvsStoreProofs ----------------------------
(***************************************************************************)
(* What the application sees of the storage.  No item is stored twice when *)
(* no request is in progress, and the storage implements the store of      *)
(* KVStore.  Both need what the findings of the README take away: keys     *)
(* have distinct hashes, and a key is used with one type.  And an iterator *)
(* (NvsIterator) reports the items that stay where they are, for any       *)
(* number of pages, entries, keys, requests, power failures and flash      *)
(* errors, and with no hypothesis about the constants.                     *)
(***************************************************************************)
EXTENDS NvsEntryProofs, NvsIterator

\* No two keys have the same hash.
DistinctHashes == \A j, k \in Key : Hash[j] = Hash[k] => j = k

\* The application sets each key with one type.
OneTypePerKey == \A a, b \in AppItem : a[1] = b[1] => a = b

\* What is proved in the modules before.
Known ==
  /\ Inv /\ PagesListed /\ OrderInv /\ EntryInv /\ DataInv
  /\ FreeingInv /\ CopyInv /\ OnlyCopiesWhileFreeing /\ Reserve /\ SpaceInv

-----------------------------------------------------------------------------
(* The versions of items on flash. *)

Live ==
  {v \in Sector \X Index : HasSeq(header[v[1]]) /\ entryTable[v[1]][v[2]] = "WRITTEN"}

Data(v) == entryData[v[1]][v[2]]

\* Every version is of an item that the application set.
ItemsHeld ==
  \A v \in Live : Data(v) \in Item /\ <<Data(v).key, Data(v).type>> \in AppItem

\* What writeItem() is about to write, and where.
Pending ==
  /\ pc \in {"data", "state"} => mState[Back] = "ACTIVE"
  /\ pc = "state" =>
       entryData[Back][mNextFreeEntry[Back]] = [key |-> op.key, type |-> op.type, val |-> op.val]

\* w is the copy of v on the new page.
Copy(v, w) == header[v[1]] = "FREEING" /\ header[w[1]] = "ACTIVE"

\* Where a new version may be found next to the old one: until writeItem() has erased
\* that, or else load(), on the page itself and then on the others.
Unsettled(v, w) ==
  \/ pc = "erase" /\ op.name = "set" /\ Data(v).key = op.key
  \/ ~Running
  \/ pc \in Early \ {"recover"} /\ (v[1] \in InUse \/ (pc = "insert" /\ v[1] = loadIndex) => w[1] # v[1])

\* v is the new version of w: the last item of the ACTIVE page.
Fresh(v, w) ==
  /\ header[v[1]] = "ACTIVE" /\ \A p \in Sector : header[p] # "FREEING"
  /\ \A i \in Written(v[1]) : i <= v[2]
  /\ Unsettled(v, w)

\* Of two versions of an item one is the copy of the other, or newer.
Unique == \A v, w \in Live : v # w /\ Data(v).key = Data(w).key =>
  Copy(v, w) \/ Copy(w, v) \/ Fresh(v, w) \/ Fresh(w, v)

\* findItem() found no version: there is none until the new one is written.
NoneFound ==
  Searching /\ pc # "erase" /\ findPage = NoPage => \A v \in Live : Data(v).key # op.key

\* The version of the item that findItem() found.
Old(w) ==
  /\ w \in Live /\ Data(w).key = op.key
  /\ pc = "erase" /\ op.name = "set" =>
       \E v \in Live : v # w /\ Data(v).key = op.key /\ Fresh(v, w)

\* requestNewPage() has freed the page: its items are on another.
Freed(p) ==
  p \in Free /\ mState[p] = "UNINITIALIZED" /\ pc \in {"rewrite", "init", "data", "state", "erase"}

\* findItem() found a version: it stays, on that page or where its items moved to.
FoundKept ==
  Searching /\ findPage # NoPage => \E w \in Live : Old(w) /\ (w[1] = findPage \/ Freed(findPage))

StoreInv == ItemsHeld /\ Pending /\ Unique /\ NoneFound /\ FoundKept

-----------------------------------------------------------------------------
(* What the operations on pages do to the versions on flash. *)

\* No version that stays is altered.
Kept == \A v \in Live : v \in Live' => Data(v)' = Data(v) /\ headerSeq'[v[1]] = headerSeq[v[1]]

\* The rule for the versions on flash, before a step and after it.
LEMMA LiveRule ==
  /\ \A p \in Sector, i \in Index :
       <<p, i>> \in Live <=> HasSeq(header[p]) /\ entryTable[p][i] = "WRITTEN"
  /\ \A p \in Sector, i \in Index :
       <<p, i>> \in Live' <=> HasSeq(header'[p]) /\ entryTable'[p][i] = "WRITTEN"
BY DEF Live

\* What a version is made of.
LEMMA LiveParts ==
  /\ \A v \in Live \cup Live' : v[1] \in Sector /\ v[2] \in Index /\ v = <<v[1], v[2]>>
  /\ \A v \in Live : /\ HasSeq(header[v[1]]) /\ entryTable[v[1]][v[2]] = "WRITTEN"
                     /\ v[2] \in Written(v[1])
  /\ \A v \in Live' : HasSeq(header'[v[1]]) /\ entryTable'[v[1]][v[2]] = "WRITTEN"
BY DEF Live, Written

\* Two sets of versions with the same elements.
LEMMA SameVersions ==
  ASSUME NEW S, NEW T, S \subseteq Sector \X Index, T \subseteq Sector \X Index,
         \A p \in Sector, i \in Index : <<p, i>> \in S <=> <<p, i>> \in T
  PROVE  S = T
<1>1. \A v \in S : v = <<v[1], v[2]>> /\ v[1] \in Sector /\ v[2] \in Index
  OBVIOUS
<1>2. \A v \in T : v = <<v[1], v[2]>> /\ v[1] \in Sector /\ v[2] \in Index
  OBVIOUS
<1> QED
  BY <1>1, <1>2

\* A step that leaves the bitmaps, the data and the numbers alone leaves all versions.
LEMMA QuietLive ==
  ASSUME UNCHANGED <<headerSeq, entryTable, entryData>>,
         \A p \in Sector : HasSeq(header'[p]) <=> HasSeq(header[p])
  PROVE  Live' = Live /\ Kept
BY DEF Live, Kept, Data

\* An entry that is erased takes one version with it.
LEMMA EraseEntryLive ==
  ASSUME Inv, NEW p \in Sector, NEW i \in Written(p), EraseEntry(p, i)
  PROVE  Live' = Live \ {<<p, i>>} /\ Kept /\ header' = header
<1>1. \A q \in Sector, j \in Index :
        entryTable'[q][j] = IF q = p /\ j = i THEN "ERASED" ELSE entryTable[q][j]
  BY DataTypes DEF EraseEntry, Written
<1>2. \A q \in Sector, j \in Index : ~ (q = p /\ j = i) => entryData'[q][j] = entryData[q][j]
  BY DataTypes DEF EraseEntry, Written
<1>3. header' = header /\ headerSeq' = headerSeq
  BY DEF EraseEntry
<1>4. \A q \in Sector, j \in Index : <<q, j>> \in Live' <=> <<q, j>> \in Live \ {<<p, i>>}
  <2> TAKE q \in Sector, j \in Index
  <2>1. <<q, j>> \in Live' <=> HasSeq(header[q]) /\ entryTable'[q][j] = "WRITTEN"
    BY <1>3, LiveRule
  <2>2. <<q, j>> \in Live <=> HasSeq(header[q]) /\ entryTable[q][j] = "WRITTEN"
    BY LiveRule
  <2> QED
    BY <2>1, <2>2, <1>1
<1>5. Live' = Live \ {<<p, i>>}
  BY <1>4, SameVersions DEF Live
<1>6. Kept
  <2> SUFFICES ASSUME NEW v \in Live, v \in Live'
               PROVE  Data(v)' = Data(v)
    BY <1>3 DEF Kept
  <2>1. ~ (v[1] = p /\ v[2] = i) /\ v[1] \in Sector /\ v[2] \in Index
    BY <1>5, LiveParts
  <2> QED
    BY <2>1, <1>2 DEF Data
<1> QED
  BY <1>3, <1>5, <1>6

\* Data is written where no version is.
LEMMA WriteEntryDataLive ==
  ASSUME Inv, EntryInv, DataInv, NEW p \in Sector, HasSeq(mState[p]), ~NoRoom(p), NEW item,
         WriteEntryData(p, item)
  PROVE  /\ Live' = Live /\ Kept /\ header' = header
         /\ <<p, mNextFreeEntry[p]>> \notin Live
         /\ entryData'[p][mNextFreeEntry[p]] = item
<1> DEFINE n == mNextFreeEntry[p]
<1>1. n \in Index
  BY DataTypes, EntryCountAssumption DEF NoRoom, Index
<1>2. entryTable[p][n] = "EMPTY"
  BY <1>1 DEF DataInv, BlankNext
<1>3. /\ UNCHANGED <<header, headerSeq, entryTable>>
      /\ \A q \in Sector, j \in Index : ~ (q = p /\ j = n) => entryData'[q][j] = entryData[q][j]
      /\ entryData'[p][n] = item
  BY <1>1, DataTypes DEF WriteEntryData
<1>4. Live' = Live
  BY <1>3 DEF Live
<1>5. <<p, n>> \notin Live
  BY <1>1, <1>2, LiveRule
<1>6. Kept
  <2> SUFFICES ASSUME NEW v \in Live
               PROVE  Data(v)' = Data(v)
    BY <1>3 DEF Kept
  <2>1. ~ (v[1] = p /\ v[2] = n) /\ v[1] \in Sector /\ v[2] \in Index
    BY <1>5, LiveParts
  <2> QED
    BY <2>1, <1>3 DEF Data
<1> QED
  BY <1>3, <1>4, <1>5, <1>6

\* The state word makes a version of what was written.
LEMMA WriteEntryStateLive ==
  ASSUME Inv, NEW p \in Sector, HasSeq(header[p]), ~NoRoom(p), WriteEntryState(p)
  PROVE  /\ Live' = Live \cup {<<p, mNextFreeEntry[p]>>} /\ Kept
         /\ UNCHANGED <<header, headerSeq, entryData, mState>>
         /\ mNextFreeEntry[p] \in Index /\ <<p, mNextFreeEntry[p]>> \in Live'
         /\ mNextFreeEntry'[p] = mNextFreeEntry[p] + 1
<1> DEFINE n == mNextFreeEntry[p]
<1>1. n \in Index
  BY DataTypes, EntryCountAssumption DEF NoRoom, Index
<1>2. /\ UNCHANGED <<header, headerSeq, entryData, mState>>
      /\ \A q \in Sector, j \in Index :
           entryTable'[q][j] = IF q = p /\ j = n THEN "WRITTEN" ELSE entryTable[q][j]
      /\ mNextFreeEntry'[p] = n + 1
  BY <1>1, DataTypes DEF WriteEntryState
<1>3. \A q \in Sector, j \in Index : <<q, j>> \in Live' <=> <<q, j>> \in Live \cup {<<p, n>>}
  <2> HIDE DEF n
  <2> TAKE q \in Sector, j \in Index
  <2>1. <<q, j>> \in Live' <=> HasSeq(header[q]) /\ entryTable'[q][j] = "WRITTEN"
    BY <1>2, LiveRule
  <2>2. <<q, j>> \in Live <=> HasSeq(header[q]) /\ entryTable[q][j] = "WRITTEN"
    BY LiveRule
  <2> QED
    BY <2>1, <2>2, <1>1, <1>2
<1>4. Live \cup {<<p, n>>} \subseteq Sector \X Index
  BY <1>1 DEF Live
<1>5. Live' \subseteq Sector \X Index
  BY DEF Live
<1>6. Live' = Live \cup {<<p, n>>}
  <2> HIDE DEF n
  <2> QED
    BY <1>3, <1>4, <1>5, SameVersions
<1>7. Kept
  BY <1>2 DEF Kept, Data
<1> QED
  BY <1>1, <1>2, <1>6, <1>7

\* The erase of a sector takes all versions on it, whether completed or cut off.
LEMMA SectorErasedLive ==
  ASSUME Inv, NEW p \in Sector, NEW outcome \in {"UNINITIALIZED", "CORRUPT"}, SectorErased(p, outcome)
  PROVE  /\ Live' = {v \in Live : v[1] # p} /\ Kept
         /\ \A q \in Sector : q # p => header'[q] = header[q]
         /\ header'[p] = outcome
<1>1. /\ \A q \in Sector : q # p => /\ header'[q] = header[q] /\ headerSeq'[q] = headerSeq[q]
                                    /\ entryTable'[q] = entryTable[q] /\ entryData'[q] = entryData[q]
      /\ header'[p] = outcome /\ ~HasSeq(header'[p])
  BY DataTypes, OrderTypes DEF SectorErased, HasSeq
<1>2. \A q \in Sector, j \in Index : <<q, j>> \in Live' <=> <<q, j>> \in {v \in Live : v[1] # p}
  <2> TAKE q \in Sector, j \in Index
  <2>1. <<q, j>> \in Live' <=> HasSeq(header'[q]) /\ entryTable'[q][j] = "WRITTEN"
    BY LiveRule
  <2>2. <<q, j>> \in Live <=> HasSeq(header[q]) /\ entryTable[q][j] = "WRITTEN"
    BY LiveRule
  <2> QED
    BY <2>1, <2>2, <1>1
<1>3. Live' \subseteq Sector \X Index /\ {v \in Live : v[1] # p} \subseteq Sector \X Index
  BY DEF Live
<1>4. Live' = {v \in Live : v[1] # p}
  BY <1>2, <1>3, SameVersions
<1>5. Kept
  BY <1>1, <1>4, LiveParts DEF Kept, Data
<1> QED
  BY <1>1, <1>4, <1>5

-----------------------------------------------------------------------------
(* Where versions are, and how findItem() finds them. *)

\* An item with the key is found by this type.
RightType(k, t) == t = ANY \/ <<k, t>> \in AppItem

\* The request is for an item of the application.
LEMMA RequestTypes ==
  ASSUME Inv, op.name \in {"set", "erase"}
  PROVE  /\ op.key \in Key /\ RightType(op.key, op.type)
         /\ op.name = "set" => <<op.key, op.type>> \in AppItem /\ op.val \in Value
<1>1. op \in Request
  BY DEF Inv, TypeOK
<1>2. op \notin {[name |-> "clear", ns |-> NsOf[a[1]]] : a \in AppItem}
  BY DEF Request
<1>3. op \notin {NoOp}
  BY DEF NoOp
<1>4. CASE op \in {[name |-> "set", key |-> a[1], type |-> a[2], val |-> v] : a \in AppItem, v \in Value}
  <2>1. PICK a \in AppItem, v \in Value : op = [name |-> "set", key |-> a[1], type |-> a[2], val |-> v]
    BY <1>4
  <2>2. a = <<a[1], a[2]>> /\ a[1] \in Key
    BY AppItemAssumption
  <2> QED
    BY <2>1, <2>2 DEF RightType
<1>5. CASE op \in {[name |-> "erase", key |-> a[1], type |-> ANY] : a \in AppItem}
  <2>1. PICK a \in AppItem : op = [name |-> "erase", key |-> a[1], type |-> ANY]
    BY <1>5
  <2>2. a[1] \in Key
    BY AppItemAssumption
  <2> QED
    BY <2>1, <2>2 DEF RightType
<1> QED
  BY <1>1, <1>2, <1>3, <1>4, <1>5 DEF Request

\* After loading every version is on a page in use, which knows the state of its sector.
LEMMA LivePages ==
  ASSUME Known, Running, pc \notin {"load", "repair", "insert"}, NEW v \in Live
  PROVE  v[1] \in InUse /\ mState[v[1]] = header[v[1]] /\ HasSeq(mState[v[1]])
<1>1. v[1] \in Sector /\ HasSeq(header[v[1]])
  BY LiveParts
<1>2. v[1] \in InUse
  BY <1>1, ListedPages DEF Known
<1> QED
  BY <1>1, <1>2, ListedPages DEF Known

\* Page::findItem() returns the first entry of the page with the key.
LEMMA FoundEntry ==
  ASSUME Inv, EntryInv, ItemsHeld, OneTypePerKey, NEW p \in Sector, mState[p] = header[p],
         NEW k, NEW t
  PROVE  LET i == FindOnPage(p, k, t)
         IN  /\ i # INVALID_ENTRY =>
                  /\ <<p, i>> \in Live /\ Data(<<p, i>>).key = k
                  /\ i \in Written(p)
                  /\ \A w \in Live : w[1] = p /\ Data(w).key = k => i <= w[2]
             /\ (\E w \in Live : w[1] = p /\ Data(w).key = k) /\ RightType(k, t) =>
                  i # INVALID_ENTRY
<1> DEFINE match == {i \in Written(p) : entryData[p][i].key = k}
<1>1. match \in SUBSET Nat /\ match \subseteq Index /\ INVALID_ENTRY \notin Index
  BY EntryTypes
<1>2. match # {} => Min(match) \in match /\ \A y \in match : Min(match) <= y
  <2> HIDE DEF match
  <2> QED
    BY <1>1, MinProperty
<1>3. FindOnPage(p, k, t) =
        IF HasSeq(mState[p]) /\ match # {} /\ t \in {ANY, entryData[p][Min(match)].type}
        THEN Min(match) ELSE INVALID_ENTRY
  BY ScannedWritten DEF FindOnPage
<1>4. HasSeq(header[p]) => \A i \in Index : <<p, i>> \in Live <=> i \in Written(p)
  BY LiveRule DEF Written
<1>5. \A w \in Live : w[1] = p /\ Data(w).key = k => w[2] \in match /\ HasSeq(header[p])
  BY LiveParts DEF Data
<1>6. ASSUME FindOnPage(p, k, t) # INVALID_ENTRY
      PROVE  LET i == FindOnPage(p, k, t)
             IN  /\ <<p, i>> \in Live /\ Data(<<p, i>>).key = k
                 /\ i \in Written(p)
                 /\ \A w \in Live : w[1] = p /\ Data(w).key = k => i <= w[2]
  <2>1. FindOnPage(p, k, t) = Min(match) /\ Min(match) \in match /\ HasSeq(mState[p])
    BY <1>2, <1>3, <1>6
  <2>2. Min(match) \in Index /\ <<p, Min(match)>> \in Live /\ entryData[p][Min(match)].key = k
    BY <1>1, <1>4, <2>1
  <2> QED
    BY <1>2, <1>5, <2>1, <2>2 DEF Data
<1>7. ASSUME NEW w \in Live, w[1] = p, Data(w).key = k, RightType(k, t)
      PROVE  FindOnPage(p, k, t) # INVALID_ENTRY
  <2> DEFINE m == Min(match)
  <2>1. m \in match /\ m \in Index /\ HasSeq(header[p])
    BY <1>1, <1>2, <1>5, <1>7
  <2>2. <<p, m>> \in Live /\ entryData[p][m].key = k
    BY <1>4, <2>1
  <2>3. <<k, entryData[p][m].type>> \in AppItem
    <3>1. Data(<<p, m>>) = entryData[p][m]
      BY DEF Data
    <3> HIDE DEF m
    <3> QED
      BY <2>2, <3>1 DEF ItemsHeld
  <2>4. t \in {ANY, entryData[p][m].type}
    <3> HIDE DEF m
    <3>1. t # ANY => <<k, t>> = <<k, entryData[p][m].type>>
      BY <1>7, <2>3 DEF RightType, OneTypePerKey
    <3> QED
      BY <3>1
  <2> QED
    BY <1>1, <1>3, <2>1, <2>4
<1> QED
  BY <1>6, <1>7

\* Storage::findItem() goes through the list of pages.
LEMMA FoundPage ==
  ASSUME Known, ItemsHeld, OneTypePerKey, Running, pc \notin {"load", "repair", "insert"},
         NEW k, NEW t, RightType(k, t)
  PROVE  LET p == FindPage(k, t)
         IN  /\ p = NoPage => \A w \in Live : Data(w).key # k
             /\ p # NoPage => /\ p \in InUse /\ p \in Sector /\ mState[p] = header[p]
                              /\ FindOnPage(p, k, t) # INVALID_ENTRY
                              /\ \A w \in Live : Data(w).key = k /\ w[1] # Back => p # Back
<1> DEFINE pages == FindPages(k, t)
<1>1. pages \in SUBSET Nat /\ pages \subseteq DOMAIN mPageList
  BY OrderTypes DEF FindPages, Known
<1>2. pages # {} => Min(pages) \in pages /\ \A y \in pages : Min(pages) <= y
  <2> HIDE DEF pages
  <2> QED
    BY <1>1, MinProperty
<1>3. FindPage(k, t) = IF pages = {} THEN NoPage ELSE mPageList[Min(pages)]
  BY DEF FindPage
<1>4. \A p \in InUse : p \in Sector /\ mState[p] = header[p] /\ p # NoPage
  BY ListedPages, SectorNat DEF Known
<1>5. \A w \in Live : Data(w).key = k =>
        \E n \in pages : mPageList[n] = w[1]
  <2> SUFFICES ASSUME NEW w \in Live, Data(w).key = k
               PROVE  \E n \in pages : mPageList[n] = w[1]
    OBVIOUS
  <2>1. w[1] \in InUse
    BY LivePages
  <2>2. FindOnPage(w[1], k, t) # INVALID_ENTRY
    <3>1. Inv /\ EntryInv
      BY DEF Known
    <3>2. w[1] \in Sector /\ mState[w[1]] = header[w[1]]
      BY <1>4, <2>1
    <3>3. \E x \in Live : x[1] = w[1] /\ Data(x).key = k
      OBVIOUS
    <3> QED
      BY <3>1, <3>2, <3>3, FoundEntry
  <2> QED
    BY <2>1, <2>2 DEF InUse, FindPages
<1>6. ASSUME pages = {}
      PROVE  FindPage(k, t) = NoPage /\ \A w \in Live : Data(w).key # k
  BY <1>3, <1>5, <1>6
<1>7. ASSUME pages # {}
      PROVE  LET p == FindPage(k, t)
             IN  /\ p \in InUse /\ FindOnPage(p, k, t) # INVALID_ENTRY
                 /\ \A w \in Live : Data(w).key = k /\ w[1] # Back => p # Back
  <2>1. Min(pages) \in pages /\ Min(pages) \in DOMAIN mPageList /\ FindPage(k, t) = mPageList[Min(pages)]
    BY <1>1, <1>2, <1>3, <1>7
  <2>2. FindPage(k, t) \in InUse /\ FindOnPage(FindPage(k, t), k, t) # INVALID_ENTRY
    BY <2>1 DEF InUse, FindPages
  <2>3. ASSUME NEW w \in Live, Data(w).key = k, w[1] # Back
        PROVE  FindPage(k, t) # Back
    <3>1. PICK n \in pages : mPageList[n] = w[1]
      BY <1>5, <2>3
    <3>2. /\ DOMAIN mPageList = 1 .. Len(mPageList) /\ Len(mPageList) \in Nat
          /\ Back = mPageList[Len(mPageList)]
      BY <1>1, <3>1, OrderTypes DEF Known
    <3>3. Min(pages) <= n /\ n \in DOMAIN mPageList /\ n # Len(mPageList)
      BY <1>1, <1>2, <2>3, <3>1, <3>2
    <3>4. Min(pages) # Len(mPageList) /\ Len(mPageList) \in DOMAIN mPageList
      BY <2>1, <3>2, <3>3
    <3> HIDE DEF pages
    <3> QED
      BY <2>1, <3>2, <3>4 DEF Known, PagesListed, IsInjective
  <2> QED
    BY <2>2, <2>3
<1> QED
  BY <1>4, <1>6, <1>7

-----------------------------------------------------------------------------
(* Where two versions of an item may be. *)

Twice(v, w) == v \in Live /\ w \in Live /\ v # w /\ Data(v).key = Data(w).key

\* A sector is FREEING, after loading, only while its items are moved.
LEMMA NoneFreeing ==
  ASSUME Known, Running, pc \notin Early, ~Moving, NEW p \in Sector
  PROVE  header[p] # "FREEING"
<1> SUFFICES ASSUME header[p] = "FREEING"
             PROVE  FALSE
  OBVIOUS
<1>1. p = erasedPage /\ erasedPage # NoPage
  BY SectorNat DEF Known, FreeingInv, OneFreeing
<1>2. pc \in MovePC \cup {"failed"}
  BY <1>1 DEF Known, Inv, ControlInv, MoveInv
<1>3. Chosen
  BY <1>1, <1>2 DEF Chosen, Moving, MovePC, Running
<1> QED
  BY <1>1, <1>3 DEF Known, FreeingInv, OneFreeing

\* When nothing is moved and no old version is about to be erased, no item has two versions.
LEMMA NoPairs ==
  ASSUME Known, Unique, Running, pc \notin Early, ~Moving, ~ (pc = "erase" /\ op.name = "set"),
         NEW v, NEW w, Twice(v, w)
  PROVE  FALSE
<1>1. \A p \in Sector : header[p] # "FREEING"
  BY NoneFreeing
<1>2. v[1] \in Sector /\ w[1] \in Sector
  BY LiveParts DEF Twice
<1> QED
  BY <1>1, <1>2 DEF Unique, Twice, Copy, Fresh, Unsettled

\* While items are moved, two versions of an item are an item and its copy.
LEMMA CopyPairs ==
  ASSUME Known, Unique, Moving \/ pc = "recover", NEW v, NEW w, Twice(v, w)
  PROVE  Copy(v, w) \/ Copy(w, v)
<1>1. Running /\ ~ (pc = "erase" /\ op.name = "set") /\ pc \notin Early \ {"recover"}
  BY DEF Moving, Running, Early, Loading
<1> QED
  BY <1>1 DEF Unique, Twice, Fresh, Unsettled

\* The ACTIVE page is the last of the list.
LEMMA ActiveIsBack ==
  ASSUME Known, pc \notin Loading, NEW p \in Sector, header[p] = "ACTIVE"
  PROVE  p = Back
BY DEF Known, OrderInv, ActiveLast

\* Steps that keep or remove versions, when no item has two.
LEMMA NoPairsUnique ==
  ASSUME Live' \subseteq Live, Kept, \A v, w \in Live' : ~Twice(v, w)
  PROVE  Unique'
BY DEF Unique, Twice, Kept

\* Steps that keep or remove versions, when a new version stays one.
LEMMA FewerUnique ==
  ASSUME Unique, Live' \subseteq Live, Kept, \A v \in Live' : header'[v[1]] = header[v[1]],
         \A v, w \in Live' : Twice(v, w) /\ Fresh(v, w) => Fresh(v, w)'
  PROVE  Unique'
<1> SUFFICES ASSUME NEW v \in Live', NEW w \in Live', v # w, Data(v)'.key = Data(w)'.key
             PROVE  (Copy(v, w) \/ Copy(w, v) \/ Fresh(v, w) \/ Fresh(w, v))'
  BY DEF Unique
<1>1. Twice(v, w) /\ Twice(w, v)
  BY DEF Twice, Kept
<1>2. Copy(v, w) \/ Copy(w, v) \/ Fresh(v, w) \/ Fresh(w, v)
  BY <1>1 DEF Unique, Twice
<1>3. (Copy(v, w) => Copy(v, w)') /\ (Copy(w, v) => Copy(w, v)')
  BY DEF Copy
<1> QED
  BY <1>1, <1>2, <1>3

\* When a new version stays one.
LEMMA FreshStays ==
  ASSUME NEW v \in Live', NEW w, Fresh(v, w), Live' \subseteq Live,
         header'[v[1]] = header[v[1]],
         \A p \in Sector : header'[p] = "FREEING" => header[p] = "FREEING",
         Unsettled(v, w)'
  PROVE  Fresh(v, w)'
<1>1. v = <<v[1], v[2]>> /\ v[1] \in Sector /\ v[2] \in Index /\ HasSeq(header'[v[1]])
  BY LiveParts
<1>2. \A i \in Written(v[1])' : i \in Written(v[1])
  <2> SUFFICES ASSUME NEW i \in Index, entryTable'[v[1]][i] = "WRITTEN"
               PROVE  i \in Written(v[1])
    BY DEF Written
  <2>1. <<v[1], i>> \in Live
    BY <1>1, LiveRule
  <2> QED
    BY <1>1, <2>1, LiveRule DEF Written
<1> QED
  BY <1>2 DEF Fresh

\* Steps that leave the versions as they are, or fewer, when none is Fresh.
LEMMA FewerCopies ==
  ASSUME Known, Unique, Moving \/ pc = "recover", Live' \subseteq Live, Kept,
         \A v \in Live' : header'[v[1]] = header[v[1]]
  PROVE  Unique'
<1>1. \A v, w : ~Fresh(v, w)
  BY DEF Fresh, Unsettled, Moving, Running, Early, Loading
<1> QED
  BY <1>1, FewerUnique

-----------------------------------------------------------------------------
(* What each step does to the versions on flash. *)

SameHeaders == \A v \in Live' : header'[v[1]] = header[v[1]]

\* Most steps of load() only read.
LEMMA LoadQuietLive ==
  ASSUME Known,
         LoadSector \/ RepairHalfWritten \/ RepairDone \/ InsertPage \/ Settle \/ NothingFreeing
                    \/ CheckFreePages
  PROVE  Live' = Live /\ Kept /\ header' = header
<1>1. CASE RepairHalfWritten
  <2> DEFINE p == loadIndex
             n == mNextFreeEntry[p]
  <2>1. /\ p \in Sector /\ HasSeq(mState[p]) /\ n \in Index /\ ClearHalfWritten(p)
    BY <1>1, SectorAtHand DEF RepairHalfWritten, HalfWritten, Known, EntryInv, Writable, OrderInv, Loaded,
       Read, HasSeq
  <2>2. entryTable[p][n] = "EMPTY"
    BY <2>1 DEF Known, DataInv, BlankNext
  <2> HIDE DEF p
  <2>3. /\ UNCHANGED <<header, headerSeq>>
        /\ \A q \in Sector, j \in Index : ~ (q = p /\ j = n) =>
             entryTable'[q][j] = entryTable[q][j] /\ entryData'[q][j] = entryData[q][j]
        /\ entryTable'[p][n] = "ERASED"
    BY <2>1, DataTypes DEF ClearHalfWritten, Known
  <2> HIDE DEF n
  <2>4. \A q \in Sector, j \in Index : <<q, j>> \in Live' <=> <<q, j>> \in Live
    <3> TAKE q \in Sector, j \in Index
    <3>1. <<q, j>> \in Live' <=> HasSeq(header[q]) /\ entryTable'[q][j] = "WRITTEN"
      BY <2>3, LiveRule
    <3>2. <<q, j>> \in Live <=> HasSeq(header[q]) /\ entryTable[q][j] = "WRITTEN"
      BY LiveRule
    <3> QED
      BY <2>2, <2>3, <3>1, <3>2
  <2>5. Live' = Live
    BY <2>4, SameVersions DEF Live
  <2>6. Kept
    <3> SUFFICES ASSUME NEW v \in Live
                 PROVE  Data(v)' = Data(v)
      BY <2>3 DEF Kept
    <3>1. v[1] \in Sector /\ v[2] \in Index /\ entryTable[v[1]][v[2]] = "WRITTEN"
      BY LiveParts
    <3>2. ~ (v[1] = p /\ v[2] = n)
      BY <2>2, <3>1
    <3> QED
      BY <2>3, <3>1, <3>2 DEF Data
  <2> QED
    BY <2>3, <2>5, <2>6
<1>2. CASE ~RepairHalfWritten
  <2>1. UNCHANGED flashVars
    BY <1>2 DEF LoadSector, LoadPage, RepairDone, InsertPage, Settle, NothingFreeing, CheckFreePages,
       pageVars, flashVars
  <2> QED
    BY <2>1, QuietLive DEF flashVars
<1> QED
  BY <1>1, <1>2

\* mLoadEntryTable erases the earlier of two entries with one hash.
LEMMA RepairDuplicateLive ==
  ASSUME Known, RepairDuplicate
  PROVE  LET j == Min(Superseding(loadIndex))
             i == Min(OlderEntries(loadIndex, j))
         IN  /\ <<loadIndex, i>> \in Live /\ <<loadIndex, j>> \in Live /\ i < j
             /\ Hash[Data(<<loadIndex, i>>).key] = Hash[Data(<<loadIndex, j>>).key]
             /\ Live' = Live \ {<<loadIndex, i>>} /\ Kept /\ header' = header
<1> DEFINE p == loadIndex
           j == Min(Superseding(p))
           i == Min(OlderEntries(p, j))
<1>1. p \in Sector /\ j \in Written(p) /\ i \in Written(p) /\ i \in OlderEntries(p, j)
  BY RepairDuplicateEntry DEF Known
<1>2. EraseEntry(p, i) /\ HasSeq(header[p])
  BY <1>1 DEF RepairDuplicate, Known, EntryInv, Writable, HasSeq
<1> HIDE DEF p, i, j
<1>3. Live' = Live \ {<<p, i>>} /\ Kept /\ header' = header
  BY <1>1, <1>2, EraseEntryLive DEF Known
<1>4. <<p, i>> \in Live /\ <<p, j>> \in Live
  BY <1>1, <1>2, LiveRule DEF Written
<1>5. i < j /\ Hash[entryData[p][i].key] = Hash[entryData[p][j].key]
  BY <1>1 DEF OlderEntries
<1>6. Hash[Data(<<p, i>>).key] = Hash[Data(<<p, j>>).key]
  BY <1>5 DEF Data
<1> QED
  BY <1>3, <1>4, <1>5, <1>6 DEF p, i, j

\* The largest of some entries.
LEMMA MaxProperty ==
  ASSUME NEW S \in SUBSET Index, S # {}
  PROVE  Max(S) \in S /\ \A y \in S : y <= Max(S)
<1> DEFINE R == {ENTRY_COUNT - y : y \in S}
<1>1. \A y \in S : y \in Nat /\ y < ENTRY_COUNT
  BY EntryCountAssumption DEF Index
<1>2. R \in SUBSET Nat /\ R # {}
  BY <1>1, EntryCountAssumption
<1>3. Min(R) \in R /\ \A y \in R : Min(R) <= y
  <2> HIDE DEF R
  <2> QED
    BY <1>2, MinProperty
<1>4. PICK x \in S : Min(R) = ENTRY_COUNT - x
  BY <1>3
<1>5. \A y \in S : x >= y
  <2> TAKE y \in S
  <2>1. ENTRY_COUNT - y \in R
    OBVIOUS
  <2>2. Min(R) <= ENTRY_COUNT - y
    BY <1>3, <2>1
  <2> QED
    BY <1>1, <1>4, <2>2, EntryCountAssumption
<1> QED
  BY <1>1, <1>5 DEF Max

\* The last item of the last page, and the item that load() takes for its old version.
LEMMA EraseOldVersionLive ==
  ASSUME Known, EraseOldVersion, OldVersionPages # {}
  PROVE  LET x == <<OldVersionPage, FindOnPage(OldVersionPage, LastItem.key, LastItem.type)>>
             z == <<Back, Max(Scanned(Back))>>
         IN  /\ x \in Live /\ z \in Live /\ x[1] # z[1] /\ Data(x).key = Data(z).key
             /\ Data(z) = LastItem /\ \A i \in Written(Back) : i <= z[2]
             /\ x[1] \in InUse /\ mState[x[1]] # "FREEING"
             /\ Live' = Live \ {x} /\ Kept /\ header' = header
<1> DEFINE p == OldVersionPage
           i == FindOnPage(p, LastItem.key, LastItem.type)
           m == Max(Scanned(Back))
<1>1. pc = "dup" /\ EraseEntry(p, i) /\ Running
  BY DEF EraseOldVersion, Running
<1>2. p \in Sector /\ i \in Index
  BY OldVersionProperty DEF Known
<1>3. i \in Written(p) /\ HasSeq(mState[p]) /\ entryData[p][i].key = LastItem.key
  BY <1>2, EntryNat, FindOnPageProperty
<1>4. OldVersionPages \in SUBSET Nat /\ Min(OldVersionPages) \in OldVersionPages
  <2>1. OldVersionPages \in SUBSET Nat
    BY OrderTypes DEF OldVersionPages, Known
  <2> QED
    BY <2>1, MinProperty
<1>5. /\ Min(OldVersionPages) \in 1 .. Len(mPageList) - 1 /\ mState[p] # "FREEING"
      /\ Scanned(Back) # {}
  BY <1>4 DEF OldVersionPages, OldVersionPage
<1>6. /\ p \in InUse /\ Back \in InUse /\ p # Back /\ Back \in Sector /\ mPageList # <<>>
  <2>1. Len(mPageList) \in Nat /\ DOMAIN mPageList = 1 .. Len(mPageList)
    BY OrderTypes DEF Known
  <2>2. /\ Min(OldVersionPages) \in DOMAIN mPageList /\ Len(mPageList) \in DOMAIN mPageList
        /\ Min(OldVersionPages) # Len(mPageList)
    BY <1>5, <2>1
  <2>3. mPageList # <<>>
    BY <2>1, <2>2
  <2>4. Back = mPageList[Len(mPageList)] /\ Back \in InUse /\ Back \in Sector
    BY <2>3, OrderTypes DEF Known
  <2>5. p = mPageList[Min(OldVersionPages)] /\ IsInjective(mPageList)
    BY DEF OldVersionPage, Known, PagesListed
  <2>6. p # Back
    BY <2>2, <2>4, <2>5 DEF IsInjective
  <2> QED
    BY <2>2, <2>3, <2>4, <2>5, <2>6 DEF InUse
<1>7. HasSeq(mState[Back]) /\ mState[Back] = header[Back] /\ mState[p] = header[p]
  BY <1>1, <1>6, ListedPages DEF Known, Headed, Early
<1>8. Scanned(Back) = Written(Back)
  BY <1>6, <1>7, ScannedWritten DEF Known
<1>9. Written(Back) \in SUBSET Nat /\ Written(Back) \subseteq Index /\ IsFiniteSet(Written(Back))
  BY <1>6, EntryTypes, DataTypes DEF Known
<1>10. m \in Written(Back) /\ \A y \in Written(Back) : y <= m
  BY <1>5, <1>8, <1>9, MaxProperty
<1> HIDE DEF p, i, m
<1>11. Live' = Live \ {<<p, i>>} /\ Kept /\ header' = header
  BY <1>1, <1>2, <1>3, EraseEntryLive DEF Known
<1>12. <<p, i>> \in Live /\ <<Back, m>> \in Live
  BY <1>2, <1>3, <1>6, <1>7, <1>9, <1>10, LiveRule DEF Written
<1>13. Data(<<Back, m>>) = LastItem
  BY DEF Data, LastItem, m
<1>14. Data(<<p, i>>).key = LastItem.key
  BY <1>3 DEF Data
<1> QED
  BY <1>5, <1>6, <1>10, <1>11, <1>12, <1>13, <1>14 DEF p, i, m

\* load() erases the page that items were being copied to.
LEMMA RecoverFreeingLive ==
  ASSUME Known, RecoverFreeing
  PROVE  /\ mState[Back] = "ACTIVE" => Live' = {v \in Live : v[1] # Back}
         /\ mState[Back] # "ACTIVE" => Live' = Live
         /\ Kept /\ SameHeaders /\ Back \in Sector /\ Back \in InUse
         /\ \E p \in Sector : p \in InUse /\ header[p] = "FREEING"
<1>1. CASE mState[Back] = "ACTIVE"
  <2>1. ErasePage(Back) /\ Back \in Sector
    BY <1>1, RecoveredPages DEF Known
  <2>2. SectorErased(Back, "UNINITIALIZED")
    BY <2>1 DEF ErasePage
  <2>3. /\ Live' = {v \in Live : v[1] # Back} /\ Kept
        /\ \A q \in Sector : q # Back => header'[q] = header[q]
    BY <2>1, <2>2, SectorErasedLive DEF Known
  <2>4. SameHeaders
    BY <2>3, LiveParts DEF SameHeaders
  <2> QED
    BY <1>1, <2>3, <2>4, RecoveredPages DEF Known
<1>2. CASE mState[Back] # "ACTIVE"
  <2>1. UNCHANGED pageVars
    BY <1>2, RecoveredPages DEF Known
  <2>2. Live' = Live /\ Kept
    BY <2>1, QuietLive DEF pageVars
  <2> QED
    BY <1>2, <2>1, <2>2, RecoveredPages DEF Known, SameHeaders, pageVars
<1> QED
  BY <1>1, <1>2

\* So do most steps of requestNewPage().
LEMMA MoveQuietLive ==
  ASSUME Known,
         RequestNewPage \/ EraseCorrupt \/ ActivatePage \/ ActivateNothing \/ StartCopy \/ CopyData
  PROVE  Live' = Live /\ Kept /\ SameHeaders
<1>1. CASE EraseCorrupt
  <2> DEFINE c == Head(mFreePageList)
  <2>1. c \in Sector /\ ErasePage(c) /\ mState[c] = "CORRUPT"
    BY <1>1, OrderTypes DEF EraseCorrupt, Known
  <2> HIDE DEF c
  <2>2. header[c] = "CORRUPT"
    BY <2>1 DEF Known, OrderInv, Agree
  <2>3. SectorErased(c, "UNINITIALIZED")
    BY <2>1 DEF ErasePage
  <2>4. /\ Live' = {v \in Live : v[1] # c} /\ Kept
        /\ \A q \in Sector : q # c => header'[q] = header[q]
    BY <2>1, <2>3, SectorErasedLive DEF Known
  <2>5. \A v \in Live : v[1] # c
    BY <2>2, LiveParts DEF HasSeq
  <2>6. Live' = Live
    BY <2>4, <2>5
  <2>7. SameHeaders
    BY <2>4, <2>5, <2>6, LiveParts DEF SameHeaders
  <2> QED
    BY <2>4, <2>6, <2>7
<1>2. CASE CopyData
  <2>1. pc = "copyData" /\ ~NoRoom(Back) /\ Back \in Sector /\ mState[Back] = "ACTIVE"
    BY <1>2, RoomForCopy, TwoPages DEF CopyData, Known, FreeingInv, NewPage
  <2>2. WriteEntryData(Back, entryData[erasedPage][readEntryIndex]) /\ HasSeq(mState[Back])
    BY <1>2, <2>1 DEF CopyData, HasSeq
  <2> QED
    BY <2>1, <2>2, WriteEntryDataLive DEF Known, SameHeaders
<1>3. CASE RequestNewPage \/ ActivatePage \/ ActivateNothing \/ StartCopy
  <2>1. UNCHANGED flashVars
    BY <1>3 DEF RequestNewPage, ActivatePage, ActivateNothing, StartCopy, pageVars, flashVars
  <2> QED
    BY <2>1, QuietLive DEF flashVars, SameHeaders
<1> QED
  BY <1>1, <1>2, <1>3

\* The header of a page is written before there is anything on it.
LEMMA InitializeLive ==
  ASSUME Known, pc \in {"init", "copyInit"}, Back \in Sector, Initialize(Back)
  PROVE  /\ Live' = Live /\ Kept /\ SameHeaders
         /\ header'[Back] = "ACTIVE" /\ \A q \in Sector : q # Back => header'[q] = header[q]
<1>1. header[Back] = "UNINITIALIZED"
  BY DEF Known, OrderInv, ActiveLast, Agree
<1>2. \A i \in Index : entryTable[Back][i] = "EMPTY"
  BY <1>1 DEF Known, EntryInv, BlankUnused
<1>3. /\ UNCHANGED <<entryTable, entryData>>
      /\ header'[Back] = "ACTIVE"
      /\ \A q \in Sector : q # Back => header'[q] = header[q] /\ headerSeq'[q] = headerSeq[q]
  BY DataTypes, OrderTypes DEF Initialize, Known
<1>4. \A q \in Sector, j \in Index : <<q, j>> \in Live' <=> <<q, j>> \in Live
  <2> TAKE q \in Sector, j \in Index
  <2>1. <<q, j>> \in Live' <=> HasSeq(header'[q]) /\ entryTable[q][j] = "WRITTEN"
    BY <1>3, LiveRule
  <2>2. <<q, j>> \in Live <=> HasSeq(header[q]) /\ entryTable[q][j] = "WRITTEN"
    BY LiveRule
  <2> QED
    BY <2>1, <2>2, <1>2, <1>3
<1>5. Live' = Live
  BY <1>4, SameVersions DEF Live
<1>6. \A v \in Live : v[1] # Back /\ v[1] \in Sector
  BY <1>1, LiveParts DEF HasSeq
<1> QED
  BY <1>3, <1>5, <1>6 DEF Kept, Data, SameHeaders

\* The state of a page that stays numbered does not matter to its versions.
LEMMA AlterPageStateLive ==
  ASSUME Known, NEW p \in Sector, NEW state \in {"FULL", "FREEING"}, AlterPageState(p, state),
         mState[p] \in {"FULL", "ACTIVE"}
  PROVE  Live' = Live /\ Kept
<1>1. HasSeq(header[p])
  BY DEF Known, OrderInv, Agree, HasSeq
<1>2. /\ UNCHANGED <<headerSeq, entryTable, entryData>>
      /\ \A q \in Sector : HasSeq(header'[q]) <=> HasSeq(header[q])
  BY <1>1, DataTypes DEF AlterPageState, HasSeq, Known
<1> QED
  BY <1>2, QuietLive

\* A copy is added to the new page, which holds the copies of the items before it.
LEMMA CopyStateLive ==
  ASSUME Known, CopyState
  PROVE  LET n == <<Back, mNextFreeEntry[Back]>>
             x == <<erasedPage, readEntryIndex>>
         IN  /\ x \in Live /\ n \notin Live /\ Live' = Live \cup {n} /\ Kept
             /\ header' = header /\ header[Back] = "ACTIVE" /\ header[erasedPage] = "FREEING"
             /\ \A u \in Live' : u = n => Data(u)' = Data(x)
             /\ \A w \in Live : w[1] = Back =>
                  \E y \in Live : y[1] = erasedPage /\ y # x /\ Data(y) = Data(w)
<1> DEFINE n == mNextFreeEntry[Back]
           e == erasedPage
           r == readEntryIndex
<1>1. /\ pc = "copyState" /\ ~NoRoom(Back) /\ Back \in Sector /\ e \in Sector /\ e # Back
      /\ mState[Back] = "ACTIVE" /\ header[e] = "FREEING" /\ header[Back] = "ACTIVE"
      /\ WriteEntryState(Back)
  <2>1. pc = "copyState" /\ WriteEntryState(Back)
    BY DEF CopyState
  <2>2. mState[Back] = "ACTIVE" /\ Back \in InUse
    BY <2>1, TwoPages DEF Known, FreeingInv, NewPage
  <2>3. header[Back] = "ACTIVE"
    BY <2>1, <2>2, ListedPages DEF Known, Running
  <2> QED
    BY <2>1, <2>2, <2>3, TwoPages, RoomForCopy DEF Known
<1>2. r \in Written(e) /\ r \in Index /\ Copied(Earlier(e, r)) /\ entryData[Back][n] = entryData[e][r]
  BY <1>1, RoomForCopy DEF Known, CopyInv
<1>3. n \in Index /\ entryTable[Back][n] = "EMPTY"
  BY <1>1, RoomForCopy DEF Known, DataInv, BlankNext, HasSeq
<1> HIDE DEF n, e, r
<1>4. /\ Live' = Live \cup {<<Back, n>>} /\ Kept /\ UNCHANGED <<header, entryData>>
  BY <1>1, WriteEntryStateLive DEF n, Known, HasSeq
<1>5. <<e, r>> \in Live /\ <<Back, n>> \notin Live
  BY <1>1, <1>2, <1>3, LiveRule DEF Written, HasSeq
<1>6. \A u \in Live' : u = <<Back, n>> => Data(u)' = Data(<<e, r>>)
  BY <1>2, <1>4 DEF Data
<1>7. ASSUME NEW w \in Live, w[1] = Back
      PROVE  \E y \in Live : y[1] = e /\ y # <<e, r>> /\ Data(y) = Data(w)
  <2>1. w[2] \in Written(Back)
    BY <1>7, LiveParts
  <2>2. PICK j \in Earlier(e, r) : Rank(e, j) = w[2]
    BY <1>2, <2>1 DEF Copied, e
  <2>3. entryData[Back][w[2]] = entryData[e][j]
    BY <1>2, <2>2 DEF Copied, e
  <2>4. j \in Written(e) /\ j \in Index /\ j # r
    BY <1>1, <1>2, <2>2, EntryTypes DEF Earlier, Known
  <2>5. <<e, j>> \in Live
    BY <1>1, <2>4, LiveRule DEF Written, HasSeq
  <2>6. Data(<<e, j>>) = Data(w) /\ <<e, j>>[1] = e /\ <<e, j>> # <<e, r>>
    BY <1>7, <2>3, <2>4 DEF Data
  <2> QED
    BY <2>5, <2>6
<1> QED
  BY <1>1, <1>4, <1>5, <1>6, <1>7 DEF n, e, r

\* The page that is erased is on the new page.
LEMMA FreePageLive ==
  ASSUME Known, FreePage
  PROVE  /\ Live' = {v \in Live : v[1] # erasedPage} /\ Kept /\ SameHeaders
         /\ erasedPage \in Sector /\ header[erasedPage] = "FREEING" /\ Moving
         /\ \A q \in Sector : header'[q] # "FREEING"
         /\ \A v \in Live : v[1] = erasedPage =>
              \E w \in Live : w[1] = Back /\ w[1] # erasedPage /\ Data(w) = Data(v)
<1> DEFINE e == erasedPage
<1>1. /\ pc = "erasePage" /\ e \in Sector /\ Back \in Sector /\ e # Back
      /\ header[e] = "FREEING" /\ Back \in InUse /\ ErasePage(e)
  BY TwoPages DEF FreePage, Known
<1>2. SectorErased(e, "UNINITIALIZED")
  BY <1>1 DEF ErasePage
<1> HIDE DEF e
<1>3. /\ Live' = {v \in Live : v[1] # e} /\ Kept /\ header'[e] = "UNINITIALIZED"
      /\ \A q \in Sector : q # e => header'[q] = header[q]
  BY <1>1, <1>2, SectorErasedLive DEF Known
<1>4. SameHeaders
  BY <1>3, LiveParts DEF SameHeaders
<1>5. \A q \in Sector : header'[q] # "FREEING"
  BY <1>1, <1>3 DEF Known, FreeingInv, OneFreeing
<1>6. ASSUME NEW v \in Live, v[1] = e
      PROVE  \E w \in Live : w[1] = Back /\ w[1] # e /\ Data(w) = Data(v)
  <2> DEFINE i == v[2]
             k == Rank(e, i)
  <2>1. i \in Written(e) /\ i \in Index
    BY <1>6, LiveParts
  <2>2. mState[Back] = "ACTIVE" /\ Copied(Written(e))
    BY <1>1, <2>1 DEF Known, CopyInv, e
  <2>3. header[Back] = "ACTIVE"
    BY <1>1, <2>2, ListedPages DEF Running, Known
  <2>4. Earlier(e, i) \subseteq Written(e)
    BY DEF Earlier
  <2>5. k < Cardinality(Written(e)) /\ k \in Nat /\ k <= i
    BY <1>1, <2>1, <2>4, RankGrows, RankBound DEF Known
  <2>6. k \in Index
    BY <2>1, <2>5, EntryCountAssumption DEF Index
  <2>7. k \in Written(Back) /\ entryData[Back][k] = entryData[e][i]
    BY <2>1, <2>2, <2>5, <2>6 DEF Copied, e
  <2> HIDE DEF i, k
  <2>8. <<Back, k>> \in Live
    BY <1>1, <2>3, <2>6, <2>7, LiveRule DEF Written, HasSeq
  <2>9. Data(<<Back, k>>) = Data(v) /\ <<Back, k>>[1] = Back
    BY <1>6, <2>7 DEF Data, i
  <2> QED
    BY <1>1, <2>8, <2>9
<1> QED
  BY <1>1, <1>3, <1>4, <1>5, <1>6 DEF e, Moving

\* Requests: the steps that only read, or only write data.
LEMMA ServeQuietLive ==
  ASSUME Known, Begin \/ FindForSet \/ FindForErase \/ TryWrite \/ WriteData \/ Return
  PROVE  Live' = Live /\ Kept /\ header' = header
<1>1. CASE WriteData
  <2>1. Back \in Sector /\ HasSeq(mState[Back]) /\ ~NoRoom(Back)
    BY <1>1, OrderTypes DEF WriteData, Known, Inv, ControlInv, MoveInv, RoomInv, EntryInv, Writable
  <2> QED
    BY <1>1, <2>1, WriteEntryDataLive DEF WriteData, Known
<1>2. CASE Begin \/ FindForSet \/ FindForErase \/ TryWrite \/ Return
  <2>1. UNCHANGED flashVars
    BY <1>2 DEF Begin, FindForSet, FindForErase, TryWrite, Return, pageVars, flashVars
  <2> QED
    BY <2>1, QuietLive DEF flashVars
<1> QED
  BY <1>1, <1>2

\* The new version is the last item of the ACTIVE page.
LEMMA WriteStateLive ==
  ASSUME Known, Pending, WriteState
  PROVE  LET n == <<Back, mNextFreeEntry[Back]>>
         IN  /\ n \notin Live /\ Live' = Live \cup {n} /\ Kept /\ header' = header
             /\ n \in Sector \X Index /\ header[Back] = "ACTIVE"
             /\ \A u \in Live' : u = n =>
                  Data(u)' = [key |-> op.key, type |-> op.type, val |-> op.val]
             /\ \A v \in Live : v[1] = Back => v[2] < n[2]
             /\ \A i \in Index : entryTable'[Back][i] = "WRITTEN" => i <= n[2]
<1> DEFINE n == mNextFreeEntry[Back]
<1>1. /\ pc = "state" /\ WriteEntryState(Back) /\ Back \in Sector /\ mState[Back] = "ACTIVE"
      /\ ~NoRoom(Back) /\ Running
  BY OrderTypes DEF WriteState, Known, Inv, ControlInv, MoveInv, RoomInv, Pending, Running
<1>2. header[Back] = "ACTIVE" /\ HasSeq(mState[Back])
  BY <1>1 DEF Known, OrderInv, Agree, HasSeq
<1>3. /\ Live' = Live \cup {<<Back, n>>} /\ Kept /\ UNCHANGED <<header, entryData>>
      /\ n \in Index /\ n \in Nat
  BY <1>1, <1>2, WriteEntryStateLive, DataTypes DEF Known
<1>4. entryTable[Back][n] = "EMPTY"
  BY <1>1, <1>2, <1>3 DEF Known, DataInv, BlankNext
<1>5. <<Back, n>> \notin Live
  BY <1>1, <1>3, <1>4, LiveRule
<1>6. \A i \in Index : entryTable[Back][i] = "WRITTEN" => i < n
  BY <1>1, <1>2 DEF Known, EntryInv, Tracked
<1>7. \A i \in Index : entryTable'[Back][i] = "WRITTEN" => i = n \/ entryTable[Back][i] = "WRITTEN"
  BY <1>1, <1>3, DataTypes DEF WriteEntryState, Known
<1>8. entryData[Back][n] = [key |-> op.key, type |-> op.type, val |-> op.val]
  BY <1>1 DEF Pending
<1> HIDE DEF n
<1>9. \A u \in Live' : u = <<Back, n>> =>
        Data(u)' = [key |-> op.key, type |-> op.type, val |-> op.val]
  BY <1>3, <1>8 DEF Data
<1>10. \A v \in Live : v[1] = Back => v[2] < n
  BY <1>6, LiveParts
<1>11. \A i \in Index : entryTable'[Back][i] = "WRITTEN" => i <= n
  BY <1>3, <1>6, <1>7, EntryTypes DEF Known
<1>12. <<Back, n>> \in Sector \X Index /\ <<Back, n>>[2] = n
  BY <1>1, <1>3
<1> QED
  BY <1>2, <1>3, <1>5, <1>9, <1>10, <1>11, <1>12 DEF n

\* What findItem() finds is erased, if anything.
LEMMA EraseFoundLive ==
  ASSUME Known, EraseFound
  PROVE  LET p == OldVersionOn
             x == <<p, FindOnPage(p, op.key, op.type)>>
         IN  IF p = NoPage \/ x[2] = INVALID_ENTRY THEN UNCHANGED pageVars
             ELSE /\ x \in Live /\ p \in Sector /\ Data(x).key = op.key /\ mState[p] = header[p]
                  /\ op.type \in {ANY, Data(x).type}
                  /\ Live' = Live \ {x} /\ Kept /\ header' = header /\ pc' = "return" /\ ret' = "OK"
<1> DEFINE p == OldVersionOn
           i == FindOnPage(p, op.key, op.type)
<1>1. CASE p = NoPage \/ i = INVALID_ENTRY
  BY <1>1 DEF EraseFound
<1>2. CASE ~ (p = NoPage \/ i = INVALID_ENTRY)
  <2>1. EraseEntry(p, i) /\ pc' = "return" /\ ret' = "OK"
    BY <1>2 DEF EraseFound, Respond
  <2>2. p \in Sector
    BY <1>2, FindPageProperty DEF OldVersionOn, Known, Inv, TypeOK, Page
  <2>3. /\ i \in Written(p) /\ HasSeq(mState[p]) /\ entryData[p][i].key = op.key
        /\ op.type \in {ANY, entryData[p][i].type}
    BY <1>2, <2>2, FindOnPageProperty
  <2>4. mState[p] = header[p]
    BY <2>2, <2>3 DEF Known, OrderInv, Agree, HasSeq
  <2> HIDE DEF p, i
  <2>5. Live' = Live \ {<<p, i>>} /\ Kept /\ header' = header
    BY <2>1, <2>2, <2>3, EraseEntryLive DEF Known
  <2>6. <<p, i>> \in Live
    BY <2>2, <2>3, <2>4, LiveRule DEF Written
  <2>7. Data(<<p, i>>).key = op.key /\ op.type \in {ANY, Data(<<p, i>>).type}
    BY <2>3 DEF Data
  <2> QED
    BY <1>2, <2>1, <2>2, <2>4, <2>5, <2>6, <2>7 DEF p, i
<1> QED
  BY <1>1, <1>2

\* eraseNamespace() erases an item of the namespace, if there is one.
LEMMA EraseOfNamespaceLive ==
  ASSUME Known, EraseOfNamespace
  PROVE  IF ClearPages(op.ns) = {} THEN UNCHANGED pageVars
         ELSE \E x \in Live : /\ NsOf[Data(x).key] = op.ns
                              /\ Live' = Live \ {x} /\ Kept /\ header' = header
<1>1. CASE ClearPages(op.ns) = {}
  BY <1>1 DEF EraseOfNamespace
<1>2. CASE ClearPages(op.ns) # {}
  <2> DEFINE n == Min(ClearPages(op.ns))
             p == mPageList[n]
             i == FindNamespace(p, op.ns)
             S == {j \in Scanned(p) : NsOf[entryData[p][j].key] = op.ns}
  <2>1. EraseEntry(p, i)
    BY <1>2 DEF EraseOfNamespace
  <2>2. n \in ClearPages(op.ns)
    <3>1. ClearPages(op.ns) \in SUBSET Nat
      BY OrderTypes DEF ClearPages, Known
    <3> QED
      BY <1>2, <3>1, MinProperty
  <2>3. n \in DOMAIN mPageList /\ i # INVALID_ENTRY
    BY <2>2 DEF ClearPages
  <2>4. p \in Sector
    BY <2>3, OrderTypes DEF Known
  <2>5. HasSeq(mState[p]) /\ i = LeastOr(S, INVALID_ENTRY)
    BY <2>3 DEF FindNamespace
  <2>6. S \in SUBSET Nat /\ S \subseteq Written(p)
    BY <2>4, EntryTypes DEF Scanned, Known
  <2>7. i \in S
    <3> HIDE DEF S
    <3> QED
      BY <2>3, <2>5, <2>6, LeastOrProperty
  <2>8. i \in Written(p) /\ NsOf[entryData[p][i].key] = op.ns
    BY <2>6, <2>7
  <2>9. HasSeq(header[p]) /\ i \in Index
    BY <2>4, <2>5, <2>8, EntryTypes DEF Known, OrderInv, Agree, HasSeq
  <2> HIDE DEF p, i
  <2>10. Live' = Live \ {<<p, i>>} /\ Kept /\ header' = header
    BY <2>1, <2>4, <2>8, EraseEntryLive DEF Known
  <2>11. <<p, i>> \in Live
    BY <2>4, <2>8, <2>9, LiveRule DEF Written
  <2>12. NsOf[Data(<<p, i>>).key] = op.ns
    BY <2>8 DEF Data
  <2> QED
    BY <1>2, <2>10, <2>11, <2>12
<1> QED
  BY <1>1, <1>2

\* An operation that is cut off alters no version; an erase takes those of its page.
LEMMA HalfDoneLive ==
  ASSUME Known, UNCHANGED flashVars \/ HalfDone
  PROVE  /\ Live' = Live \/ \E p \in EraseTarget : Live' = {v \in Live : v[1] # p}
         /\ Kept /\ SameHeaders
         /\ \A q \in Sector : header'[q] = "FREEING" => header[q] = "FREEING"
<1>1. CASE UNCHANGED flashVars
  BY <1>1, QuietLive DEF flashVars, SameHeaders
<1>2. ASSUME NEW p \in EraseTarget, SectorErased(p, "CORRUPT")
      PROVE  /\ Live' = {v \in Live : v[1] # p} /\ Kept /\ SameHeaders
             /\ \A q \in Sector : header'[q] = "FREEING" => header[q] = "FREEING"
  <2>1. p \in Sector
    BY TargetSectors DEF Known
  <2>2. /\ Live' = {v \in Live : v[1] # p} /\ Kept /\ header'[p] = "CORRUPT"
        /\ \A q \in Sector : q # p => header'[q] = header[q]
    BY <1>2, <2>1, SectorErasedLive DEF Known
  <2> QED
    BY <2>2, LiveParts DEF SameHeaders
<1>3. ASSUME NEW p \in HeaderTarget, header' = [header EXCEPT ![p] = "CORRUPT"],
             UNCHANGED <<headerSeq, entryTable, entryData>>
      PROVE  /\ Live' = Live /\ Kept /\ SameHeaders
             /\ \A q \in Sector : header'[q] = "FREEING" => header[q] = "FREEING"
  <2>1. p \in Sector /\ p = Back /\ pc \in {"init", "copyInit"}
    BY TargetSectors DEF HeaderTarget, Known
  <2>2. header[p] = "UNINITIALIZED"
    BY <2>1 DEF Known, OrderInv, ActiveLast, Agree
  <2>3. header'[p] = "CORRUPT" /\ \A q \in Sector : q # p => header'[q] = header[q]
    BY <1>3, <2>1, DataTypes DEF Known
  <2>4. \A q \in Sector : HasSeq(header'[q]) <=> HasSeq(header[q])
    BY <2>2, <2>3 DEF HasSeq
  <2>5. Live' = Live /\ Kept
    BY <1>3, <2>4, QuietLive
  <2>6. \A v \in Live : v[1] # p /\ v[1] \in Sector
    BY <2>2, LiveParts DEF HasSeq
  <2> QED
    BY <2>3, <2>5, <2>6 DEF SameHeaders
<1>4. ASSUME NEW p \in DataTarget,
             entryData' = [entryData EXCEPT ![p][mNextFreeEntry[p]] = Garbage],
             UNCHANGED <<header, headerSeq, entryTable>>
      PROVE  /\ Live' = Live /\ Kept /\ SameHeaders
  <2> DEFINE n == mNextFreeEntry[p]
  <2>1. p \in Sector /\ p = Back /\ pc \in {"data", "copyData"} /\ ~NoRoom(Back)
    BY <1>4, TargetSectors DEF DataTarget, Known, Inv, ControlInv, RoomInv
  <2>2. HasSeq(mState[p])
    BY <2>1 DEF Known, EntryInv, Writable
  <2>3. n \in Index
    BY <2>1, DataTypes, EntryCountAssumption DEF NoRoom, Index, Known
  <2>4. entryTable[p][n] = "EMPTY"
    BY <2>1, <2>2, <2>3 DEF Known, DataInv, BlankNext
  <2>5. \A q \in Sector, i \in Index : ~ (q = p /\ i = n) => entryData'[q][i] = entryData[q][i]
    BY <1>4, <2>1, <2>3, DataTypes DEF Known
  <2> HIDE DEF n
  <2>6. Live' = Live
    BY <1>4 DEF Live
  <2>7. Kept
    <3> SUFFICES ASSUME NEW v \in Live
                 PROVE  Data(v)' = Data(v)
      BY <1>4 DEF Kept
    <3>1. v[1] \in Sector /\ v[2] \in Index /\ entryTable[v[1]][v[2]] = "WRITTEN"
      BY LiveParts
    <3>2. ~ (v[1] = p /\ v[2] = n)
      BY <2>4, <3>1
    <3> QED
      BY <2>5, <3>1, <3>2 DEF Data
  <2> QED
    BY <1>4, <2>6, <2>7 DEF SameHeaders
<1> QED
  BY <1>1, <1>2, <1>3, <1>4 DEF HalfDone

-----------------------------------------------------------------------------
(* No step leaves two versions of an item where they are not accounted for. *)

USE DEF Loading, LoadPC, MovePC, StoragePC, WritePC, Booting, Goto

\* Past the reading of the sectors, one of two versions is on the last page.
LEMMA OneAtBack ==
  ASSUME Known, Unique, pc \notin Loading, NEW v, NEW w, Twice(v, w)
  PROVE  v[1] = Back \/ w[1] = Back
<1>1. v[1] \in Sector /\ w[1] \in Sector
  BY LiveParts DEF Twice
<1>2. header[v[1]] = "ACTIVE" \/ header[w[1]] = "ACTIVE"
  BY DEF Unique, Twice, Copy, Fresh
<1> QED
  BY <1>1, <1>2, ActiveIsBack

\* Steps of load() that alter no version.
LEMMA LoadQuietUnique ==
  ASSUME Known, Unique, LoadSector \/ RepairHalfWritten \/ RepairDone \/ InsertPage \/ Settle
  PROVE  Unique'
<1>1. Live' = Live /\ Kept /\ header' = header
  BY LoadQuietLive
<1>2. pc \in Loading /\ Running
  BY DEF LoadSector, RepairHalfWritten, RepairDone, InsertPage, Settle, Running
<1>3. CASE Settle /\ mPageList = <<>>
  <2>1. InUse = {} /\ pc = "settle"
    BY <1>3, OrderTypes DEF InUse, Known, Settle
  <2>2. Live = {}
    BY <1>2, <2>1, LivePages
  <2> QED
    BY <1>1, <2>2 DEF Unique
<1>4. ASSUME ~ (Settle /\ mPageList = <<>>), NEW v \in Live', NEW w \in Live', Twice(v, w), Fresh(v, w)
      PROVE  Unsettled(v, w)'
  <2>1. v[1] \in InUse \/ (pc = "insert" /\ v[1] = loadIndex) => w[1] # v[1]
    BY <1>2, <1>4 DEF Fresh, Unsettled, Early
  <2>2. header[v[1]] = "ACTIVE" /\ v[1] \in Sector /\ v[2] \in Index /\ w[2] \in Index /\ v # w
    BY <1>1, <1>4, LiveParts DEF Fresh, Twice
  <2>3. pc' \in Early \ {"recover"}
    BY <1>2, <1>4 DEF LoadSector, RepairHalfWritten, RepairDone, InsertPage, Settle, Early
  <2>4. SUFFICES ASSUME v[1] \in InUse' \/ (pc' = "insert" /\ v[1] = loadIndex')
                 PROVE  w[1] # v[1]
    BY <2>3 DEF Unsettled
  <2>5. CASE LoadSector \/ RepairHalfWritten \/ Settle
    <3>1. InUse' = InUse /\ ~ (pc' = "insert" /\ v[1] = loadIndex')
      BY <2>2, <2>5 DEF LoadSector, RepairHalfWritten, Settle, managerVars, localVars, InUse
    <3> QED
      BY <2>1, <2>4, <3>1
  <2>6. CASE InsertPage
    <3>1. InUse' \subseteq InUse \cup {loadIndex} /\ pc = "insert" /\ pc' # "insert"
      BY <2>6, InsertedPage DEF InsertPage, Known
    <3> QED
      BY <2>1, <2>4, <3>1
  <2>7. CASE RepairDone
    <3>1. InUse' = InUse /\ loadIndex' = loadIndex /\ pc = "repair" /\ Superseding(loadIndex) = {}
      BY <2>7 DEF RepairDone, managerVars, localVars, InUse
    <3>2. ASSUME v[1] = loadIndex, w[1] = loadIndex
          PROVE  FALSE
      <4>1. v[2] \in Written(loadIndex) /\ w[2] \in Written(loadIndex) /\ v[2] # w[2]
        BY <1>1, <2>2, <3>2, LiveParts
      <4>2. w[2] < v[2]
        <5>1. w[2] <= v[2]
          BY <1>4, <3>2, <4>1 DEF Fresh
        <5>2. v[2] \in Nat /\ w[2] \in Nat
          BY <2>2, EntryNat
        <5> QED
          BY <4>1, <5>1, <5>2
      <4>3. HasSeq(mState[loadIndex])
        BY <2>2, <3>1, <3>2 DEF Known, OrderInv, Loaded, Read, HasSeq
      <4>4. v[2] < mNextFreeEntry[loadIndex]
        BY <2>2, <3>2, <4>1, <4>3 DEF Known, EntryInv, Tracked, Written
      <4>5. w[2] \in OlderEntries(loadIndex, v[2])
        BY <1>4, <3>2, <4>1, <4>2 DEF OlderEntries, Twice, Data
      <4> QED
        BY <3>1, <4>1, <4>4, <4>5 DEF Superseding
    <3> QED
      BY <2>1, <2>4, <3>1, <3>2
  <2> QED
    BY <2>5, <2>6, <2>7
<1>5. CASE ~ (Settle /\ mPageList = <<>>)
  <2>1. \A v, w \in Live' : Twice(v, w) /\ Fresh(v, w) => Fresh(v, w)'
    BY <1>1, <1>4, <1>5, FreshStays
  <2> QED
    BY <1>1, <2>1, FewerUnique
<1> QED
  BY <1>3, <1>5

\* mLoadEntryTable erases one of two entries of a page.
LEMMA RepairDuplicateUnique ==
  ASSUME Known, Unique, RepairDuplicate
  PROVE  Unique'
<1>1. Live' \subseteq Live /\ Kept /\ header' = header
  BY RepairDuplicateLive
<1>2. pc = "repair" /\ UNCHANGED <<pc, ret, mPageList, loadIndex>> /\ InUse' = InUse /\ Running
  BY DEF RepairDuplicate, managerVars, localVars, InUse, Running
<1>3. ASSUME NEW v \in Live', NEW w \in Live', Twice(v, w), Fresh(v, w)
      PROVE  Unsettled(v, w)'
  BY <1>2, <1>3 DEF Fresh, Unsettled, Early
<1>4. \A v, w \in Live' : Twice(v, w) /\ Fresh(v, w) => Fresh(v, w)'
  BY <1>1, <1>3, FreshStays
<1> QED
  BY <1>1, <1>4, FewerUnique

\* load() erases the old version of the last item, wherever that is.
LEMMA EraseOldVersionUnique ==
  ASSUME Known, ItemsHeld, OneTypePerKey, Unique, EraseOldVersion
  PROVE  Unique'
<1>1. pc = "dup" /\ Running
  BY DEF EraseOldVersion, Running
<1> DEFINE z == <<Back, Max(Scanned(Back))>>
\* A new version is the last item of the last page, and the old one is on another.
<1>2. ASSUME NEW v, NEW w, Twice(v, w), Fresh(v, w)
      PROVE  /\ v[1] = Back /\ w[1] # Back /\ w[1] \in InUse /\ w[1] \in Sector
             /\ Scanned(Back) # {} /\ v = z /\ mState[w[1]] = header[w[1]]
  <2>1. v \in Live /\ w \in Live
    BY <1>2 DEF Twice
  <2>2. v[1] \in Sector /\ w[1] \in Sector /\ v[2] \in Written(v[1]) /\ v = <<v[1], v[2]>>
    BY <2>1, LiveParts
  <2>3. v[1] \in InUse /\ w[1] \in InUse /\ mState[w[1]] = header[w[1]] /\ HasSeq(mState[v[1]])
    BY <1>1, <2>1, LivePages
  <2>4. v[1] = Back
    BY <1>1, <1>2, <2>2, ActiveIsBack DEF Fresh
  <2>5. w[1] # v[1]
    BY <1>1, <1>2, <2>3 DEF Fresh, Unsettled
  <2>6. Scanned(Back) = Written(Back)
    BY <2>2, <2>3, <2>4, ScannedWritten DEF Known
  <2>7. Written(Back) \in SUBSET Nat /\ Written(Back) \subseteq Index /\ IsFiniteSet(Written(Back))
    BY <2>2, <2>4, EntryTypes, DataTypes DEF Known
  <2> DEFINE m == Max(Scanned(Back))
  <2>8. m \in Written(Back) /\ \A y \in Written(Back) : y <= m
    BY <2>2, <2>4, <2>6, <2>7, MaxProperty
  <2> HIDE DEF m
  <2>9. v[2] = m
    <3>1. m <= v[2] /\ v[2] <= m
      BY <1>2, <2>2, <2>4, <2>8 DEF Fresh
    <3>2. m \in Nat /\ v[2] \in Nat
      BY <2>2, <2>4, <2>7, <2>8
    <3> QED
      BY <3>1, <3>2
  <2> QED
    BY <2>2, <2>3, <2>4, <2>5, <2>6, <2>9 DEF m
<1>3. CASE OldVersionPages = {}
  <2>1. Live' = Live /\ Kept /\ header' = header
    BY <1>3, QuietLive DEF EraseOldVersion, pageVars
  <2>2. ASSUME NEW v \in Live', NEW w \in Live', Twice(v, w), Fresh(v, w)
        PROVE  FALSE
    <3>1. /\ v[1] = Back /\ w[1] # Back /\ w[1] \in InUse /\ w[1] \in Sector
          /\ Scanned(Back) # {} /\ v = z /\ mState[w[1]] = header[w[1]]
      BY <1>2, <2>2
    <3>2. PICK n \in DOMAIN mPageList : mPageList[n] = w[1]
      BY <3>1 DEF InUse
    <3>3. n \in 1 .. Len(mPageList) - 1
      <4>1. DOMAIN mPageList = 1 .. Len(mPageList) /\ Len(mPageList) \in Nat
            /\ Back = mPageList[Len(mPageList)]
        BY <3>2, OrderTypes DEF Known
      <4> QED
        BY <3>1, <3>2, <4>1
    <3>4. mState[w[1]] # "FREEING"
      BY <2>2, <3>1 DEF Fresh
    <3>5. LastItem = Data(v) /\ Data(w).key = LastItem.key /\ RightType(LastItem.key, LastItem.type)
      <4>1. LastItem = Data(v)
        BY <3>1 DEF LastItem, Data
      <4>2. <<Data(v).key, Data(v).type>> \in AppItem
        BY <2>2 DEF Twice, ItemsHeld
      <4> QED
        BY <2>2, <4>1, <4>2 DEF Twice, RightType
    <3>6. FindOnPage(w[1], LastItem.key, LastItem.type) # INVALID_ENTRY
      <4>1. \E u \in Live : u[1] = w[1] /\ Data(u).key = LastItem.key
        BY <2>2, <3>5 DEF Twice
      <4>2. Inv /\ EntryInv
        BY DEF Known
      <4> QED
        BY <3>1, <3>5, <4>1, <4>2, FoundEntry
    <3>7. n \in OldVersionPages
      BY <3>1, <3>2, <3>3, <3>4, <3>6 DEF OldVersionPages
    <3> QED
      BY <1>3, <3>7
  <2>3. \A v, w \in Live' : Twice(v, w) /\ Fresh(v, w) => Fresh(v, w)'
    BY <2>2
  <2> QED
    BY <2>1, <2>3, FewerUnique
<1>4. CASE OldVersionPages # {}
  <2> DEFINE x == <<OldVersionPage, FindOnPage(OldVersionPage, LastItem.key, LastItem.type)>>
  <2>1. /\ x \in Live /\ z \in Live /\ x[1] # Back /\ Data(x).key = Data(z).key
        /\ Live' = Live \ {x} /\ Kept /\ header' = header
    BY <1>4, EraseOldVersionLive
  <2> HIDE DEF x, z
  <2>2. ASSUME NEW v \in Live', NEW w \in Live', Twice(v, w), Fresh(v, w)
        PROVE  FALSE
    <3>1. v[1] = Back /\ w[1] # Back /\ v = z
      BY <1>2, <2>2 DEF z
    <3>2. Twice(w, x)
      BY <2>1, <2>2, <3>1 DEF Twice
    <3> QED
      BY <1>1, <2>1, <3>1, <3>2, OneAtBack
  <2>3. \A v, w \in Live' : Twice(v, w) /\ Fresh(v, w) => Fresh(v, w)'
    BY <2>2
  <2> QED
    BY <2>1, <2>3, FewerUnique
<1> QED
  BY <1>3, <1>4

\* The page with the copies is erased.
LEMMA RecoverFreeingUnique ==
  ASSUME Known, Unique, RecoverFreeing
  PROVE  Unique'
<1>1. pc = "recover" /\ Running
  BY DEF RecoverFreeing, Running
<1>2. /\ mState[Back] = "ACTIVE" => Live' = {v \in Live : v[1] # Back}
      /\ mState[Back] # "ACTIVE" => Live' = Live
      /\ Kept /\ SameHeaders /\ Back \in Sector /\ Back \in InUse
  BY RecoverFreeingLive
<1>3. mState[Back] = header[Back]
  BY <1>1, <1>2, ListedPages DEF Known
<1>4. ASSUME NEW v \in Live', NEW w \in Live', Twice(v, w)
      PROVE  FALSE
  <2>1. v[1] = Back \/ w[1] = Back
    BY <1>1, <1>4, OneAtBack
  <2>2. header[v[1]] = "ACTIVE" \/ header[w[1]] = "ACTIVE"
    BY <1>4 DEF Unique, Twice, Copy, Fresh
  <2>3. v[1] \in Sector /\ w[1] \in Sector
    BY <1>4, LiveParts DEF Twice
  <2>4. header[Back] = "ACTIVE"
    BY <1>1, <2>2, <2>3, ActiveIsBack
  <2> QED
    BY <1>2, <1>3, <1>4, <2>1, <2>4
<1>5. Live' \subseteq Live
  BY <1>2
<1> QED
  BY <1>2, <1>4, <1>5, NoPairsUnique

\* When no page is FREEING, no item has two versions once load() has erased the old one.
LEMMA NothingFreeingUnique ==
  ASSUME Known, Unique, NothingFreeing
  PROVE  Unique'
<1>1. pc = "recover" /\ FreeingPages = {} /\ Running
  BY DEF NothingFreeing, Running
<1>2. Live' = Live /\ Kept /\ header' = header
  BY LoadQuietLive
<1>3. \A p \in Sector : header[p] # "FREEING"
  <2> SUFFICES ASSUME NEW p \in Sector, header[p] = "FREEING"
               PROVE  FALSE
    OBVIOUS
  <2>1. p \in InUse /\ mState[p] = "FREEING"
    BY <1>1, ListedPages DEF Known, HasSeq
  <2> QED
    BY <1>1, <2>1 DEF InUse, FreeingPages
<1>4. ASSUME NEW v \in Live', NEW w \in Live', Twice(v, w)
      PROVE  FALSE
  <2>1. Copy(v, w) \/ Copy(w, v)
    BY <1>1, <1>4, CopyPairs
  <2>2. v[1] \in Sector /\ w[1] \in Sector
    BY <1>4, LiveParts DEF Twice
  <2> QED
    BY <1>3, <2>1, <2>2 DEF Copy
<1> QED
  BY <1>2, <1>4, NoPairsUnique

\* The steps of load().
LEMMA LoadUnique ==
  ASSUME Known, ItemsHeld, OneTypePerKey, Unique, Load
  PROVE  Unique'
<1>1. CASE CheckFreePages
  <2>1. Live' = Live /\ Kept /\ header' = header
    BY <1>1, LoadQuietLive
  <2>2. pc = "check" /\ Running
    BY <1>1 DEF CheckFreePages, Running
  <2>3. pc \notin Early /\ ~Moving
    BY <2>2 DEF Early, Moving
  <2>4. \A v, w \in Live' : ~Twice(v, w)
    BY <2>2, <2>3, NoPairs
  <2> QED
    BY <2>1, <2>4, NoPairsUnique
<1> QED
  BY <1>1, LoadQuietUnique, RepairDuplicateUnique, EraseOldVersionUnique, RecoverFreeingUnique,
     NothingFreeingUnique DEF Load

\* The copy is of the one version there was.
LEMMA CopyStateUnique ==
  ASSUME Known, Unique, CopyState
  PROVE  Unique'
<1> DEFINE n == <<Back, mNextFreeEntry[Back]>>
           x == <<erasedPage, readEntryIndex>>
<1>1. /\ x \in Live /\ n \notin Live /\ Live' = Live \cup {n} /\ Kept
      /\ header' = header /\ header[Back] = "ACTIVE" /\ header[erasedPage] = "FREEING"
      /\ \A u \in Live' : u = n => Data(u)' = Data(x)
      /\ \A w \in Live : w[1] = Back =>
           \E y \in Live : y[1] = erasedPage /\ y # x /\ Data(y) = Data(w)
  BY CopyStateLive
<1>2. n[1] = Back /\ x[1] = erasedPage
  OBVIOUS
<1> HIDE DEF n, x
<1>3. Moving /\ pc \notin Loading
  BY DEF CopyState, Moving
<1>4. ASSUME NEW w \in Live, Data(w).key = Data(x).key
      PROVE  w = x
  <2> SUFFICES ASSUME w # x
               PROVE  FALSE
    OBVIOUS
  <2>1. Twice(x, w)
    BY <1>1, <1>4 DEF Twice
  <2>2. header[w[1]] = "ACTIVE" /\ w[1] \in Sector
    BY <1>1, <1>2, <1>3, <2>1, CopyPairs, LiveParts DEF Copy, Twice
  <2>3. w[1] = Back
    BY <1>3, <2>2, ActiveIsBack
  <2>4. PICK y \in Live : y[1] = erasedPage /\ y # x /\ Data(y) = Data(w)
    BY <1>1, <2>3
  <2>5. Twice(x, y)
    BY <1>1, <1>4, <2>4 DEF Twice
  <2> QED
    BY <1>1, <1>2, <1>3, <2>4, <2>5, CopyPairs DEF Copy
<1>5. SUFFICES ASSUME NEW v \in Live', NEW w \in Live', v # w, Data(v)'.key = Data(w)'.key
               PROVE  (Copy(v, w) \/ Copy(w, v))'
  BY DEF Unique
<1>6. \A u \in Live : Data(u)' = Data(u)
  BY <1>1 DEF Kept
<1>7. CASE v \in Live /\ w \in Live
  <2>1. Twice(v, w)
    BY <1>5, <1>6, <1>7 DEF Twice
  <2> QED
    BY <1>1, <1>3, <2>1, CopyPairs DEF Copy
<1>8. CASE v = n /\ w \in Live
  <2>1. w = x
    BY <1>1, <1>4, <1>5, <1>6, <1>8
  <2> QED
    BY <1>1, <1>2, <1>8, <2>1 DEF Copy
<1>9. CASE w = n /\ v \in Live
  <2>1. v = x
    BY <1>1, <1>4, <1>5, <1>6, <1>9
  <2> QED
    BY <1>1, <1>2, <1>9, <2>1 DEF Copy
<1> QED
  BY <1>1, <1>5, <1>7, <1>8, <1>9

\* The steps of requestNewPage().
LEMMA MoveUnique ==
  ASSUME Known, Unique, Move
  PROVE  Unique'
<1>1. CASE RequestNewPage \/ EraseCorrupt \/ ActivatePage \/ ActivateNothing \/ StartCopy \/ CopyData
  <2>1. Live' = Live /\ Kept /\ SameHeaders
    BY <1>1, MoveQuietLive
  <2>2. CASE Moving
    BY <2>1, <2>2, FewerCopies DEF SameHeaders
  <2>3. CASE ~Moving
    <3>1. Running /\ pc \notin Early /\ pc # "erase"
      BY <1>1 DEF RequestNewPage, EraseCorrupt, ActivatePage, ActivateNothing, StartCopy, CopyData,
         Running, Early
    <3>2. \A v, w \in Live' : ~Twice(v, w)
      BY <2>3, <3>1, NoPairs
    <3> QED
      BY <2>1, <3>2, NoPairsUnique
  <2> QED
    BY <2>2, <2>3
<1>2. CASE MarkFreeing
  <2>1. pc = "freeing"
    BY <1>2 DEF MarkFreeing
  <2>2. Live' = Live /\ Kept
    <3>1. CASE mState[erasedPage] \in {"FULL", "ACTIVE"}
      <4>1. AlterPageState(erasedPage, "FREEING") /\ erasedPage \in Sector
        BY <1>2, <2>1, <3>1, OrderTypes DEF MarkFreeing, Known, Inv, ControlInv, MoveInv
      <4> QED
        BY <3>1, <4>1, AlterPageStateLive
    <3>2. CASE mState[erasedPage] \notin {"FULL", "ACTIVE"}
      BY <1>2, <3>2, QuietLive DEF MarkFreeing, pageVars
    <3> QED
      BY <3>1, <3>2
  <2>3. Running /\ pc \notin Early /\ pc # "erase" /\ ~Moving
    BY <2>1 DEF Running, Early, Moving
  <2>4. \A v, w \in Live' : ~Twice(v, w)
    BY <2>3, NoPairs
  <2> QED
    BY <2>2, <2>4, NoPairsUnique
<1>3. CASE CopyInit
  <2>1. pc = "copyInit" /\ Initialize(Back) /\ Back \in Sector /\ Moving
    BY <1>3, TwoPages DEF CopyInit, Known, Moving
  <2>2. Live' = Live /\ Kept /\ SameHeaders
    BY <2>1, InitializeLive
  <2> QED
    BY <2>1, <2>2, FewerCopies DEF SameHeaders
<1>4. CASE FreePage
  <2>1. /\ Live' = {v \in Live : v[1] # erasedPage} /\ Kept /\ Moving
        /\ erasedPage \in Sector /\ header[erasedPage] = "FREEING"
    BY <1>4, FreePageLive
  <2>2. ASSUME NEW v \in Live', NEW w \in Live', Twice(v, w)
        PROVE  FALSE
    <3>1. Copy(v, w) \/ Copy(w, v)
      BY <2>1, <2>2, CopyPairs
    <3>2. v[1] \in Sector /\ w[1] \in Sector /\ v[1] # erasedPage /\ w[1] # erasedPage
      BY <2>1, <2>2, LiveParts DEF Twice
    <3> QED
      BY <2>1, <3>1, <3>2 DEF Copy, Known, FreeingInv, OneFreeing
  <2>3. Live' \subseteq Live
    BY <2>1
  <2> QED
    BY <2>1, <2>2, <2>3, NoPairsUnique
<1> QED
  BY <1>1, <1>2, <1>3, <1>4, CopyStateUnique DEF Move

\* There is one new version at a time.
LEMMA OneFresh ==
  ASSUME Known, pc \notin Loading, NEW v \in Live, NEW w \in Live, NEW x, NEW y, Fresh(v, x), Fresh(w, y)
  PROVE  v = w
<1>1. /\ v[1] \in Sector /\ w[1] \in Sector /\ v = <<v[1], v[2]>> /\ w = <<w[1], w[2]>>
      /\ v[2] \in Written(v[1]) /\ w[2] \in Written(w[1]) /\ v[2] \in Nat /\ w[2] \in Nat
  BY LiveParts, EntryNat
<1>2. v[1] = Back /\ w[1] = Back
  BY <1>1, ActiveIsBack DEF Fresh
<1>3. v[2] <= w[2] /\ w[2] <= v[2]
  BY <1>1, <1>2 DEF Fresh
<1> QED
  BY <1>1, <1>2, <1>3

\* What was found is still there to be erased.
LEMMA EraseFoundErases ==
  ASSUME Known, ItemsHeld, FoundKept, OneTypePerKey, EraseFound
  PROVE  LET p == OldVersionOn
             x == <<p, FindOnPage(p, op.key, op.type)>>
         IN  /\ x \in Live /\ p \in Sector /\ Data(x).key = op.key /\ mState[p] = header[p]
             /\ op.type \in {ANY, Data(x).type}
             /\ Live' = Live \ {x} /\ Kept /\ header' = header /\ pc' = "return" /\ ret' = "OK"
<1> DEFINE p == OldVersionOn
           x == <<p, FindOnPage(p, op.key, op.type)>>
<1>1. pc = "erase" /\ op.name \in {"set", "erase"} /\ findPage # NoPage /\ Searching /\ Running
  BY DEF EraseFound, Known, Inv, ControlInv, RequestInv, Searching, Running
<1>2. PICK w \in Live : Old(w) /\ (w[1] = findPage \/ Freed(findPage))
  BY <1>1 DEF FoundKept
<1>3. Data(w).key = op.key /\ RightType(op.key, op.type)
  BY <1>1, <1>2, RequestTypes DEF Old, Known
<1>4. p # NoPage /\ FindOnPage(p, op.key, op.type) # INVALID_ENTRY
  <2>1. CASE mState[findPage] \in {"UNINITIALIZED", "INVALID"}
    <3>1. p = FindPage(op.key, op.type)
      BY <2>1 DEF OldVersionOn
    <3> HIDE DEF p
    <3> QED
      BY <1>1, <1>3, <3>1, FoundPage
  <2>2. CASE ~ (mState[findPage] \in {"UNINITIALIZED", "INVALID"})
    <3>1. p = findPage /\ w[1] = findPage
      BY <1>2, <2>2 DEF OldVersionOn, Freed
    <3> HIDE DEF p
    <3>2. w[1] \in Sector /\ mState[w[1]] = header[w[1]]
      BY <1>1, <1>2, LivePages, LiveParts
    <3> QED
      BY <1>1, <1>3, <3>1, <3>2, FoundEntry DEF Known
  <2> QED
    BY <2>1, <2>2
<1> QED
  BY <1>4, EraseFoundLive

\* The version just written is the only new one.
LEMMA WriteStateUnique ==
  ASSUME Known, Pending, NoneFound, Unique, WriteState
  PROVE  Unique'
<1> DEFINE n == <<Back, mNextFreeEntry[Back]>>
<1>1. /\ n \notin Live /\ Live' = Live \cup {n} /\ Kept /\ header' = header
      /\ n \in Sector \X Index /\ header[Back] = "ACTIVE"
      /\ \A u \in Live' : u = n =>
           Data(u)' = [key |-> op.key, type |-> op.type, val |-> op.val]
      /\ \A i \in Index : entryTable'[Back][i] = "WRITTEN" => i <= n[2]
  BY WriteStateLive
<1>2. n[1] = Back
  OBVIOUS
<1> HIDE DEF n
<1>3. pc = "state" /\ Searching /\ Running /\ pc \notin Early /\ ~Moving /\ op' = op
      /\ op.name = "set" /\ (findPage # NoPage => pc' = "erase")
  BY DEF WriteState, Searching, Running, Early, Moving, requestVars, Known, Inv, ControlInv, RequestInv
<1>4. \A u \in Live : Data(u)' = Data(u)
  BY <1>1 DEF Kept
<1>5. ASSUME NEW u \in Live', u = n, NEW w \in Live, Data(w).key = op.key
      PROVE  Fresh(u, w)'
  <2>1. pc' = "erase"
    BY <1>3, <1>5 DEF NoneFound
  <2>2. Data(u)'.key = op'.key
    BY <1>1, <1>3, <1>5
  <2>3. \A p \in Sector : header'[p] # "FREEING"
    BY <1>1, <1>3, NoneFreeing
  <2>4. header'[u[1]] = "ACTIVE" /\ \A i \in Index : entryTable'[u[1]][i] = "WRITTEN" => i <= u[2]
    BY <1>1, <1>2, <1>5
  <2>5. \A i \in Written(u[1])' : i <= u[2]
    BY <2>4 DEF Written
  <2> QED
    BY <1>3, <2>1, <2>2, <2>3, <2>4, <2>5 DEF Fresh, Unsettled
<1>6. SUFFICES ASSUME NEW v \in Live', NEW w \in Live', v # w, Data(v)'.key = Data(w)'.key
               PROVE  (Fresh(v, w) \/ Fresh(w, v))'
  BY DEF Unique
<1>7. CASE v \in Live /\ w \in Live
  <2>1. Twice(v, w)
    BY <1>4, <1>6, <1>7 DEF Twice
  <2> QED
    BY <1>3, <2>1, NoPairs
<1>8. CASE v = n /\ w \in Live
  <2>1. Data(w).key = op.key
    BY <1>1, <1>4, <1>6, <1>8
  <2> QED
    BY <1>5, <1>8, <2>1
<1>9. CASE w = n /\ v \in Live
  <2>1. Data(v).key = op.key
    BY <1>1, <1>4, <1>6, <1>9
  <2> QED
    BY <1>5, <1>9, <2>1
<1> QED
  BY <1>1, <1>6, <1>7, <1>8, <1>9

\* Only the older of two versions, or the newer, is left.
LEMMA EraseFoundUnique ==
  ASSUME Known, ItemsHeld, FoundKept, OneTypePerKey, Unique, EraseFound
  PROVE  Unique'
<1> DEFINE x == <<OldVersionOn, FindOnPage(OldVersionOn, op.key, op.type)>>
<1>1. x \in Live /\ Data(x).key = op.key /\ Live' = Live \ {x} /\ Kept
  BY EraseFoundErases
<1> HIDE DEF x
<1>2. pc = "erase" /\ Running /\ pc \notin Early /\ pc \notin Loading /\ ~Moving
  BY DEF EraseFound, Running, Early, Moving
<1>3. ASSUME NEW v \in Live', NEW w \in Live', Twice(v, w), op.name = "set"
      PROVE  FALSE
  <2>1. \A a, b : Twice(a, b) => Fresh(a, b) \/ Fresh(b, a)
    <3>1. \A p \in Sector : header[p] # "FREEING"
      BY <1>2, NoneFreeing
    <3> QED
      BY <3>1, LiveParts DEF Unique, Twice, Copy
  <2>2. \A a, b : Twice(a, b) => Data(a).key = op.key
    BY <1>2, <2>1 DEF Fresh, Unsettled, Twice
  <2>3. Twice(v, x) /\ Twice(w, x) /\ v \in Live /\ w \in Live /\ v # w
    BY <1>1, <1>3, <2>2 DEF Twice
  <2>4. Fresh(v, w) \/ Fresh(w, v)
    BY <1>3, <2>1
  <2>5. Fresh(v, x) \/ Fresh(x, v)
    BY <2>1, <2>3
  <2>6. Fresh(w, x) \/ Fresh(x, w)
    BY <2>1, <2>3
  <2>7. v # x /\ w # x
    BY <2>3 DEF Twice
  <2> QED
    BY <1>1, <1>2, <2>3, <2>4, <2>5, <2>6, <2>7, OneFresh
<1>4. ASSUME NEW v \in Live', NEW w \in Live', Twice(v, w)
      PROVE  FALSE
  BY <1>2, <1>3, <1>4, NoPairs
<1>5. Live' \subseteq Live
  BY <1>1
<1> QED
  BY <1>1, <1>4, <1>5, NoPairsUnique

\* The steps of a request.
LEMMA ServeUnique ==
  ASSUME ~ContinueAfterFailure, Known, StoreInv, OneTypePerKey, Serve \/ Begin
  PROVE  Unique'
<1> USE DEF StoreInv
<1>1. CASE EraseFound \/ WriteState
  BY <1>1, EraseFoundUnique, WriteStateUnique
\* Steps with no two versions before.
<1>2. ASSUME Live' \subseteq Live, Kept, Running, pc \notin Early, pc # "erase", ~Moving
      PROVE  Unique'
  BY <1>2, NoPairs, NoPairsUnique
<1>3. CASE Return /\ ~Running
  <2>1. Live' = Live /\ Kept /\ header' = header
    BY <1>3, ServeQuietLive
  <2>2. ~Running'
    BY <1>3 DEF Return, Running
  <2>3. \A v, w : Unsettled(v, w)'
    BY <2>2 DEF Unsettled
  <2>4. \A v, w \in Live' : Twice(v, w) /\ Fresh(v, w) => Fresh(v, w)'
    BY <2>1, <2>3, FreshStays
  <2> QED
    BY <2>1, <2>4, FewerUnique
<1>4. CASE (Return /\ Running) \/ Begin \/ FindForSet \/ FindForErase \/ TryWrite \/ WriteData
  <2>1. Live' = Live /\ Kept
    BY <1>4, ServeQuietLive
  <2>2. Running /\ pc \notin Early /\ pc # "erase" /\ ~Moving
    BY <1>4 DEF Return, Begin, FindForSet, FindForErase, TryWrite, WriteData, Running, Early, Moving
  <2> QED
    BY <1>2, <2>1, <2>2
<1>5. CASE InitPage \/ MarkFull
  <2>1. pc \in {"init", "markFull"} /\ Back \in Sector
    BY <1>5, OrderTypes DEF InitPage, MarkFull, Known, Inv, ControlInv, MoveInv
  <2>2. Live' = Live /\ Kept
    <3>1. CASE InitPage
      BY <3>1, <2>1, InitializeLive DEF InitPage
    <3>2. CASE MarkFull /\ mState[Back] = "ACTIVE"
      BY <3>2, <2>1, AlterPageStateLive DEF MarkFull
    <3>3. CASE MarkFull /\ mState[Back] # "ACTIVE"
      BY <3>3, QuietLive DEF MarkFull, pageVars
    <3> QED
      BY <1>5, <3>1, <3>2, <3>3
  <2>3. Running /\ pc \notin Early /\ pc # "erase" /\ ~Moving
    BY <2>1 DEF Running, Early, Moving
  <2> QED
    BY <1>2, <2>2, <2>3
<1>6. CASE EraseOfNamespace
  <2>1. Live' \subseteq Live /\ Kept
    <3>1. CASE ClearPages(op.ns) = {}
      BY <1>6, <3>1, QuietLive, EraseOfNamespaceLive DEF pageVars
    <3>2. CASE ClearPages(op.ns) # {}
      BY <1>6, <3>2, EraseOfNamespaceLive
    <3> QED
      BY <3>1, <3>2
  <2>2. Running /\ pc \notin Early /\ pc # "erase" /\ ~Moving
    BY <1>6 DEF EraseOfNamespace, Running, Early, Moving
  <2> QED
    BY <1>2, <2>1, <2>2
<1> QED
  BY <1>1, <1>3, <1>4, <1>5, <1>6 DEF Serve

\* What a power failure or an error leaves is looked at again by load().
LEMMA CutOffUnique ==
  ASSUME ~FaultsWhileLoading, Known, Unique, Crash \/ Reinitialize \/ FlashError
  PROVE  Unique'
<1>1. UNCHANGED flashVars \/ HalfDone
  BY DEF Crash, Reinitialize, FlashError
<1>2. /\ Live' \subseteq Live /\ Kept /\ SameHeaders
      /\ \A q \in Sector : header'[q] = "FREEING" => header[q] = "FREEING"
  BY <1>1, HalfDoneLive
<1>3. \A v, w : Unsettled(v, w)'
  <2>1. CASE FlashError
    <3>1. pc' = "return" /\ ret' \in Failure
      BY <2>1, FlashErrorAnswer DEF Known
    <3> QED
      BY <3>1 DEF Unsettled, Running
  <2>2. CASE Crash \/ Reinitialize
    <3>1. pc' = "load" /\ mPageList' = <<>>
      BY <2>2 DEF Crash, Reinitialize, StartLoading
    <3>2. InUse' = {}
      BY <3>1 DEF InUse
    <3> QED
      BY <3>1, <3>2 DEF Unsettled, Early
  <2> QED
    BY <2>1, <2>2
<1>4. \A v, w \in Live' : Twice(v, w) /\ Fresh(v, w) => Fresh(v, w)'
  BY <1>2, <1>3, FreshStays DEF SameHeaders
<1> QED
  BY <1>2, <1>4, FewerUnique DEF SameHeaders

-----------------------------------------------------------------------------
(* What is on flash are items, and what is about to be written is the one  *)
(* asked for.                                                              *)

\* Two steps add a version.
LEMMA FewerLive ==
  ASSUME ~FaultsWhileLoading, Known, [Next]_vars, ~CopyState, ~WriteState
  PROVE  Live' \subseteq Live /\ Kept
<1>1. CASE Manage /\ Load
  <2>1. CASE RepairDuplicate
    BY <2>1, RepairDuplicateLive
  <2>2. CASE EraseOldVersion
    <3>1. CASE OldVersionPages = {}
      BY <2>2, <3>1, QuietLive DEF EraseOldVersion, pageVars
    <3>2. CASE OldVersionPages # {}
      BY <2>2, <3>2, EraseOldVersionLive
    <3> QED
      BY <3>1, <3>2
  <2>3. CASE RecoverFreeing
    BY <2>3, RecoverFreeingLive
  <2> QED
    BY <1>1, <2>1, <2>2, <2>3, LoadQuietLive DEF Load
<1>2. CASE Manage /\ Move
  <2>1. CASE MarkFreeing
    <3>1. CASE mState[erasedPage] \in {"FULL", "ACTIVE"}
      <4>1. AlterPageState(erasedPage, "FREEING") /\ erasedPage \in Sector
        BY <2>1, <3>1, OrderTypes DEF MarkFreeing, Known, Inv, ControlInv, MoveInv
      <4> QED
        BY <3>1, <4>1, AlterPageStateLive
    <3>2. CASE mState[erasedPage] \notin {"FULL", "ACTIVE"}
      BY <2>1, <3>2, QuietLive DEF MarkFreeing, pageVars
    <3> QED
      BY <3>1, <3>2
  <2>2. CASE CopyInit
    <3>1. pc = "copyInit" /\ Initialize(Back) /\ Back \in Sector
      BY <2>2, TwoPages DEF CopyInit, Known
    <3> QED
      BY <3>1, InitializeLive
  <2>3. CASE FreePage
    BY <2>3, FreePageLive
  <2> QED
    BY <1>2, <2>1, <2>2, <2>3, MoveQuietLive DEF Move
<1>3. CASE Serve \/ Begin
  <2>1. CASE InitPage \/ MarkFull
    <3>1. pc \in {"init", "markFull"} /\ Back \in Sector
      BY <2>1, OrderTypes DEF InitPage, MarkFull, Known, Inv, ControlInv, MoveInv
    <3>2. CASE InitPage
      BY <3>1, <3>2, InitializeLive DEF InitPage
    <3>3. CASE MarkFull /\ mState[Back] = "ACTIVE"
      BY <3>1, <3>3, AlterPageStateLive DEF MarkFull
    <3>4. CASE MarkFull /\ mState[Back] # "ACTIVE"
      BY <3>4, QuietLive DEF MarkFull, pageVars
    <3> QED
      BY <2>1, <3>2, <3>3, <3>4
  <2>2. CASE EraseFound
    <3>1. CASE UNCHANGED pageVars
      BY <3>1, QuietLive DEF pageVars
    <3>2. CASE ~ UNCHANGED pageVars
      BY <2>2, <3>2, EraseFoundLive
    <3> QED
      BY <3>1, <3>2
  <2>3. CASE EraseOfNamespace
    <3>1. CASE ClearPages(op.ns) = {}
      BY <2>3, <3>1, QuietLive, EraseOfNamespaceLive DEF pageVars
    <3>2. CASE ClearPages(op.ns) # {}
      BY <2>3, <3>2, EraseOfNamespaceLive
    <3> QED
      BY <3>1, <3>2
  <2> QED
    BY <1>3, <2>1, <2>2, <2>3, ServeQuietLive DEF Serve
<1>4. CASE Crash \/ Reinitialize \/ FlashError
  <2>1. UNCHANGED flashVars \/ HalfDone
    BY <1>4 DEF Crash, Reinitialize, FlashError
  <2> QED
    BY <2>1, HalfDoneLive
<1>5. CASE UNCHANGED vars
  BY <1>5, QuietLive DEF vars, pageVars
<1> QED
  BY <1>1, <1>2, <1>3, <1>4, <1>5 DEF Next, Manage

\* Only items of the application are written.
LEMMA NextItemsHeld ==
  ASSUME ~FaultsWhileLoading, Known, Pending, ItemsHeld, [Next]_vars
  PROVE  ItemsHeld'
<1>1. CASE Live' \subseteq Live /\ Kept
  BY <1>1 DEF ItemsHeld, Kept
<1>2. CASE CopyState
  <2> DEFINE n == <<Back, mNextFreeEntry[Back]>>
             x == <<erasedPage, readEntryIndex>>
  <2>1. /\ x \in Live /\ Live' = Live \cup {n} /\ Kept
        /\ \A u \in Live' : u = n => Data(u)' = Data(x)
    BY <1>2, CopyStateLive
  <2> HIDE DEF n, x
  <2>2. \A u \in Live' : \E y \in Live : Data(u)' = Data(y)
    BY <2>1 DEF Kept
  <2> QED
    BY <2>2 DEF ItemsHeld
<1>3. CASE WriteState
  <2> DEFINE n == <<Back, mNextFreeEntry[Back]>>
             r == [key |-> op.key, type |-> op.type, val |-> op.val]
  <2>1. Live' = Live \cup {n} /\ Kept /\ \A u \in Live' : u = n => Data(u)' = r
    BY <1>3, WriteStateLive
  <2>2. op.name = "set"
    BY <1>3 DEF WriteState, Known, Inv, ControlInv, RequestInv
  <2>3. op.key \in Key /\ <<op.key, op.type>> \in AppItem /\ op.val \in Value
    BY <2>2, RequestTypes DEF Known
  <2>4. r \in Item /\ r.key = op.key /\ r.type = op.type
    BY <2>3, AppItemAssumption DEF Item
  <2> HIDE DEF n, r
  <2>5. \A u \in Live' : Data(u)' = r \/ \E y \in Live : Data(u)' = Data(y)
    BY <2>1 DEF Kept
  <2> QED
    BY <2>3, <2>4, <2>5 DEF ItemsHeld
<1> QED
  BY <1>1, <1>2, <1>3, FewerLive

\* What is written is the item of the request, on an ACTIVE page.
LEMMA NextPending ==
  ASSUME ~FaultsWhileLoading, Known, Pending, [Next]_vars
  PROVE  Pending'
<1> USE DEF requestVars
<1>1. CASE TryWrite
  <2>1. pc' # "state" /\ UNCHANGED <<mState, mPageList>>
    BY <1>1 DEF TryWrite, Respond, pageVars, managerVars
  <2>2. SUFFICES ASSUME pc' = "data"
                 PROVE  mState[Back] = "ACTIVE"
    BY <2>1 DEF Pending, Back
  <2>3. pc \in {"write", "rewrite"} /\ mState[Back] \notin {"INVALID", "UNINITIALIZED", "FULL"}
    BY <1>1, <2>2 DEF TryWrite, Respond
  <2>4. Back \in InUse /\ Back \in Sector
    BY <2>3, OrderTypes DEF Known, Inv, ControlInv, MoveInv
  <2>5. Running /\ pc \notin Early /\ ~Moving
    BY <2>3 DEF Running, Early, Moving
  <2>6. mState[Back] = header[Back] /\ header[Back] # "FREEING"
    BY <2>4, <2>5, NoneFreeing, ListedPages DEF Known
  <2>7. mState[Back] # "CORRUPT"
    BY <2>4 DEF Known, EntryInv, Writable
  <2> QED
    BY <2>3, <2>4, <2>6, <2>7, DataTypes DEF HeaderState, Known
<1>2. CASE InitPage
  <2>1. Back \in Sector
    BY <1>2, OrderTypes DEF InitPage, Known, Inv, ControlInv, MoveInv
  <2>2. mState'[Back] = "ACTIVE" /\ Back' = Back /\ pc' = "data"
    BY <1>2, <2>1, OrderTypes DEF InitPage, Initialize, Back, managerVars, Known
  <2> QED
    BY <2>2 DEF Pending
<1>3. CASE WriteData
  <2>1. Back \in Sector /\ HasSeq(mState[Back]) /\ ~NoRoom(Back)
    BY <1>3, OrderTypes DEF WriteData, Known, Inv, ControlInv, MoveInv, RoomInv, EntryInv, Writable
  <2>2. entryData'[Back][mNextFreeEntry[Back]] = [key |-> op.key, type |-> op.type, val |-> op.val]
    BY <1>3, <2>1, WriteEntryDataLive DEF WriteData, Known
  <2>3. UNCHANGED <<mState, mNextFreeEntry, mPageList, op>> /\ pc = "data"
    BY <1>3 DEF WriteData, WriteEntryData, objectVars, managerVars
  <2> QED
    BY <2>2, <2>3 DEF Pending, Back
<1>4. CASE UNCHANGED vars
  BY <1>4 DEF vars, pageVars, managerVars, Pending, Back
<1>5. CASE pc' \notin {"data", "state"}
  BY <1>5 DEF Pending
<1> QED
  BY <1>1, <1>2, <1>3, <1>4, <1>5, FlashErrorAnswer
     DEF Next, Manage, Load, Move, Begin, Serve, Crash, Reinitialize, StartLoading, Respond, Fail, Known,
         LoadSector, RepairHalfWritten, RepairDuplicate, RepairDone, RecoverFreeing, NothingFreeing,
         CheckFreePages, InsertPage, EraseOldVersion, Settle, RequestNewPage, EraseCorrupt, ActivatePage,
         ActivateNothing, MarkFreeing, StartCopy, CopyInit, CopyData, CopyState, FreePage, FindForSet,
         FindForErase, WriteState, MarkFull, EraseFound, EraseOfNamespace, Return

-----------------------------------------------------------------------------
(* What findItem() found stays to be erased, wherever the page is moved.   *)

\* Between findItem() and the erasing.
LEMMA StillSearching ==
  ASSUME ~FaultsWhileLoading, Known, [Next]_vars, Searching', ~FindForSet, ~FindForErase
  PROVE  /\ Searching /\ op' = op /\ findPage' = findPage
         /\ pc = "erase" => UNCHANGED vars
         /\ pc' = "erase" => WriteState \/ UNCHANGED vars
<1> USE DEF requestVars, Searching
<1>1. CASE UNCHANGED vars
  BY <1>1 DEF vars
<1>2. CASE Manage /\ Load
  <2>1. Booting /\ Booting'
    BY <1>2 DEF Load, LoadSector, RepairHalfWritten, RepairDuplicate, RepairDone, RecoverFreeing,
       NothingFreeing, CheckFreePages, InsertPage, EraseOldVersion, Settle, Known, Inv, ControlInv, PhaseInv
  <2> QED
    BY <1>2, <2>1 DEF Load, LoadSector, RepairHalfWritten, RepairDuplicate, RepairDone, RecoverFreeing,
       NothingFreeing, CheckFreePages, InsertPage, EraseOldVersion, Settle
<1>3. CASE Manage /\ Move
  <2>1. op' = op /\ findPage' = findPage
    BY <1>3 DEF Manage
  <2> QED
    BY <1>3, <2>1 DEF Move, RequestNewPage, EraseCorrupt, ActivatePage,
         ActivateNothing, MarkFreeing, StartCopy, CopyInit, CopyData, CopyState, FreePage, Respond, Fail
<1>4. CASE FlashError
  BY <1>4, FlashErrorAnswer DEF Known
<1> QED
  BY <1>1, <1>2, <1>3, <1>4
     DEF Next, Manage, Begin, Serve, Crash, Reinitialize, StartLoading, Respond,
         TryWrite, InitPage, WriteData, WriteState, MarkFull, EraseFound, EraseOfNamespace, Return

\* findItem() finds a version if there is one.
LEMMA FindItem ==
  ASSUME Known, ItemsHeld, OneTypePerKey, FindForSet \/ FindForErase
  PROVE  /\ findPage' = NoPage => \A w \in Live' : Data(w)'.key # op'.key
         /\ findPage' # NoPage => \E w \in Live' : Data(w)'.key = op'.key /\ w[1] = findPage'
         /\ op' = op /\ (pc' = "erase" => op.name = "erase")
<1>1. pc = "find" /\ Running /\ op.name \in {"set", "erase"} /\ op' = op
      /\ findPage' = FindPage(op.key, op.type) /\ (pc' = "erase" => op.name = "erase")
  BY DEF FindForSet, FindForErase, Running, Respond
<1>2. Live' = Live /\ Kept
  BY ServeQuietLive
<1>3. RightType(op.key, op.type)
  BY <1>1, RequestTypes DEF Known
<1> DEFINE p == FindPage(op.key, op.type)
<1>4. /\ p = NoPage => \A w \in Live : Data(w).key # op.key
      /\ p # NoPage => /\ p \in InUse /\ p \in Sector /\ mState[p] = header[p]
                       /\ FindOnPage(p, op.key, op.type) # INVALID_ENTRY
  BY <1>1, <1>3, FoundPage
<1> HIDE DEF p
<1>5. ASSUME p # NoPage
      PROVE  \E w \in Live : Data(w).key = op.key /\ w[1] = p
  <2> DEFINE w == <<p, FindOnPage(p, op.key, op.type)>>
  <2>1. w \in Live /\ Data(w).key = op.key
    BY <1>4, <1>5, FoundEntry DEF Known
  <2> QED
    BY <2>1
<1>6. findPage' = p
  BY <1>1 DEF p
<1> QED
  BY <1>1, <1>2, <1>4, <1>5, <1>6 DEF Kept

\* That findItem() found no version stays true until the item is written.
LEMMA NextNoneFound ==
  ASSUME ~FaultsWhileLoading, Known, ItemsHeld, OneTypePerKey, NoneFound, [Next]_vars
  PROVE  NoneFound'
<1> SUFFICES ASSUME Searching', pc' # "erase", findPage' = NoPage, NEW v \in Live'
             PROVE  Data(v)'.key # op'.key
  BY DEF NoneFound
<1>1. CASE FindForSet \/ FindForErase
  BY <1>1, FindItem
<1>2. CASE ~ (FindForSet \/ FindForErase)
  <2>1. Searching /\ op' = op /\ findPage = NoPage /\ pc # "erase"
    BY <1>2, StillSearching DEF vars
  <2>2. \A w \in Live : Data(w).key # op.key
    BY <2>1 DEF NoneFound
  <2>3. CASE Live' \subseteq Live /\ Kept
    BY <2>1, <2>2, <2>3 DEF Kept
  <2>4. CASE CopyState
    <3> DEFINE n == <<Back, mNextFreeEntry[Back]>>
               x == <<erasedPage, readEntryIndex>>
    <3>1. /\ x \in Live /\ Live' = Live \cup {n} /\ Kept
          /\ \A u \in Live' : u = n => Data(u)' = Data(x)
      BY <2>4, CopyStateLive
    <3> HIDE DEF n, x
    <3>2. \E y \in Live : Data(v)' = Data(y)
      BY <3>1 DEF Kept
    <3> QED
      BY <2>1, <2>2, <3>2
  <2>5. CASE WriteState
    BY <2>1, <2>5 DEF WriteState, Respond, Searching
  <2> QED
    BY <2>3, <2>4, <2>5, FewerLive
<1> QED
  BY <1>1, <1>2

\* Steps that leave the version that was found where it is.
LEMMA KeepFound ==
  ASSUME FoundKept, Searching' => Searching /\ op' = op /\ findPage' = findPage /\ pc' # "erase",
         Live \subseteq Live', Kept, Freed(findPage) => Freed(findPage)'
  PROVE  FoundKept'
<1> SUFFICES ASSUME Searching', findPage' # NoPage
             PROVE  \E w \in Live' : Old(w)' /\ (w[1] = findPage' \/ Freed(findPage)')
  BY DEF FoundKept
<1>1. Searching /\ op' = op /\ findPage' = findPage /\ pc' # "erase"
  OBVIOUS
<1>2. PICK w \in Live : Old(w) /\ (w[1] = findPage \/ Freed(findPage))
  BY <1>1 DEF FoundKept
<1>3. w \in Live' /\ Data(w)'.key = op'.key
  BY <1>1, <1>2 DEF Old, Kept
<1>4. Old(w)'
  BY <1>1, <1>3 DEF Old
<1> QED
  BY <1>1, <1>2, <1>3, <1>4

\* The new version is written: the one that was found is the old one now.
LEMMA WriteStateFound ==
  ASSUME Known, Pending, NoneFound, Unique, FoundKept, WriteState
  PROVE  FoundKept'
<1> SUFFICES ASSUME Searching', findPage' # NoPage
             PROVE  \E w \in Live' : Old(w)' /\ (w[1] = findPage' \/ Freed(findPage)')
  BY DEF FoundKept
<1>1. /\ pc = "state" /\ op.name = "set" /\ Searching /\ op' = op /\ findPage' = findPage
      /\ pc' = "erase" /\ UNCHANGED <<mFreePageList, mState>>
  BY DEF WriteState, Respond, Searching, requestVars, Known, Inv, ControlInv, RequestInv,
     WriteEntryState, managerVars
<1>2. PICK w \in Live : Old(w) /\ (w[1] = findPage \/ Freed(findPage))
  BY <1>1 DEF FoundKept
<1>3. Freed(findPage) => Freed(findPage)'
  BY <1>1 DEF Freed, Free
<1> DEFINE n == <<Back, mNextFreeEntry[Back]>>
<1>4. /\ n \notin Live /\ Live' = Live \cup {n} /\ Kept /\ header' = header
      /\ n \in Sector \X Index /\ header[Back] = "ACTIVE"
      /\ \A u \in Live' : u = n =>
           Data(u)' = [key |-> op.key, type |-> op.type, val |-> op.val]
      /\ \A i \in Index : entryTable'[Back][i] = "WRITTEN" => i <= n[2]
  BY WriteStateLive
<1>5. n[1] = Back
  OBVIOUS
<1> HIDE DEF n
<1>6. w \in Live' /\ Data(w)'.key = op'.key
  BY <1>1, <1>2, <1>4 DEF Old, Kept
<1>7. ASSUME NEW u \in Live', u = n
      PROVE  Fresh(u, w)' /\ u # w /\ Data(u)'.key = op'.key
  <2>1. Data(u)'.key = op'.key
    BY <1>1, <1>4, <1>7
  <2>2. \A p \in Sector : header'[p] # "FREEING"
    BY <1>1, <1>4, NoneFreeing DEF Running, Early, Moving
  <2>3. header'[u[1]] = "ACTIVE" /\ \A i \in Index : entryTable'[u[1]][i] = "WRITTEN" => i <= u[2]
    BY <1>4, <1>5, <1>7
  <2>4. \A i \in Written(u[1])' : i <= u[2]
    BY <2>3 DEF Written
  <2> QED
    BY <1>1, <1>4, <1>7, <2>1, <2>2, <2>3, <2>4 DEF Fresh, Unsettled
<1>8. \E u \in Live' : u = n
  BY <1>4
<1>9. Old(w)'
  BY <1>6, <1>7, <1>8 DEF Old
<1> QED
  BY <1>1, <1>2, <1>3, <1>6, <1>9

\* The version that was found is on the new page, when it was on the page that is freed.
LEMMA FreePageFound ==
  ASSUME Known, FoundKept, FreePage, UNCHANGED requestVars
  PROVE  FoundKept'
<1> SUFFICES ASSUME Searching', findPage' # NoPage
             PROVE  \E w \in Live' : Old(w)' /\ (w[1] = findPage' \/ Freed(findPage)')
  BY DEF FoundKept
<1>1. /\ pc = "erasePage" /\ Searching /\ op' = op /\ findPage' = findPage /\ ~Booting /\ pc' = "rewrite"
  BY DEF FreePage, Searching, requestVars
<1>2. /\ Live' = {v \in Live : v[1] # erasedPage} /\ Kept /\ erasedPage \in Sector
      /\ \A v \in Live : v[1] = erasedPage =>
           \E w \in Live : w[1] = Back /\ w[1] # erasedPage /\ Data(w) = Data(v)
  BY FreePageLive
<1>3. PICK w \in Live : Old(w) /\ w[1] = findPage
  BY <1>1 DEF FoundKept, Freed
<1>4. \A u \in Live' : Data(u)'.key = op'.key => Old(u)'
  BY <1>1 DEF Old
<1>5. CASE w[1] # erasedPage
  BY <1>1, <1>2, <1>3, <1>4, <1>5 DEF Old, Kept
<1>6. CASE w[1] = erasedPage
  <2>1. PICK u \in Live : u[1] # erasedPage /\ Data(u) = Data(w)
    BY <1>2, <1>6
  <2>2. u \in Live' /\ Old(u)'
    BY <1>1, <1>2, <1>3, <1>4, <2>1 DEF Old, Kept
  <2>3. erasedPage \in Free' /\ mState'[erasedPage] = "UNINITIALIZED"
    <3>1. Free' = Free \cup {erasedPage}
      BY FreedPage DEF Known
    <3>2. mState' = [mState EXCEPT ![erasedPage] = "UNINITIALIZED"]
      BY DEF FreePage, ErasePage
    <3> QED
      BY <1>2, <3>1, <3>2, OrderTypes DEF Known
  <2>4. Freed(findPage)'
    BY <1>1, <1>3, <1>6, <2>3 DEF Freed
  <2> QED
    BY <2>2, <2>4
<1> QED
  BY <1>5, <1>6

\* The version that findItem() found stays until the last step of writeItem().
LEMMA NextFoundKept ==
  ASSUME ~FaultsWhileLoading, Known, StoreInv, OneTypePerKey, [Next]_vars
  PROVE  FoundKept'
<1> USE DEF StoreInv
<1>1. CASE FindForSet \/ FindForErase
  <2> SUFFICES ASSUME findPage' # NoPage
               PROVE  \E w \in Live' : Old(w)' /\ w[1] = findPage'
    BY DEF FoundKept
  <2>1. \E w \in Live' : Data(w)'.key = op'.key /\ w[1] = findPage'
    BY <1>1, FindItem
  <2>2. op' = op /\ (pc' = "erase" => op.name = "erase")
    BY <1>1, FindItem
  <2> QED
    BY <2>1, <2>2 DEF Old
<1>2. CASE WriteState
  BY <1>2, WriteStateFound
<1>3. CASE FreePage /\ UNCHANGED requestVars
  BY <1>3, FreePageFound
<1>4. ASSUME ~ (FindForSet \/ FindForErase), ~WriteState, ~ (FreePage /\ UNCHANGED requestVars),
             ~ UNCHANGED vars, Searching'
      PROVE  FoundKept'
  <2>1. Searching /\ op' = op /\ findPage' = findPage /\ pc # "erase" /\ pc' # "erase"
    BY <1>4, StillSearching
  <2>2. ~ (Manage /\ Load) /\ ~Begin /\ ~Crash /\ ~Reinitialize /\ ~FlashError /\ ~EraseFound
        /\ ~EraseOfNamespace /\ ~Return
    <3>1. ~FlashError
      BY <1>4, FlashErrorAnswer DEF Searching, Known
    <3>2. ~ (Manage /\ Load)
      BY <2>1 DEF Load, LoadSector, RepairHalfWritten, RepairDuplicate, RepairDone, RecoverFreeing,
       NothingFreeing, CheckFreePages, InsertPage, EraseOldVersion, Settle, Searching
    <3> QED
      BY <1>4, <2>1, <3>1, <3>2 DEF Begin, Crash, Reinitialize, StartLoading, EraseFound,
         EraseOfNamespace, Return, Searching
  <2>3. CASE Manage /\ Move
    <3>1. ~Freed(findPage)
      BY <2>1, <2>3 DEF Freed, Move, RequestNewPage, EraseCorrupt, ActivatePage,
         ActivateNothing, MarkFreeing, StartCopy, CopyInit, CopyData, CopyState, FreePage
    <3>2. Live \subseteq Live' /\ Kept
      <4>1. CASE MarkFreeing
        <5>1. mState[erasedPage] \in {"FULL", "ACTIVE"}
          BY <1>4, <4>1 DEF MarkFreeing, Respond, Searching
        <5>2. AlterPageState(erasedPage, "FREEING") /\ erasedPage \in Sector
          BY <4>1, <5>1, OrderTypes DEF MarkFreeing, Known, Inv, ControlInv, MoveInv
        <5> QED
          BY <5>1, <5>2, AlterPageStateLive
      <4>2. CASE CopyInit
        <5>1. pc = "copyInit" /\ Initialize(Back) /\ Back \in Sector
          BY <4>2, TwoPages DEF CopyInit, Known
        <5> QED
          BY <5>1, InitializeLive
      <4>3. CASE CopyState
        BY <4>3, CopyStateLive
      <4> QED
        BY <1>4, <2>3, <4>1, <4>2, <4>3, MoveQuietLive DEF Move, Manage
    <3> QED
      BY <2>1, <3>1, <3>2, KeepFound
  <2>4. CASE TryWrite \/ WriteData \/ InitPage \/ MarkFull
    <3>1. pc \in {"write", "rewrite", "data", "init", "markFull"} /\ Back \in InUse /\ Back \in Sector
      BY <2>4, OrderTypes DEF TryWrite, WriteData, InitPage, MarkFull, Known, Inv, ControlInv, MoveInv
    <3>2. Live' = Live /\ Kept
      <4>1. CASE InitPage
        BY <3>1, <4>1, InitializeLive DEF InitPage
      <4>2. CASE MarkFull
        <5>1. AlterPageState(Back, "FULL") /\ mState[Back] = "ACTIVE"
          BY <1>4, <4>2 DEF MarkFull, Respond, Searching
        <5> QED
          BY <3>1, <5>1, AlterPageStateLive
      <4> QED
        BY <2>4, <4>1, <4>2, ServeQuietLive
    <3>3. ASSUME Freed(findPage)
          PROVE  Freed(findPage)'
      <4>1. pc \in {"rewrite", "init", "data", "state", "erase"} /\ findPage \in Free
        BY <3>3 DEF Freed
      <4>2. findPage # Back
        BY <3>1, <4>1 DEF Known, PagesListed
      <4>3. Free' = Free
        BY <2>4 DEF TryWrite, WriteData, InitPage, MarkFull, managerVars, Free
      <4>4. mState'[findPage] = mState[findPage]
        <5>1. CASE InitPage
          BY <4>1, <4>2, <5>1, OrderTypes DEF InitPage, Initialize, Known
        <5>2. CASE TryWrite \/ WriteData
          BY <5>2 DEF TryWrite, WriteData, WriteEntryData, objectVars, pageVars
        <5> QED
          BY <2>4, <4>1, <5>1, <5>2 DEF MarkFull
      <4>5. pc' \in {"rewrite", "init", "data", "state", "erase"}
        BY <1>4, <2>4, <4>1 DEF TryWrite, WriteData, InitPage, MarkFull, Respond, Searching
      <4> QED
        BY <2>1, <3>3, <4>3, <4>4, <4>5 DEF Freed
    <3> QED
      BY <2>1, <3>2, <3>3, KeepFound
  <2> QED
    BY <1>4, <2>2, <2>3, <2>4 DEF Next, Manage, Serve
<1>5. CASE UNCHANGED vars
  <2>1. Live' = Live /\ Kept
    BY <1>5, QuietLive DEF vars, pageVars
  <2>2. \A v, w : Fresh(v, w) => Fresh(v, w)'
    BY <1>5 DEF vars, pageVars, managerVars, localVars, Fresh, Unsettled, Written, Data, Running, InUse
  <2>3. \A w \in Live : Old(w) => Old(w)'
    BY <1>5, <2>1, <2>2 DEF vars, Old, Kept
  <2>4. Freed(findPage) => Freed(findPage)'
    BY <1>5 DEF vars, pageVars, managerVars, Freed, Free
  <2> QED
    BY <1>5, <2>1, <2>3, <2>4 DEF vars, FoundKept, Searching
<1>6. CASE ~Searching'
  BY <1>6 DEF FoundKept
<1> QED
  BY <1>1, <1>2, <1>3, <1>4, <1>5, <1>6

-----------------------------------------------------------------------------
(* Every step keeps all of it. *)

\* At first there is no version.
LEMMA InitStore ==
  ASSUME Init
  PROVE  StoreInv
<1>1. \A p \in Sector : header[p] = "UNINITIALIZED"
  BY DEF Init
<1>2. Live = {}
  BY <1>1 DEF Live, HasSeq
<1>3. pc = "load"
  BY DEF Init
<1> QED
  BY <1>2, <1>3 DEF StoreInv, ItemsHeld, Pending, Unique, NoneFound, FoundKept, Searching

\* Every step keeps Unique.
LEMMA NextUnique ==
  ASSUME ~FaultsWhileLoading, ~ContinueAfterFailure, Known, StoreInv, OneTypePerKey, [Next]_vars
  PROVE  Unique'
<1> USE DEF StoreInv
<1>1. CASE UNCHANGED vars
  <2>1. Live' = Live /\ Kept /\ header' = header
    BY <1>1, QuietLive DEF vars, pageVars
  <2>2. \A v, w : Fresh(v, w) => Fresh(v, w)'
    BY <1>1 DEF vars, pageVars, managerVars, localVars, Fresh, Unsettled, Written, Data, Running, InUse
  <2> QED
    BY <2>1, <2>2, FewerUnique
<1> QED
  BY <1>1, LoadUnique, MoveUnique, ServeUnique, CutOffUnique DEF Next, Manage

(***************************************************************************)
(* Two versions of an item are on flash only while one is the copy of the  *)
(* other, or while the older is about to be erased.                        *)
(***************************************************************************)
THEOREM StoreHolds ==
  ASSUME ~FaultsWhileLoading, ~ContinueAfterFailure, OneTypePerKey
  PROVE  Spec => []StoreInv
<1>1. Known /\ StoreInv /\ [Next]_vars => StoreInv'
  <2> SUFFICES ASSUME Known, StoreInv, [Next]_vars
               PROVE  StoreInv'
    OBVIOUS
  <2>1. ItemsHeld' /\ Pending'
    BY NextItemsHeld, NextPending DEF StoreInv
  <2>2. NoneFound' /\ FoundKept'
    BY NextNoneFound, NextFoundKept DEF StoreInv
  <2>3. Unique'
    BY NextUnique
  <2> QED
    BY <2>1, <2>2, <2>3 DEF StoreInv
<1>2. Inv /\ PagesListed /\ OrderInv /\ EntryInv /\ DataInv /\ FreeingInv /\ CopyInv
      /\ OnlyCopiesWhileFreeing /\ Reserve /\ SpaceInv => Known
  BY DEF Known
<1>3. Init => StoreInv
  BY InitStore
<1> QED
  BY <1>1, <1>2, <1>3, InvHolds, ListsCorrect, OrderHolds, EntryHolds, DataHolds, FreeingHolds, CopyHolds,
     CopiesOnly, ReserveHolds, SpaceHolds, PTL DEF Spec

\* The invariants proved before, together.
LEMMA KnownHolds ==
  ASSUME ~FaultsWhileLoading, ~ContinueAfterFailure
  PROVE  Spec => []Known
<1>1. Inv /\ PagesListed /\ OrderInv /\ EntryInv /\ DataInv /\ FreeingInv /\ CopyInv
      /\ OnlyCopiesWhileFreeing /\ Reserve /\ SpaceInv => Known
  BY DEF Known
<1> QED
  BY <1>1, InvHolds, ListsCorrect, OrderHolds, EntryHolds, DataHolds, FreeingHolds, CopyHolds,
     CopiesOnly, ReserveHolds, SpaceHolds, PTL DEF Spec

(***************************************************************************)
(* What debugCheck() looks for is never there: between requests no item is *)
(* found twice and the used entries are counted, whatever was cut off or   *)
(* moved before, for keys that are used with one type.                     *)
(***************************************************************************)
THEOREM ItemsOnce ==
  ASSUME ~FaultsWhileLoading, ~ContinueAfterFailure, OneTypePerKey
  PROVE  Spec => []Consistent
<1>1. Known /\ StoreInv => Consistent
  <2> SUFFICES ASSUME Known, StoreInv, pc = "idle"
               PROVE  Consistent
    BY DEF Consistent
  <2>1. Running /\ pc \notin Early /\ ~Moving
    BY DEF Running, Early, Moving
  <2>2. \A p \in InUse : p \in Sector /\ mState[p] = header[p]
    BY <2>1, ListedPages DEF Known
  <2>3. \A p \in InUse : HasSeq(mState[p]) \/ (mState[p] = "UNINITIALIZED" /\ Written(p) = {})
    <3> SUFFICES ASSUME NEW p \in InUse, ~HasSeq(mState[p])
                 PROVE  mState[p] = "UNINITIALIZED" /\ Written(p) = {}
      OBVIOUS
    <3>1. mState[p] = "UNINITIALIZED" /\ header[p] = "UNINITIALIZED"
      BY <2>1, <2>2 DEF Known, FreeingInv, Healthy, EntryInv, Writable, HasSeq
    <3> QED
      BY <2>2, <3>1 DEF Known, EntryInv, BlankUnused, Written
  <2>4. ASSUME NEW p \in InUse, NEW q \in InUse, NEW i \in Written(p), NEW j \in Written(q),
               entryData[p][i].key = entryData[q][j].key
        PROVE  p = q /\ i = j
    <3>1. <<p, i>> \in Live /\ <<q, j>> \in Live
      BY <2>2, <2>3, LiveRule DEF Written
    <3>2. <<p, i>> = <<q, j>>
      BY <2>1, <2>4, <3>1, NoPairs DEF StoreInv, Twice, Data
    <3> QED
      BY <3>2
  <2>5. \A p \in InUse : mUsedEntryCount[p] = Cardinality(Written(p))
    BY <2>2, <2>3, FS_EmptySet DEF Known, DataInv, Counted
  <2> QED
    BY <2>4, <2>5 DEF Consistent
<1> QED
  BY <1>1, KnownHolds, StoreHolds, PTL

-----------------------------------------------------------------------------
(* The value of an item.                                                   *)

\* No newer version of the item is on flash, and of copies it is any.
Top(v) == v \in Live /\ \A w \in Live : ~ (Twice(w, v) /\ Fresh(w, v))

\* What the refinement mapping reads.
StoredRule ==
  \A a \in AppItem :
    /\ (\A v \in Live : Data(v).key # a[1]) => Stored(a) = NoValue
    /\ \A v \in Live : Top(v) /\ Data(v).key = a[1] => Stored(a) = Data(v).val
    /\ (\E v \in Live : Data(v).key = a[1]) => \E u \in Live : Top(u) /\ Data(u).key = a[1]

\* There is one ACTIVE sector, at any time.
LEMMA ActiveOnce ==
  ASSUME Known, NEW p \in Sector, NEW q \in Sector, header[p] = "ACTIVE", header[q] = "ACTIVE"
  PROVE  p = q
<1> SUFFICES ASSUME p # q
             PROVE  FALSE
  OBVIOUS
<1>1. headerSeq[p] < headerSeq[q] /\ headerSeq[q] < headerSeq[p]
  BY DEF Known, OrderInv, Numbers, HasSeq
<1>2. headerSeq[p] \in Nat /\ headerSeq[q] \in Nat
  BY OrderTypes DEF Known
<1> QED
  BY <1>1, <1>2

\* A new version is newer by the numbers of the pages and of the entries.
LEMMA FreshNewer ==
  ASSUME Known, NEW v, NEW w, Twice(v, w), Fresh(v, w)
  PROVE  ~NotOlder(w, v)
<1>1. /\ v[1] \in Sector /\ w[1] \in Sector /\ v = <<v[1], v[2]>> /\ w = <<w[1], w[2]>>
      /\ v[2] \in Nat /\ w[2] \in Nat /\ w[2] \in Written(w[1]) /\ HasSeq(header[w[1]])
  BY LiveParts, EntryNat DEF Twice
<1>2. headerSeq[v[1]] \in Nat /\ headerSeq[w[1]] \in Nat
  BY <1>1, OrderTypes DEF Known
<1>3. CASE v[1] = w[1]
  <2>1. w[2] <= v[2] /\ v[2] # w[2]
    BY <1>1, <1>3 DEF Fresh, Twice
  <2> QED
    BY <1>1, <1>2, <1>3, <2>1 DEF NotOlder
<1>4. CASE v[1] # w[1]
  <2>1. headerSeq[w[1]] < headerSeq[v[1]]
    BY <1>1, <1>4 DEF Fresh, Known, OrderInv, Numbers, HasSeq
  <2> QED
    BY <1>1, <1>2, <2>1 DEF NotOlder
<1> QED
  BY <1>3, <1>4

\* A copy is equal to the version it was made of.
LEMMA CopyEqual ==
  ASSUME Known, Unique, NEW v, NEW w, Twice(v, w), Copy(v, w)
  PROVE  Data(v) = Data(w)
<1>1. /\ v[1] \in Sector /\ w[1] \in Sector /\ v \in Live /\ w \in Live
      /\ w[2] \in Written(w[1]) /\ header[v[1]] = "FREEING" /\ header[w[1]] = "ACTIVE"
  BY LiveParts DEF Twice, Copy
<1>2. entryData[w[1]][w[2]] \in {entryData[v[1]][i] : i \in Written(v[1])}
  BY <1>1 DEF Known, OnlyCopiesWhileFreeing
<1>3. PICK i \in Written(v[1]) : entryData[w[1]][w[2]] = entryData[v[1]][i]
  BY <1>2
<1> DEFINE y == <<v[1], i>>
<1>4. y \in Live /\ y[1] = v[1] /\ Data(y) = Data(w)
  BY <1>1, <1>3, LiveRule DEF Written, HasSeq, Data
<1> HIDE DEF y
<1>5. y = v
  <2> SUFFICES ASSUME y # v
               PROVE  FALSE
    OBVIOUS
  <2>1. Twice(v, y)
    BY <1>1, <1>4 DEF Twice
  <2> QED
    BY <1>1, <1>4, <2>1 DEF Unique, Twice, Copy, Fresh
<1> QED
  BY <1>4, <1>5

\* No item has three versions.
LEMMA TwoVersions ==
  ASSUME Known, Unique, NEW u, NEW v, NEW w, Twice(u, v), Twice(v, w), Twice(u, w)
  PROVE  FALSE
<1>1. /\ u[1] \in Sector /\ v[1] \in Sector /\ w[1] \in Sector
      /\ u = <<u[1], u[2]>> /\ v = <<v[1], v[2]>> /\ w = <<w[1], w[2]>>
      /\ u[2] \in Nat /\ v[2] \in Nat /\ w[2] \in Nat
      /\ u[2] \in Written(u[1]) /\ v[2] \in Written(v[1]) /\ w[2] \in Written(w[1])
  BY LiveParts, EntryNat DEF Twice
<1>2. CASE \E p \in Sector : header[p] = "FREEING"
  BY <1>1, <1>2 DEF Unique, Twice, Copy, Fresh
<1>3. CASE \A p \in Sector : header[p] # "FREEING"
  <2>1. \A a, b : Twice(a, b) => Fresh(a, b) \/ Fresh(b, a)
    BY <1>3, LiveParts DEF Unique, Twice, Copy
  <2>2. ASSUME NEW a \in Live, NEW b \in Live, NEW c, NEW d, Fresh(a, c), Fresh(b, d)
        PROVE  a = b
    <3>1. /\ a[1] \in Sector /\ b[1] \in Sector /\ a = <<a[1], a[2]>> /\ b = <<b[1], b[2]>>
          /\ a[2] \in Nat /\ b[2] \in Nat /\ a[2] \in Written(a[1]) /\ b[2] \in Written(b[1])
      BY LiveParts, EntryNat
    <3>2. a[1] = b[1]
      BY <2>2, <3>1, ActiveOnce DEF Fresh
    <3>3. a[2] <= b[2] /\ b[2] <= a[2]
      BY <2>2, <3>1, <3>2 DEF Fresh
    <3> QED
      BY <3>1, <3>2, <3>3
  <2>3. Fresh(u, v) \/ Fresh(v, u)
    BY <2>1
  <2>4. Fresh(v, w) \/ Fresh(w, v)
    BY <2>1
  <2>5. Fresh(u, w) \/ Fresh(w, u)
    BY <2>1
  <2>6. u \in Live /\ v \in Live /\ w \in Live /\ u # v /\ v # w /\ u # w
    BY DEF Twice
  <2> QED
    BY <2>2, <2>3, <2>4, <2>5, <2>6
<1> QED
  BY <1>2, <1>3

\* The versions of an item are those of its key.
LEMMA ItemVersions ==
  ASSUME ItemsHeld, OneTypePerKey, NEW a \in AppItem
  PROVE  Versions(a) = {v \in Live : Data(v).key = a[1]}
<1>1. a = <<a[1], a[2]>>
  BY AppItemAssumption
<1>2. \A v \in Live : Data(v).key = a[1] => Data(v).type = a[2]
  <2> SUFFICES ASSUME NEW v \in Live, Data(v).key = a[1]
               PROVE  Data(v).type = a[2]
    OBVIOUS
  <2>1. <<a[1], Data(v).type>> \in AppItem
    BY DEF ItemsHeld
  <2>2. <<a[1], Data(v).type>> = a
    BY <2>1 DEF OneTypePerKey
  <2> QED
    BY <1>1, <2>2
<1>3. Versions(a) = {v \in Live : Data(v).key = a[1] /\ Data(v).type = a[2]}
  BY DEF Versions, Live, Data
<1> QED
  BY <1>2, <1>3

\* Of two versions one is the newest.
LEMMA NewestVersion ==
  ASSUME Known, ItemsHeld, Unique, OneTypePerKey, NEW a \in AppItem, Versions(a) # {}
  PROVE  Newest(a) \in Versions(a) /\ \A w \in Versions(a) : NotOlder(Newest(a), w)
<1>1. Versions(a) = {v \in Live : Data(v).key = a[1]}
  BY ItemVersions
<1>2. \A v, w \in Live : NotOlder(v, w) \/ NotOlder(w, v)
  <2> SUFFICES ASSUME NEW v \in Live, NEW w \in Live
               PROVE  NotOlder(v, w) \/ NotOlder(w, v)
    OBVIOUS
  <2>1. /\ v[2] \in Nat /\ w[2] \in Nat /\ headerSeq[v[1]] \in Nat /\ headerSeq[w[1]] \in Nat
    BY LiveParts, EntryNat, OrderTypes DEF Known
  <2> QED
    BY <2>1 DEF NotOlder
<1>3. PICK v \in Versions(a) : TRUE
  OBVIOUS
<1>4. \E m \in Versions(a) : \A w \in Versions(a) : NotOlder(m, w)
  <2>1. CASE \A w \in Versions(a) : NotOlder(v, w)
    BY <2>1
  <2>2. ASSUME NEW x \in Versions(a), ~NotOlder(v, x)
        PROVE  \E m \in Versions(a) : \A w \in Versions(a) : NotOlder(m, w)
    <3>1. x # v /\ NotOlder(x, v) /\ NotOlder(x, x)
      BY <1>1, <1>2, <2>2
    <3>2. \A w \in Versions(a) : w = v \/ w = x
      <4> SUFFICES ASSUME NEW w \in Versions(a), w # v, w # x
                   PROVE  FALSE
        OBVIOUS
      <4>1. Twice(v, x) /\ Twice(x, w) /\ Twice(v, w)
        BY <1>1, <1>3, <2>2, <3>1 DEF Twice
      <4> QED
        BY <4>1, TwoVersions
    <3> QED
      BY <2>2, <3>1, <3>2
  <2> QED
    BY <2>1, <2>2
<1> QED
  BY <1>4 DEF Newest

\* The refinement mapping follows this rule.
LEMMA StoredValue ==
  ASSUME Known, StoreInv, OneTypePerKey
  PROVE  StoredRule
<1> USE DEF StoreInv
<1> SUFFICES ASSUME NEW a \in AppItem
             PROVE  /\ (\A v \in Live : Data(v).key # a[1]) => Stored(a) = NoValue
                    /\ \A v \in Live : Top(v) /\ Data(v).key = a[1] => Stored(a) = Data(v).val
                    /\ (\E v \in Live : Data(v).key = a[1]) =>
                         \E u \in Live : Top(u) /\ Data(u).key = a[1]
  BY DEF StoredRule
<1>1. Versions(a) = {v \in Live : Data(v).key = a[1]}
  BY ItemVersions
<1>2. (\A v \in Live : Data(v).key # a[1]) => Stored(a) = NoValue
  BY <1>1 DEF Stored
<1>3. ASSUME NEW v \in Live, Top(v), Data(v).key = a[1]
      PROVE  Stored(a) = Data(v).val
  <2> DEFINE n == Newest(a)
  <2>1. v \in Versions(a) /\ n \in Versions(a) /\ NotOlder(n, v)
    BY <1>1, <1>3, NewestVersion
  <2>2. Stored(a) = Data(n).val
    BY <2>1 DEF Stored, Data
  <2> HIDE DEF n
  <2>3. CASE n = v
    BY <2>2, <2>3
  <2>4. CASE n # v
    <3>1. Twice(n, v) /\ Twice(v, n)
      BY <1>1, <1>3, <2>1, <2>4 DEF Twice
    <3>2. ~Fresh(n, v)
      BY <1>1, <1>3, <2>1, <3>1 DEF Top
    <3>3. ~Fresh(v, n)
      BY <2>1, <3>1, FreshNewer
    <3>4. Copy(v, n) \/ Copy(n, v)
      BY <3>1, <3>2, <3>3 DEF Unique, Twice
    <3>5. Data(v) = Data(n)
      BY <3>1, <3>4, CopyEqual
    <3> QED
      BY <2>2, <3>5
  <2> QED
    BY <2>3, <2>4
<1>4. ASSUME NEW v \in Live, Data(v).key = a[1]
      PROVE  \E u \in Live : Top(u) /\ Data(u).key = a[1]
  <2>1. CASE Top(v)
    BY <1>4, <2>1
  <2>2. CASE ~Top(v)
    <3>1. PICK w \in Live : Twice(w, v) /\ Fresh(w, v)
      BY <2>2 DEF Top
    <3>2. ASSUME NEW x \in Live, Twice(x, w), Fresh(x, w)
          PROVE  FALSE
      <4>1. x # v
        <5>1. SUFFICES ASSUME x = v
                       PROVE  FALSE
          OBVIOUS
        <5>2. ~NotOlder(v, w) /\ ~NotOlder(w, v)
          BY <3>1, <3>2, <5>1, FreshNewer
        <5>3. /\ v[2] \in Nat /\ w[2] \in Nat /\ headerSeq[v[1]] \in Nat /\ headerSeq[w[1]] \in Nat
          BY LiveParts, EntryNat, OrderTypes DEF Known
        <5> QED
          BY <5>2, <5>3 DEF NotOlder
      <4>2. Twice(x, v)
        BY <3>1, <3>2, <4>1 DEF Twice
      <4> QED
        BY <3>1, <3>2, <4>2, TwoVersions
    <3>3. Top(w) /\ Data(w).key = a[1]
      BY <1>4, <3>1, <3>2 DEF Top, Twice
    <3> QED
      BY <3>3
  <2> QED
    BY <2>1, <2>2
<1> QED
  BY <1>2, <1>3, <1>4

-----------------------------------------------------------------------------
(* Steps that alter no value. *)

SameStored == \A a \in AppItem : Stored(a)' = Stored(a)

\* The newest version stays that, as long as the states of the pages do.
LEMMA TopStays ==
  ASSUME Known, Unique, Live' \subseteq Live, Kept, SameHeaders, NEW v \in Live', Top(v)
  PROVE  Top(v)'
<1> SUFFICES ASSUME NEW w \in Live', Twice(w, v)', Fresh(w, v)'
             PROVE  FALSE
  BY DEF Top
<1>1. Twice(w, v) /\ Twice(v, w)
  BY DEF Twice, Kept
<1>2. header'[v[1]] = header[v[1]] /\ header'[w[1]] = header[w[1]] /\ v[1] \in Sector /\ w[1] \in Sector
  BY LiveParts DEF SameHeaders
<1>3. ~Copy(v, w) /\ ~Copy(w, v)
  BY <1>2 DEF Copy, Fresh
<1>4. ~Fresh(w, v)
  BY <1>1 DEF Top
<1>5. Fresh(v, w)
  BY <1>1, <1>3, <1>4 DEF Unique, Twice
<1>6. v[1] = w[1]
  BY <1>2, <1>5, ActiveOnce DEF Fresh
<1>7. /\ v = <<v[1], v[2]>> /\ w = <<w[1], w[2]>> /\ v[2] \in Nat /\ w[2] \in Nat
      /\ w[2] \in Written(w[1]) /\ v[2] \in Index
  BY LiveParts, EntryNat DEF Live
<1>8. w[2] <= v[2]
  BY <1>5, <1>6, <1>7 DEF Fresh
<1>9. v[2] <= w[2]
  <2>1. entryTable'[v[1]][v[2]] = "WRITTEN"
    BY LiveParts
  <2>2. v[2] \in Written(w[1])'
    BY <1>6, <1>7, <2>1 DEF Written
  <2> QED
    BY <2>2 DEF Fresh
<1>10. v = w
  BY <1>6, <1>7, <1>8, <1>9
<1> QED
  BY <1>1, <1>10 DEF Twice

\* No value changes when the newest versions, or equal ones, remain the newest.
LEMMA SameValues ==
  ASSUME Known, StoreInv, OneTypePerKey, StoredRule',
         \A v \in Live : Top(v) => \E u \in Live' : Top(u)' /\ Data(u)' = Data(v),
         \A u \in Live' : \E v \in Live : Data(v).key = Data(u)'.key
  PROVE  SameStored
<1>1. StoredRule
  BY StoredValue
<1> SUFFICES ASSUME NEW a \in AppItem
             PROVE  Stored(a)' = Stored(a)
  BY DEF SameStored
<1>2. CASE \A v \in Live : Data(v).key # a[1]
  BY <1>1, <1>2 DEF StoredRule
<1>3. CASE \E v \in Live : Data(v).key = a[1]
  <2>1. PICK v \in Live : Top(v) /\ Data(v).key = a[1]
    BY <1>1, <1>3 DEF StoredRule
  <2>2. PICK u \in Live' : Top(u)' /\ Data(u)' = Data(v)
    BY <2>1
  <2>3. Stored(a) = Data(v).val
    BY <1>1, <2>1 DEF StoredRule
  <2>4. Stored(a)' = Data(u)'.val
    BY <2>1, <2>2 DEF StoredRule
  <2> QED
    BY <2>2, <2>3, <2>4
<1> QED
  BY <1>2, <1>3

\* What is lost is old, or a copy.
LEMMA FewerValues ==
  ASSUME Known, StoreInv, OneTypePerKey, StoredRule', Live' \subseteq Live, Kept, SameHeaders,
         \A v \in Live : Top(v) => v \in Live' \/ \E u \in Live' : Top(u) /\ Data(u) = Data(v)
  PROVE  SameStored
<1>1. \A v \in Live' : Top(v) => Top(v)' /\ Data(v)' = Data(v)
  BY TopStays DEF StoreInv, Kept
<1>2. \A v \in Live : Top(v) => \E u \in Live' : Top(u)' /\ Data(u)' = Data(v)
  BY <1>1
<1>3. \A u \in Live' : \E v \in Live : Data(v).key = Data(u)'.key
  BY DEF Kept
<1> QED
  BY <1>2, <1>3, SameValues

\* No value changes when all versions stay, as do the headers unless no item has two.
LEMMA QuietValues ==
  ASSUME Known, StoreInv, OneTypePerKey, StoredRule', Live' = Live, Kept,
         SameHeaders \/ \A v, w \in Live : ~Twice(v, w)
  PROVE  SameStored
<1>1. CASE SameHeaders
  BY <1>1, FewerValues
<1>2. CASE \A v, w \in Live : ~Twice(v, w)
  <2>1. \A v, w \in Live : ~Twice(v, w)'
    BY <1>2 DEF Twice, Kept
  <2>2. \A v \in Live : Top(v)' /\ Data(v)' = Data(v)
    BY <2>1 DEF Top, Kept
  <2>3. \A v \in Live : Top(v) => \E u \in Live' : Top(u)' /\ Data(u)' = Data(v)
    BY <2>2
  <2>4. \A u \in Live' : \E v \in Live : Data(v).key = Data(u)'.key
    BY DEF Kept
  <2> QED
    BY <2>3, <2>4, SameValues
<1> QED
  BY <1>1, <1>2

\* While a page is FREEING every version is as good as another.
LEMMA FreeingTop ==
  ASSUME NEW v \in Live, NEW p \in Sector, header[p] = "FREEING"
  PROVE  Top(v)
BY DEF Top, Fresh

\* The erase of a sector, cut off or not.
LEMMA EraseTargetValues ==
  ASSUME Known, StoreInv, OneTypePerKey, StoredRule', Kept, SameHeaders,
         NEW p \in EraseTarget, Live' = {v \in Live : v[1] # p}
  PROVE  SameStored
<1>1. p \in Sector
  BY TargetSectors DEF Known
<1>2. ASSUME NEW v \in Live, v[1] = p
      PROVE  \E u \in Live' : Top(u) /\ Data(u) = Data(v)
  <2>1. HasSeq(header[p]) /\ v[2] \in Written(p)
    BY <1>2, LiveParts
  <2>2. PICK q \in Sector \ {p} :
          HasSeq(header[q]) /\ \E j \in Written(q) : entryData[q][j] = entryData[p][v[2]]
    BY <2>1, ErasedElsewhere DEF Known
  <2>3. PICK j \in Written(q) : entryData[q][j] = entryData[p][v[2]]
    BY <2>2
  <2> DEFINE u == <<q, j>>
  <2>4. u \in Live /\ u[1] # p /\ Data(u) = Data(v)
    BY <1>2, <2>2, <2>3, LiveRule DEF Written, Data
  <2> HIDE DEF u
  <2>5. \E f \in Sector : header[f] = "FREEING"
    <3>1. CASE pc = "erasePage"
      BY <3>1, TwoPages DEF Known
    <3>2. CASE pc = "recover"
      <4>1. PICK n \in DOMAIN mPageList : mState[mPageList[n]] = "FREEING"
        BY <3>2 DEF EraseTarget, FreeingPages
      <4>2. mPageList[n] \in Sector
        BY <4>1, OrderTypes DEF Known
      <4> QED
        BY <4>1, <4>2 DEF Known, OrderInv, Agree
    <3>3. CASE pc = "activate"
      <4>1. mState[p] = "CORRUPT"
        BY <3>3 DEF EraseTarget
      <4> QED
        BY <1>1, <2>1, <4>1 DEF Known, OrderInv, Agree, HasSeq
    <3> QED
      BY <3>1, <3>2, <3>3 DEF EraseTarget
  <2>6. Top(u)
    BY <2>4, <2>5, FreeingTop
  <2> QED
    BY <2>4, <2>6
<1>3. \A v \in Live : Top(v) => v \in Live' \/ \E u \in Live' : Top(u) /\ Data(u) = Data(v)
  BY <1>2
<1> QED
  BY <1>3, FewerValues

\* A power failure or an error within a flash operation changes no value.
LEMMA CutOffValues ==
  ASSUME Known, StoreInv, OneTypePerKey, StoredRule', UNCHANGED flashVars \/ HalfDone
  PROVE  SameStored
<1>1. /\ Live' = Live \/ \E p \in EraseTarget : Live' = {v \in Live : v[1] # p}
      /\ Kept /\ SameHeaders
  BY HalfDoneLive
<1> QED
  BY <1>1, QuietValues, EraseTargetValues

\* load() erases only old versions, provided that no two keys have the same hash.
LEMMA LoadValues ==
  ASSUME Known, StoreInv, OneTypePerKey, DistinctHashes, StoredRule', Load
  PROVE  SameStored
<1> USE DEF StoreInv
<1>1. CASE LoadSector \/ RepairHalfWritten \/ RepairDone \/ InsertPage \/ Settle \/ NothingFreeing
           \/ CheckFreePages
  <2>1. Live' = Live /\ Kept /\ header' = header
    BY <1>1, LoadQuietLive
  <2> QED
    BY <2>1, QuietValues DEF SameHeaders
<1>2. CASE RepairDuplicate
  <2> DEFINE j == Min(Superseding(loadIndex))
             i == Min(OlderEntries(loadIndex, j))
             x == <<loadIndex, i>>
             y == <<loadIndex, j>>
  <2>1. /\ x \in Live /\ y \in Live /\ i < j
        /\ Hash[Data(x).key] = Hash[Data(y).key]
        /\ Live' = Live \ {x} /\ Kept /\ header' = header
    BY <1>2, RepairDuplicateLive
  <2>2. x[1] = y[1] /\ x[2] = i /\ y[2] = j
    OBVIOUS
  <2> HIDE DEF x, y, i, j
  <2>3. i \in Nat /\ j \in Nat
    BY <2>1, <2>2, LiveParts, EntryNat
  <2>4. Data(x).key = Data(y).key
    BY <2>1 DEF ItemsHeld, Item, DistinctHashes
  <2>5. Twice(y, x)
    BY <2>1, <2>2, <2>3, <2>4 DEF Twice
  <2>6. ~Fresh(x, y)
    <3>1. y[2] \in Written(y[1])
      BY <2>1, LiveParts
    <3> QED
      BY <2>1, <2>2, <2>3, <3>1 DEF Fresh
  <2>7. Fresh(y, x)
    BY <2>2, <2>5, <2>6 DEF Unique, Twice, Copy
  <2>8. ~Top(x)
    BY <2>1, <2>5, <2>7 DEF Top
  <2>9. SameHeaders /\ Live' \subseteq Live
    BY <2>1 DEF SameHeaders
  <2>10. \A v \in Live : Top(v) => v \in Live'
    BY <2>1, <2>8
  <2> QED
    BY <2>1, <2>9, <2>10, FewerValues
<1>3. CASE EraseOldVersion /\ OldVersionPages = {}
  <2>1. Live' = Live /\ Kept /\ header' = header
    BY <1>3, QuietLive DEF EraseOldVersion, pageVars
  <2> QED
    BY <2>1, QuietValues DEF SameHeaders
<1>4. CASE EraseOldVersion /\ OldVersionPages # {}
  <2> DEFINE x == <<OldVersionPage, FindOnPage(OldVersionPage, LastItem.key, LastItem.type)>>
             z == <<Back, Max(Scanned(Back))>>
  <2>1. /\ x \in Live /\ z \in Live /\ x[1] # z[1] /\ Data(x).key = Data(z).key
        /\ x[1] \in InUse /\ mState[x[1]] # "FREEING"
        /\ Live' = Live \ {x} /\ Kept /\ header' = header
    BY <1>4, EraseOldVersionLive
  <2>2. z[1] = Back
    OBVIOUS
  <2> HIDE DEF x, z
  <2>3. pc = "dup" /\ Running
    BY <1>4 DEF EraseOldVersion, Running
  <2>4. x[1] \in Sector /\ mState[x[1]] = header[x[1]]
    BY <2>1, <2>3, LiveParts, LivePages
  <2>5. header[x[1]] # "ACTIVE" /\ header[x[1]] # "FREEING"
    BY <2>1, <2>2, <2>3, <2>4, ActiveIsBack
  <2>6. Twice(z, x)
    BY <2>1 DEF Twice
  <2>7. Fresh(z, x)
    BY <2>5, <2>6 DEF Unique, Twice, Copy, Fresh
  <2>8. ~Top(x)
    BY <2>1, <2>6, <2>7 DEF Top
  <2>9. SameHeaders /\ Live' \subseteq Live
    BY <2>1 DEF SameHeaders
  <2>10. \A v \in Live : Top(v) => v \in Live'
    BY <2>1, <2>8
  <2> QED
    BY <2>1, <2>9, <2>10, FewerValues
<1>5. CASE RecoverFreeing
  <2>1. /\ mState[Back] = "ACTIVE" => Live' = {v \in Live : v[1] # Back}
        /\ mState[Back] # "ACTIVE" => Live' = Live
        /\ Kept /\ SameHeaders
    BY <1>5, RecoverFreeingLive
  <2>2. mState[Back] = "ACTIVE" => Back \in EraseTarget
    BY <1>5 DEF RecoverFreeing, EraseTarget
  <2> QED
    BY <2>1, <2>2, QuietValues, EraseTargetValues
<1> QED
  BY <1>1, <1>2, <1>3, <1>4, <1>5 DEF Load

\* The moving of a page changes no value.
LEMMA MoveValues ==
  ASSUME Known, StoreInv, OneTypePerKey, StoredRule', Move
  PROVE  SameStored
<1>1. CASE RequestNewPage \/ EraseCorrupt \/ ActivatePage \/ ActivateNothing \/ StartCopy \/ CopyData
  BY <1>1, MoveQuietLive, QuietValues
<1>2. CASE MarkFreeing
  <2>1. pc = "freeing"
    BY <1>2 DEF MarkFreeing
  <2>2. Live' = Live /\ Kept
    <3>1. CASE mState[erasedPage] \in {"FULL", "ACTIVE"}
      <4>1. AlterPageState(erasedPage, "FREEING") /\ erasedPage \in Sector
        BY <1>2, <2>1, <3>1, OrderTypes DEF MarkFreeing, Known, Inv, ControlInv, MoveInv
      <4> QED
        BY <3>1, <4>1, AlterPageStateLive
    <3>2. CASE mState[erasedPage] \notin {"FULL", "ACTIVE"}
      BY <1>2, <3>2, QuietLive DEF MarkFreeing, pageVars
    <3> QED
      BY <3>1, <3>2
  <2>3. Running /\ pc \notin Early /\ pc # "erase" /\ ~Moving
    BY <2>1 DEF Running, Early, Moving
  <2>4. \A v, w \in Live : ~Twice(v, w)
    BY <2>3, NoPairs DEF StoreInv
  <2> QED
    BY <2>2, <2>4, QuietValues
<1>3. CASE CopyInit
  <2>1. pc = "copyInit" /\ Initialize(Back) /\ Back \in Sector
    BY <1>3, TwoPages DEF CopyInit, Known
  <2>2. Live' = Live /\ Kept /\ SameHeaders
    BY <2>1, InitializeLive
  <2> QED
    BY <2>2, QuietValues
<1>4. CASE CopyState
  <2> DEFINE n == <<Back, mNextFreeEntry[Back]>>
             x == <<erasedPage, readEntryIndex>>
  <2>1. /\ x \in Live /\ Live' = Live \cup {n} /\ Kept
        /\ header' = header /\ header[erasedPage] = "FREEING"
        /\ \A u \in Live' : u = n => Data(u)' = Data(x)
    BY <1>4, CopyStateLive
  <2> HIDE DEF n, x
  <2>2. erasedPage \in Sector
    BY <1>4, TwoPages DEF CopyState, Known
  <2>3. \A v \in Live' : Top(v)'
    BY <2>1, <2>2 DEF Top, Fresh
  <2>4. \A v \in Live : Top(v) => \E u \in Live' : Top(u)' /\ Data(u)' = Data(v)
    BY <2>1, <2>3 DEF Kept
  <2>5. \A u \in Live' : \E v \in Live : Data(v).key = Data(u)'.key
    BY <2>1 DEF Kept
  <2> QED
    BY <2>4, <2>5, SameValues
<1>5. CASE FreePage
  <2>1. Live' = {v \in Live : v[1] # erasedPage} /\ Kept /\ SameHeaders
    BY <1>5, FreePageLive
  <2>2. erasedPage \in EraseTarget
    BY <1>5 DEF FreePage, EraseTarget
  <2> QED
    BY <2>1, <2>2, EraseTargetValues
<1> QED
  BY <1>1, <1>2, <1>3, <1>4, <1>5 DEF Move

\* Requests, but for the writing of an item and the erasing of one.
LEMMA ServeValues ==
  ASSUME Known, StoreInv, OneTypePerKey, StoredRule',
         Begin \/ FindForSet \/ FindForErase \/ TryWrite \/ InitPage \/ WriteData \/ MarkFull \/ Return
  PROVE  SameStored
<1>1. CASE Begin \/ FindForSet \/ FindForErase \/ TryWrite \/ WriteData \/ Return
  <2>1. Live' = Live /\ Kept /\ header' = header
    BY <1>1, ServeQuietLive
  <2> QED
    BY <2>1, QuietValues DEF SameHeaders
<1>2. CASE InitPage
  <2>1. pc = "init" /\ Back \in Sector /\ Initialize(Back)
    BY <1>2, OrderTypes DEF InitPage, Known, Inv, ControlInv, MoveInv
  <2>2. Live' = Live /\ Kept /\ SameHeaders
    BY <2>1, InitializeLive
  <2> QED
    BY <2>2, QuietValues
<1>3. CASE MarkFull
  <2>1. pc = "markFull" /\ Back \in Sector
    BY <1>3, OrderTypes DEF MarkFull, Known, Inv, ControlInv, MoveInv
  <2>2. Live' = Live /\ Kept
    <3>1. CASE mState[Back] = "ACTIVE"
      BY <1>3, <2>1, <3>1, AlterPageStateLive DEF MarkFull
    <3>2. CASE mState[Back] # "ACTIVE"
      BY <1>3, <3>2, QuietLive DEF MarkFull, pageVars
    <3> QED
      BY <3>1, <3>2
  <2>3. Running /\ pc \notin Early /\ pc # "erase" /\ ~Moving
    BY <2>1 DEF Running, Early, Moving
  <2>4. \A v, w \in Live : ~Twice(v, w)
    BY <2>3, NoPairs DEF StoreInv
  <2> QED
    BY <2>2, <2>4, QuietValues
<1> QED
  BY <1>1, <1>2, <1>3

-----------------------------------------------------------------------------
(* Steps that alter a value. *)

\* The last step of writeItem() erases the old version, and not the new one.
LEMMA EraseOldValues ==
  ASSUME Known, StoreInv, OneTypePerKey, StoredRule', EraseFound, op.name = "set"
  PROVE  SameStored /\ pc' = "return" /\ ret' = "OK"
<1> USE DEF StoreInv
<1> DEFINE p == OldVersionOn
           i == FindOnPage(p, op.key, op.type)
           x == <<p, i>>
<1>1. /\ x \in Live /\ p \in Sector /\ Data(x).key = op.key /\ mState[p] = header[p]
      /\ Live' = Live \ {x} /\ Kept /\ header' = header /\ pc' = "return" /\ ret' = "OK"
  BY EraseFoundErases
<1>2. pc = "erase" /\ findPage # NoPage /\ Searching /\ Running
  BY DEF EraseFound, Known, Inv, ControlInv, RequestInv, Searching, Running
<1>3. PICK w \in Live : Old(w) /\ (w[1] = findPage \/ Freed(findPage))
  BY <1>2 DEF FoundKept
<1>4. PICK v \in Live : v # w /\ Data(v).key = op.key /\ Fresh(v, w)
  BY <1>2, <1>3 DEF Old
<1>5. Twice(v, w) /\ Data(w).key = op.key /\ RightType(op.key, op.type)
  BY <1>2, <1>3, <1>4, RequestTypes DEF Twice, Old, Known
<1>6. v[1] = Back
  <2>1. v[1] \in Sector /\ header[v[1]] = "ACTIVE"
    BY <1>4, LiveParts DEF Fresh
  <2> QED
    BY <1>2, <2>1, ActiveIsBack
\* The entry found is not the last on its page, or not on the last page.
<1>7. ASSUME x = v
      PROVE  FALSE
  <2>1. p = v[1] /\ i = v[2]
    BY <1>7
  <2>2. w[1] = p
    <3>1. CASE mState[findPage] \in {"UNINITIALIZED", "INVALID"}
      <4>1. p = FindPage(op.key, op.type)
        BY <3>1 DEF OldVersionOn
      <4>2. p # NoPage
        BY <1>1, SectorNat
      <4> HIDE DEF p
      <4>3. w[1] # Back => p # Back
        BY <1>2, <1>3, <1>5, <4>1, <4>2, FoundPage
      <4> QED
        BY <1>6, <2>1, <4>3
    <3>2. CASE ~ (mState[findPage] \in {"UNINITIALIZED", "INVALID"})
      BY <1>3, <3>2 DEF OldVersionOn, Freed
    <3> QED
      BY <3>1, <3>2
  <2>3. i # INVALID_ENTRY
    BY <1>4, <2>1, LiveParts, EntryNat
  <2> HIDE DEF p
  <2>4. i <= w[2]
    <3>1. Inv /\ EntryInv
      BY DEF Known
    <3>2. \A u \in Live : u[1] = p /\ Data(u).key = op.key => i <= u[2]
      BY <1>1, <2>3, <3>1, FoundEntry
    <3> QED
      BY <1>5, <2>2, <3>2
  <2> HIDE DEF i
  <2>5. /\ v = <<v[1], v[2]>> /\ w = <<w[1], w[2]>> /\ v[2] \in Nat /\ w[2] \in Nat
        /\ w[2] \in Written(w[1])
    BY <1>3, <1>4, LiveParts, EntryNat
  <2>6. w[2] <= v[2]
    BY <1>4, <2>1, <2>2, <2>5 DEF Fresh
  <2>7. v = w
    BY <2>1, <2>2, <2>4, <2>5, <2>6
  <2> QED
    BY <1>4, <2>7
<1> HIDE DEF p, i, x
<1>8. x = w
  <2> SUFFICES ASSUME x # w
               PROVE  FALSE
    OBVIOUS
  <2>1. Twice(v, x) /\ Twice(x, w)
    BY <1>1, <1>4, <1>5, <1>7 DEF Twice
  <2> QED
    BY <1>5, <2>1, TwoVersions
<1>9. ~Top(x)
  BY <1>4, <1>5, <1>8 DEF Top
<1>10. Live' \subseteq Live /\ SameHeaders /\ \A u \in Live : Top(u) => u \in Live'
  BY <1>1, <1>9 DEF SameHeaders
<1> QED
  BY <1>1, <1>10, FewerValues

\* A single version is erased: the item has no value any more.
LEMMA OneErased ==
  ASSUME Known, StoreInv, OneTypePerKey, StoredRule', \A v, w \in Live : ~Twice(v, w),
         NEW x \in Live, Live' = Live \ {x}, Kept
  PROVE  \E a \in AppItem :
           /\ a = <<Data(x).key, Data(x).type>> /\ Stored(a) # NoValue /\ Stored(a)' = NoValue
           /\ \A b \in AppItem : b # a => Stored(b)' = Stored(b)
<1> USE DEF StoreInv
<1>1. Data(x) \in Item /\ <<Data(x).key, Data(x).type>> \in AppItem
  BY DEF ItemsHeld
<1>3. StoredRule
  BY StoredValue
<1>4. \A v \in Live : Top(v)
  BY DEF Top
<1>5. \A v \in Live' : Top(v)'
  BY DEF Top, Twice, Kept
<1>6. \A b \in AppItem : b[1] = Data(x).key =>
        Stored(b) = Data(x).val /\ Stored(b)' = NoValue
  <2> SUFFICES ASSUME NEW b \in AppItem, b[1] = Data(x).key
               PROVE  Stored(b) = Data(x).val /\ Stored(b)' = NoValue
    OBVIOUS
  <2>1. Stored(b) = Data(x).val
    BY <1>3, <1>4 DEF StoredRule
  <2>2. \A v \in Live' : Data(v)'.key # b[1]
    BY DEF Twice, Kept
  <2> QED
    BY <2>1, <2>2 DEF StoredRule
<1>7. \A b \in AppItem : b[1] # Data(x).key => Stored(b)' = Stored(b)
  <2> SUFFICES ASSUME NEW b \in AppItem, b[1] # Data(x).key
               PROVE  Stored(b)' = Stored(b)
    OBVIOUS
  <2>1. CASE \A v \in Live : Data(v).key # b[1]
    <3>1. \A v \in Live' : Data(v)'.key # b[1]
      BY <2>1 DEF Kept
    <3> QED
      BY <1>3, <2>1, <3>1 DEF StoredRule
  <2>2. ASSUME NEW v \in Live, Data(v).key = b[1]
        PROVE  Stored(b)' = Stored(b)
    <3>1. v \in Live' /\ Data(v)' = Data(v)
      BY <2>2 DEF Kept
    <3> QED
      BY <1>3, <1>4, <1>5, <2>2, <3>1 DEF StoredRule
  <2> QED
    BY <2>1, <2>2
<1>8. Data(x).val # NoValue
  BY <1>1, NoValueAssumption DEF Item
<1>9. \A a \in AppItem : a = <<Data(x).key, Data(x).type>> =>
        /\ Stored(a) # NoValue /\ Stored(a)' = NoValue
        /\ \A b \in AppItem : b # a => Stored(b)' = Stored(b)
  <2> SUFFICES ASSUME NEW a \in AppItem, a = <<Data(x).key, Data(x).type>>
               PROVE  /\ Stored(a) # NoValue /\ Stored(a)' = NoValue
                      /\ \A b \in AppItem : b # a => Stored(b)' = Stored(b)
    OBVIOUS
  <2>1. a[1] = Data(x).key
    OBVIOUS
  <2>2. \A b \in AppItem : b # a => b[1] # Data(x).key
    BY <2>1 DEF OneTypePerKey
  <2> QED
    BY <1>6, <1>7, <1>8, <2>1, <2>2
<1> QED
  BY <1>1, <1>9

\* The last flash operation of a write gives the item its new value, at once.
LEMMA WriteStateValues ==
  ASSUME Known, StoreInv, OneTypePerKey, StoredRule', WriteState
  PROVE  \E a \in AppItem :
           /\ a = <<op.key, op.type>> /\ Stored(a)' = op.val
           /\ \A b \in AppItem : b # a => Stored(b)' = Stored(b)
<1> USE DEF StoreInv
<1> DEFINE m == <<Back, mNextFreeEntry[Back]>>
<1>1. \E n \in Sector \X Index :
         /\ n \notin Live /\ Live' = Live \cup {n} /\ Kept /\ header' = header
         /\ header[n[1]] = "ACTIVE"
         /\ Data(n)' = [key |-> op.key, type |-> op.type, val |-> op.val]
         /\ \A v \in Live : v[1] = n[1] => v[2] < n[2]
  <2>1. /\ m \notin Live /\ Live' = Live \cup {m} /\ Kept /\ header' = header
        /\ m \in Sector \X Index /\ header[Back] = "ACTIVE"
        /\ \A u \in Live' : u = m => Data(u)' = [key |-> op.key, type |-> op.type, val |-> op.val]
        /\ \A v \in Live : v[1] = Back => v[2] < m[2]
    BY WriteStateLive
  <2>2. m[1] = Back
    OBVIOUS
  <2> HIDE DEF m
  <2>3. \A n \in Sector \X Index : n = m => n \in Live'
    BY <2>1
  <2>4. \A n \in Sector \X Index : n = m =>
          Data(n)' = [key |-> op.key, type |-> op.type, val |-> op.val]
    BY <2>1, <2>3
  <2> QED
    BY <2>1, <2>2, <2>4
<1> HIDE DEF m
<1>2. PICK n \in Sector \X Index :
         /\ n \notin Live /\ Live' = Live \cup {n} /\ Kept /\ header' = header
         /\ header[n[1]] = "ACTIVE"
         /\ Data(n)' = [key |-> op.key, type |-> op.type, val |-> op.val]
         /\ \A v \in Live : v[1] = n[1] => v[2] < n[2]
  BY <1>1
<1>3. Running /\ pc \notin Early /\ pc # "erase" /\ ~Moving /\ op.name = "set"
  BY DEF WriteState, Running, Early, Moving, Known, Inv, ControlInv, RequestInv, WritePC
<1>4. \A v, w \in Live : ~Twice(v, w)
  BY <1>3, NoPairs
<1>5. StoredRule /\ \A v \in Live : Top(v)
  BY <1>4, StoredValue DEF Top
<1>6. Top(n)'
  <2> SUFFICES ASSUME NEW w \in Live', Twice(w, n)', Fresh(w, n)'
               PROVE  FALSE
    BY <1>2 DEF Top
  <2>1. w \in Live /\ w[1] \in Sector /\ n[1] \in Sector
    BY <1>2, LiveParts DEF Twice
  <2>2. w[1] = n[1]
    BY <1>2, <2>1, ActiveOnce DEF Fresh
  <2>3. entryTable'[n[1]][n[2]] = "WRITTEN"
    BY <1>2, LiveParts
  <2>4. n[2] \in Written(w[1])' /\ n[2] \in Nat /\ w[2] \in Nat
    BY <2>1, <2>2, <2>3, LiveParts, EntryNat DEF Written
  <2> QED
    BY <1>2, <2>1, <2>2, <2>4 DEF Fresh
<1>7. <<op.key, op.type>> \in AppItem
  BY <1>3, RequestTypes DEF Known
<1>8. \A a \in AppItem : a[1] = op.key => Stored(a)' = op.val
  BY <1>2, <1>6 DEF StoredRule
<1>9. \A b \in AppItem : b[1] # op.key => Stored(b)' = Stored(b)
  <2> SUFFICES ASSUME NEW b \in AppItem, b[1] # op.key
               PROVE  Stored(b)' = Stored(b)
    OBVIOUS
  <2>1. CASE \A v \in Live : Data(v).key # b[1]
    <3>1. \A v \in Live' : Data(v)'.key # b[1]
      BY <1>2, <2>1 DEF Kept
    <3> QED
      BY <1>5, <2>1, <3>1 DEF StoredRule
  <2>2. ASSUME NEW v \in Live, Data(v).key = b[1]
        PROVE  Stored(b)' = Stored(b)
    <3>1. v \in Live' /\ Data(v)' = Data(v)
      BY <1>2 DEF Kept
    <3>2. \A w \in Live' : ~Twice(w, v)'
      BY <1>2, <1>4, <2>2, <3>1 DEF Twice, Kept
    <3>3. Top(v)'
      BY <3>1, <3>2 DEF Top
    <3> QED
      BY <1>5, <2>2, <3>1, <3>3 DEF StoredRule
  <2> QED
    BY <2>1, <2>2
<1>10. \A a \in AppItem : a = <<op.key, op.type>> =>
         /\ a[1] = op.key
         /\ \A b \in AppItem : b # a => b[1] # op.key
  BY DEF OneTypePerKey
<1> QED
  BY <1>7, <1>8, <1>9, <1>10

-----------------------------------------------------------------------------
(* The steps of the abstract store, in terms of what the storage does.     *)

Requested == op.name \in {"set", "erase", "clear"}

\* The phases, told apart by pc.
LEMMA Phases ==
  ASSUME Requested
  PROVE  /\ pc = "return" => Phase = ret
         /\ pc = "erase" /\ op.name = "set" => Phase = "applied"
         /\ pc # "return" /\ ~ (pc = "erase" /\ op.name = "set") => Phase = "pending"
BY DEF Requested, Phase, NoOp

\* And after a step of the same request.
LEMMA PhasesNext ==
  ASSUME Requested, op' = op
  PROVE  /\ pc' = "return" => Phase' = ret'
         /\ pc' = "erase" /\ op.name = "set" => Phase' = "applied"
         /\ pc' # "return" /\ ~ (pc' = "erase" /\ op.name = "set") => Phase' = "pending"
BY DEF Requested, Phase, NoOp

\* The store of the refinement mapping.
LEMMA SameStore ==
  ASSUME SameStored
  PROVE  [a \in AppItem |-> Stored(a)]' = [a \in AppItem |-> Stored(a)]
BY DEF SameStored

\* A step that the store does not see.
LEMMA SameKV ==
  ASSUME SameStored, op' = op, Phase' = Phase
  PROVE  UNCHANGED KV!vars
BY SameStore DEF KV!vars, MappedRequest

\* The end of a request, by a return or by a restart.
LEMMA RestartKV ==
  ASSUME SameStored, op' = NoOp
  PROVE  KV!Next
<1>1. MappedRequest' = KV!NoRequest /\ Phase' = "idle"
  BY DEF MappedRequest, Phase, NoOp, KV!NoRequest
<1> QED
  BY <1>1, SameStore DEF KV!Next, KV!Restart

\* An error before anything took effect.
LEMMA RefuseKV ==
  ASSUME SameStored, op' = op, Phase = "pending", Phase' \in KV!Refusal
  PROVE  KV!Next
BY SameStore DEF KV!Next, KV!Refuse, MappedRequest

\* The answer to a set that took effect.
LEMMA DoneKV ==
  ASSUME SameStored, op' = op, op.name = "set", Phase = "applied", Phase' \in {"OK", "REMOVE_FAILED"}
  PROVE  KV!Next
<1>1. MappedRequest.name = "set"
  BY DEF MappedRequest
<1> QED
  BY <1>1, SameStore DEF KV!Next, KV!Done, MappedRequest

\* An item gets its value.
LEMMA SetKV ==
  ASSUME op' = op, op.name = "set", Phase = "pending", Phase' \in {"applied", "OK"},
         \E a \in AppItem :
           /\ a = <<op.key, op.type>> /\ Stored(a)' = op.val
           /\ \A b \in AppItem : b # a => Stored(b)' = Stored(b)
  PROVE  KV!Next
<1>1. /\ MappedRequest' = MappedRequest /\ MappedRequest.name = "set"
      /\ MappedRequest.item = <<op.key, op.type>> /\ MappedRequest.val = op.val
  BY DEF MappedRequest
<1>2. [a \in AppItem |-> Stored(a)]'
      = [[a \in AppItem |-> Stored(a)] EXCEPT ![<<op.key, op.type>>] = op.val]
  OBVIOUS
<1> QED
  BY <1>1, <1>2 DEF KV!Next, KV!Set

\* An item with the key is erased.
LEMMA EraseKV ==
  ASSUME op' = op, op.name = "erase", Phase = "pending", Phase' = "OK",
         \E a \in AppItem :
           /\ a[1] = op.key /\ Stored(a) # NoValue /\ Stored(a)' = NoValue
           /\ \A b \in AppItem : b # a => Stored(b)' = Stored(b)
  PROVE  KV!Next
<1>1. MappedRequest' = MappedRequest /\ MappedRequest.name = "erase" /\ MappedRequest.key = op.key
  BY DEF MappedRequest
<1>2. PICK a \in AppItem :
        /\ a[1] = op.key /\ Stored(a) # NoValue /\ Stored(a)' = NoValue
        /\ \A b \in AppItem : b # a => Stored(b)' = Stored(b)
  OBVIOUS
<1>3. [b \in AppItem |-> Stored(b)]' = [[b \in AppItem |-> Stored(b)] EXCEPT ![a] = NoValue]
  BY <1>2
<1> QED
  BY <1>1, <1>2, <1>3 DEF KV!Next, KV!Erase

\* No item has the key.
LEMMA NotFoundKV ==
  ASSUME SameStored, op' = op, op.name = "erase", Phase = "pending", Phase' = "NOT_FOUND",
         \A a \in AppItem : a[1] = op.key => Stored(a) = NoValue
  PROVE  KV!Next
<1>1. MappedRequest' = MappedRequest /\ MappedRequest.name = "erase" /\ MappedRequest.key = op.key
  BY DEF MappedRequest
<1> QED
  BY <1>1, SameStore DEF KV!Next, KV!NotFound

\* An item of the namespace is erased.
LEMMA ClearOneKV ==
  ASSUME op' = op, op.name = "clear", Phase = "pending", Phase' = "pending",
         \E a \in AppItem :
           /\ NsOf[a[1]] = op.ns /\ Stored(a)' = NoValue
           /\ \A b \in AppItem : b # a => Stored(b)' = Stored(b)
  PROVE  KV!Next
<1>1. MappedRequest' = MappedRequest /\ MappedRequest.name = "clear" /\ MappedRequest.ns = op.ns
  BY DEF MappedRequest
<1>2. PICK a \in AppItem :
        /\ NsOf[a[1]] = op.ns /\ Stored(a)' = NoValue
        /\ \A b \in AppItem : b # a => Stored(b)' = Stored(b)
  OBVIOUS
<1>3. [b \in AppItem |-> Stored(b)]' = [[b \in AppItem |-> Stored(b)] EXCEPT ![a] = NoValue]
  BY <1>2
<1> QED
  BY <1>1, <1>2, <1>3 DEF KV!Next, KV!ClearOne

\* No item of the namespace is left.
LEMMA ClearedKV ==
  ASSUME SameStored, op' = op, op.name = "clear", Phase = "pending", Phase' = "OK",
         \A a \in AppItem : NsOf[a[1]] = op.ns => Stored(a) = NoValue
  PROVE  KV!Next
<1>1. MappedRequest' = MappedRequest /\ MappedRequest.name = "clear" /\ MappedRequest.ns = op.ns
  BY DEF MappedRequest
<1> QED
  BY <1>1, SameStore DEF KV!Next, KV!Cleared

-----------------------------------------------------------------------------
(* Each step of the storage is one of the store, or none. *)

\* A request that begins.
LEMMA BeginKV ==
  ASSUME Known, SameStored, Begin
  PROVE  KV!Next
<1>1. Phase = "idle"
  BY DEF Begin, Phase, Known, Inv, ControlInv, RequestInv
<1>2. pc' \in {"find", "clear"} /\ op'.name \in {"set", "erase", "clear"}
  BY DEF Begin, Goto
<1>3. Phase' = "pending"
  BY <1>2 DEF Begin, Goto, Phase, NoOp
<1>4. MappedRequest' \in KV!Request
  <2>1. ASSUME NEW a \in AppItem, NEW v \in Value,
               op' = [name |-> "set", key |-> a[1], type |-> a[2], val |-> v]
        PROVE  MappedRequest' \in KV!Request
    <3>1. a = <<a[1], a[2]>>
      BY AppItemAssumption
    <3>2. MappedRequest' = [name |-> "set", item |-> a, val |-> v]
      BY <2>1, <3>1 DEF MappedRequest
    <3> QED
      BY <3>2 DEF KV!Request
  <2>2. ASSUME NEW a \in AppItem, op' = [name |-> "erase", key |-> a[1], type |-> ANY]
        PROVE  MappedRequest' \in KV!Request
    BY <2>2 DEF MappedRequest, KV!Request
  <2>3. ASSUME NEW a \in AppItem, op' = [name |-> "clear", ns |-> NsOf[a[1]]]
        PROVE  MappedRequest' \in KV!Request
    BY <2>3 DEF MappedRequest, KV!Request
  <2> QED
    BY <2>1, <2>2, <2>3 DEF Begin
<1> QED
  BY <1>1, <1>3, <1>4, SameStore DEF KV!Next, KV!Begin

\* A value that is there already is not written again: the store has it.
LEMMA FindForSetKV ==
  ASSUME Known, StoreInv, OneTypePerKey, SameStored, FindForSet
  PROVE  KV!Next \/ UNCHANGED KV!vars
<1> USE DEF StoreInv
<1>1. /\ pc = "find" /\ op.name = "set" /\ op' = op /\ Running /\ ~Moving /\ pc \notin Early
      /\ Requested /\ pc \notin {"load", "repair", "insert"}
  BY DEF FindForSet, Running, Moving, Early, Loading, Requested
<1>2. Phase = "pending"
  BY <1>1, Phases
<1>3. CASE Unmodified(findPage', op.key, op.type, op.val)
  <2>1. Phase' = "OK"
    BY <1>1, <1>3, PhasesNext DEF FindForSet, Respond
  <2> DEFINE p == FindPage(op.key, op.type)
             i == FindOnPage(p, op.key, op.type)
  <2>2. p # NoPage /\ entryData[p][i].val = op.val
    BY <1>3 DEF FindForSet, Unmodified
  <2>3. <<op.key, op.type>> \in AppItem /\ RightType(op.key, op.type)
    BY <1>1, RequestTypes DEF Known
  <2>4. p \in Sector /\ mState[p] = header[p] /\ i # INVALID_ENTRY
    BY <1>1, <2>2, <2>3, FoundPage
  <2>5. <<p, i>> \in Live /\ Data(<<p, i>>).key = op.key
    <3> HIDE DEF p
    <3> QED
      BY <2>4, FoundEntry DEF Known
  <2>6. Data(<<p, i>>).val = op.val
    BY <2>2 DEF Data
  <2> HIDE DEF p, i
  <2>7. Top(<<p, i>>)
    BY <1>1, <2>5, NoPairs DEF Top
  <2>8. \A a \in AppItem : a = <<op.key, op.type>> => Stored(a) = op.val
    <3>1. StoredRule
      BY StoredValue
    <3> QED
      BY <2>5, <2>6, <2>7, <3>1 DEF StoredRule
  <2>9. \E a \in AppItem :
          /\ a = <<op.key, op.type>> /\ Stored(a)' = op.val
          /\ \A b \in AppItem : b # a => Stored(b)' = Stored(b)
    BY <2>3, <2>8 DEF SameStored
  <2> QED
    BY <1>1, <1>2, <2>1, <2>9, SetKV
<1>4. CASE ~Unmodified(findPage', op.key, op.type, op.val)
  <2>1. Phase' = "pending"
    BY <1>1, <1>4, PhasesNext DEF FindForSet, Goto
  <2> QED
    BY <1>1, <1>2, <2>1, SameKV
<1> QED
  BY <1>3, <1>4

\* NOT_FOUND is answered when no item has the key.
LEMMA FindForEraseKV ==
  ASSUME Known, StoreInv, OneTypePerKey, SameStored, FindForErase
  PROVE  KV!Next \/ UNCHANGED KV!vars
<1> USE DEF StoreInv
<1>1. /\ pc = "find" /\ op.name = "erase" /\ op' = op /\ Running /\ Requested
      /\ pc \notin {"load", "repair", "insert"}
  BY DEF FindForErase, Running, Requested
<1>2. Phase = "pending"
  BY <1>1, Phases
<1>3. CASE findPage' = NoPage
  <2>1. Phase' = "NOT_FOUND"
    BY <1>1, <1>3, PhasesNext DEF FindForErase, Respond
  <2>2. \A w \in Live : Data(w).key # op.key
    BY <1>1, <1>3, RequestTypes, FoundPage DEF FindForErase, Known
  <2>3. \A a \in AppItem : a[1] = op.key => Stored(a) = NoValue
    <3>1. StoredRule
      BY StoredValue
    <3> QED
      BY <2>2, <3>1 DEF StoredRule
  <2> QED
    BY <1>1, <1>2, <2>1, <2>3, NotFoundKV
<1>4. CASE findPage' # NoPage
  <2>1. Phase' = "pending"
    BY <1>1, <1>4, PhasesNext DEF FindForErase, Goto
  <2> QED
    BY <1>1, <1>2, <2>1, SameKV
<1> QED
  BY <1>3, <1>4

\* The other steps of writeItem() and of requestNewPage(): they go on or give up.
LEMMA GoOnKV ==
  ASSUME SameStored, op' = op, op.name = "set", pc \notin {"return", "erase"},
         \/ pc' \notin {"return", "erase"}
         \/ pc' = "return" /\ ret' \in {"NOT_ENOUGH_SPACE", "INVALID_STATE", "FLASH_OP_FAIL"}
  PROVE  KV!Next \/ UNCHANGED KV!vars
<1>1. Requested
  BY DEF Requested
<1>2. Phase = "pending"
  BY <1>1, Phases
<1>3. CASE pc' \notin {"return", "erase"}
  <2>1. Phase' = "pending"
    BY <1>1, <1>3, PhasesNext
  <2> QED
    BY <1>2, <2>1, SameKV
<1>4. CASE pc' = "return" /\ ret' \in {"NOT_ENOUGH_SPACE", "INVALID_STATE", "FLASH_OP_FAIL"}
  <2>1. Phase' \in KV!Refusal
    BY <1>1, <1>4, PhasesNext DEF KV!Refusal
  <2> QED
    BY <1>2, <2>1, RefuseKV
<1> QED
  BY <1>3, <1>4

\* The steps of writeItem() up to the state word.
LEMMA WriteKV ==
  ASSUME Known, SameStored, TryWrite \/ InitPage \/ WriteData \/ MarkFull
  PROVE  KV!Next \/ UNCHANGED KV!vars
<1>1. pc \in WritePC /\ pc \notin {"return", "erase"} /\ op' = op
  BY DEF TryWrite, InitPage, WriteData, MarkFull, WritePC, requestVars
<1>2. op.name = "set"
  BY <1>1 DEF Known, Inv, ControlInv, RequestInv
<1>3. \/ pc' \notin {"return", "erase"}
      \/ pc' = "return" /\ ret' \in {"NOT_ENOUGH_SPACE", "INVALID_STATE", "FLASH_OP_FAIL"}
  BY DEF TryWrite, InitPage, WriteData, MarkFull, Goto, Respond
<1> QED
  BY <1>1, <1>2, <1>3, GoOnKV

\* The state word is where a set takes effect.
LEMMA WriteStateKV ==
  ASSUME Known, StoreInv, OneTypePerKey, StoredRule', WriteState
  PROVE  KV!Next
<1>1. pc = "state" /\ op' = op
  BY DEF WriteState, requestVars
<1>2. op.name = "set" /\ Requested
  BY <1>1 DEF Known, Inv, ControlInv, RequestInv, WritePC, Requested
<1>3. Phase = "pending"
  BY <1>1, <1>2, Phases
<1>4. Phase' \in {"applied", "OK"}
  BY <1>1, <1>2, PhasesNext DEF WriteState, Goto, Respond
<1> QED
  BY <1>1, <1>2, <1>3, <1>4, WriteStateValues, SetKV

\* eraseItem() takes effect; the last step of writeItem() has no effect.
LEMMA EraseFoundKV ==
  ASSUME Known, StoreInv, OneTypePerKey, StoredRule', EraseFound
  PROVE  KV!Next
<1> USE DEF StoreInv
<1>1. pc = "erase" /\ op' = op /\ op.name \in {"set", "erase"} /\ Requested
  BY DEF EraseFound, requestVars, Known, Inv, ControlInv, RequestInv, Requested
<1>2. CASE op.name = "set"
  <2>1. SameStored /\ pc' = "return" /\ ret' = "OK"
    BY <1>2, EraseOldValues
  <2>2. Phase = "applied" /\ Phase' = "OK"
    BY <1>1, <1>2, <2>1, Phases, PhasesNext
  <2> QED
    BY <1>1, <1>2, <2>1, <2>2, DoneKV
<1>3. CASE op.name = "erase"
  <2>1. \E y \in Live : /\ Data(y).key = op.key /\ Live' = Live \ {y} /\ Kept
                        /\ pc' = "return" /\ ret' = "OK"
    BY EraseFoundErases
  <2>2. PICK y \in Live : /\ Data(y).key = op.key /\ Live' = Live \ {y} /\ Kept
                          /\ pc' = "return" /\ ret' = "OK"
    BY <2>1
  <2>3. \A v, w \in Live : ~Twice(v, w)
    BY <1>1, <1>3, NoPairs DEF Running, Early, Loading, Moving
  <2>4. \E a \in AppItem :
          /\ a = <<Data(y).key, Data(y).type>> /\ Stored(a) # NoValue /\ Stored(a)' = NoValue
          /\ \A b \in AppItem : b # a => Stored(b)' = Stored(b)
    BY <2>2, <2>3, OneErased
  <2>5. \E a \in AppItem :
          /\ a[1] = op.key /\ Stored(a) # NoValue /\ Stored(a)' = NoValue
          /\ \A b \in AppItem : b # a => Stored(b)' = Stored(b)
    BY <2>2, <2>4
  <2>6. Phase = "pending" /\ Phase' = "OK"
    BY <1>1, <1>3, <2>2, Phases, PhasesNext
  <2> QED
    BY <1>1, <1>3, <2>5, <2>6, EraseKV
<1> QED
  BY <1>1, <1>2, <1>3

\* eraseNamespace() ends when no page has an item of the namespace.
LEMMA NamespaceEmpty ==
  ASSUME Known, Running, pc \notin {"load", "repair", "insert"}, ClearPages(op.ns) = {}, NEW v \in Live
  PROVE  NsOf[Data(v).key] # op.ns
<1> SUFFICES ASSUME NsOf[Data(v).key] = op.ns
             PROVE  FALSE
  OBVIOUS
<1> DEFINE p == v[1]
           S == {i \in Scanned(p) : NsOf[entryData[p][i].key] = op.ns}
<1>1. p \in InUse /\ p \in Sector /\ mState[p] = header[p] /\ HasSeq(mState[p]) /\ v[2] \in Written(p)
  BY LivePages, LiveParts
<1>2. Scanned(p) = Written(p)
  BY <1>1, ScannedWritten DEF Known
<1>3. v[2] \in S
  BY <1>1, <1>2 DEF Data
<1>4. S \in SUBSET Nat /\ S \subseteq Index /\ INVALID_ENTRY \notin Index
  BY <1>1, <1>2, EntryTypes DEF Known
<1>5. FindNamespace(p, op.ns) = LeastOr(S, INVALID_ENTRY)
  BY <1>1 DEF FindNamespace
<1>6. FindNamespace(p, op.ns) # INVALID_ENTRY
  <2> HIDE DEF S
  <2> QED
    BY <1>3, <1>4, <1>5, LeastOrProperty
<1> QED
  BY <1>1, <1>6 DEF InUse, ClearPages

\* eraseNamespace() takes effect item by item.
LEMMA EraseOfNamespaceKV ==
  ASSUME Known, StoreInv, OneTypePerKey, StoredRule', EraseOfNamespace
  PROVE  KV!Next
<1> USE DEF StoreInv
<1>1. /\ pc = "clear" /\ op' = op /\ op.name = "clear" /\ Requested /\ Running /\ pc \notin Early
      /\ pc \notin {"load", "repair", "insert"} /\ ~Moving
  BY DEF EraseOfNamespace, requestVars, Known, Inv, ControlInv, RequestInv, Requested, Running, Early,
         Loading, Moving
<1>2. Phase = "pending"
  BY <1>1, Phases
<1>3. CASE ClearPages(op.ns) = {}
  <2>1. Phase' = "OK"
    BY <1>1, <1>3, PhasesNext DEF EraseOfNamespace, Respond
  <2>2. SameStored
    <3>1. Live' = Live /\ Kept /\ header' = header
      BY <1>3, QuietLive DEF EraseOfNamespace, pageVars
    <3> QED
      BY <3>1, QuietValues DEF SameHeaders
  <2>3. \A a \in AppItem : NsOf[a[1]] = op.ns => Stored(a) = NoValue
    <3>1. StoredRule
      BY StoredValue
    <3>2. \A v \in Live : NsOf[Data(v).key] # op.ns
      BY <1>1, <1>3, NamespaceEmpty
    <3> QED
      BY <3>1, <3>2 DEF StoredRule
  <2> QED
    BY <1>1, <1>2, <2>1, <2>2, <2>3, ClearedKV
<1>4. CASE ClearPages(op.ns) # {}
  <2>1. Phase' = "pending"
    BY <1>1, <1>4, PhasesNext DEF EraseOfNamespace
  <2>2. PICK y \in Live : NsOf[Data(y).key] = op.ns /\ Live' = Live \ {y} /\ Kept
    BY <1>4, EraseOfNamespaceLive
  <2>3. \A v, w \in Live : ~Twice(v, w)
    BY <1>1, NoPairs
  <2>4. \E a \in AppItem :
          /\ a = <<Data(y).key, Data(y).type>> /\ Stored(a) # NoValue /\ Stored(a)' = NoValue
          /\ \A b \in AppItem : b # a => Stored(b)' = Stored(b)
    BY <2>2, <2>3, OneErased
  <2>5. \E a \in AppItem :
          /\ NsOf[a[1]] = op.ns /\ Stored(a)' = NoValue
          /\ \A b \in AppItem : b # a => Stored(b)' = Stored(b)
    BY <2>2, <2>4
  <2> QED
    BY <1>1, <1>2, <2>1, <2>5, ClearOneKV
<1> QED
  BY <1>3, <1>4

\* load() serves no request; requestNewPage() serves a set.
LEMMA ManageKV ==
  ASSUME Known, SameStored, Manage
  PROVE  KV!Next \/ UNCHANGED KV!vars
<1>1. op' = op
  BY DEF Manage, requestVars
<1>2. CASE Booting
  <2>1. op = NoOp
    BY <1>2 DEF Known, Inv, ControlInv, PhaseInv
  <2>2. Phase' = Phase
    BY <1>1, <2>1 DEF Phase
  <2> QED
    BY <1>1, <2>2, SameKV
<1>3. CASE ~Booting
  <2>1. ~Load
    BY <1>3 DEF Load, LoadSector, RepairHalfWritten, RepairDuplicate, RepairDone, InsertPage, Settle,
       EraseOldVersion, RecoverFreeing, NothingFreeing, CheckFreePages, Known, Inv, ControlInv,
       PhaseInv, LoadPC, Booting
  <2>2. pc \in MovePC \cup {"request"} /\ pc \notin {"return", "erase"}
    BY <2>1 DEF Manage, Move, RequestNewPage, EraseCorrupt, ActivatePage, ActivateNothing, MarkFreeing,
       StartCopy, CopyInit, CopyData, CopyState, FreePage, MovePC
  <2>3. op.name = "set"
    BY <1>3, <2>2 DEF Known, Inv, ControlInv, RequestInv, WritePC
  <2>4. \/ pc' \notin {"return", "erase"}
        \/ pc' = "return" /\ ret' \in {"NOT_ENOUGH_SPACE", "INVALID_STATE", "FLASH_OP_FAIL"}
    BY <1>3, <2>1, <2>2 DEF Manage, Move, RequestNewPage, EraseCorrupt, ActivatePage, ActivateNothing,
       MarkFreeing, StartCopy, CopyInit, CopyData, CopyState, FreePage, Goto, Respond, Fail, MovePC
  <2> QED
    BY <1>1, <2>2, <2>3, <2>4, GoOnKV
<1> QED
  BY <1>2, <1>3

\* An error is answered: after the new value is written, REMOVE_FAILED.
LEMMA FlashErrorKV ==
  ASSUME ~FaultsWhileLoading, Known, SameStored, FlashError
  PROVE  KV!Next
<1>1. /\ pc' = "return" /\ ~Booting /\ op' = op
      /\ pc \in {"erasePage", "activate", "init", "copyInit", "data", "copyData", "state",
                 "copyState", "markFull", "freeing", "erase", "clear"}
  BY FlashErrorAnswer DEF FlashError, Known
<1>2. Requested /\ pc # "return"
  BY <1>1 DEF Known, Inv, ControlInv, RequestInv, WritePC, MovePC, Requested
<1>3. CASE pc = "erase" /\ op.name = "set"
  <2>1. ret' = "REMOVE_FAILED"
    BY <1>3 DEF FlashError, Respond
  <2>2. Phase = "applied" /\ Phase' = "REMOVE_FAILED"
    BY <1>1, <1>2, <1>3, <2>1, Phases, PhasesNext
  <2> QED
    BY <1>1, <1>3, <2>2, DoneKV
<1>4. CASE ~ (pc = "erase" /\ op.name = "set")
  <2>1. ret' = "FLASH_OP_FAIL"
    BY <1>1, <1>4 DEF FlashError, Respond, Fail
  <2>2. Phase = "pending" /\ Phase' = "FLASH_OP_FAIL"
    BY <1>1, <1>2, <1>4, <2>1, Phases, PhasesNext
  <2>3. Phase' \in KV!Refusal
    BY <2>2 DEF KV!Refusal
  <2> QED
    BY <1>1, <2>2, <2>3, RefuseKV
<1> QED
  BY <1>3, <1>4

\* A blank partition has no value.
LEMMA InitKV ==
  ASSUME Init, OneTypePerKey, Known
  PROVE  KV!Init
<1>1. StoredRule
  BY InitStore, StoredValue
<1>2. Live = {}
  BY DEF Init, Live, HasSeq
<1>3. \A a \in AppItem : Stored(a) = NoValue
  BY <1>1, <1>2 DEF StoredRule
<1>4. op = NoOp
  BY DEF Init
<1>5. MappedRequest = KV!NoRequest /\ Phase = "idle"
  BY <1>4 DEF MappedRequest, Phase, NoOp, KV!NoRequest
<1> QED
  BY <1>3, <1>5 DEF KV!Init

\* Every step is one of the store or none.
LEMMA NextKV ==
  ASSUME ~FaultsWhileLoading, OneTypePerKey, DistinctHashes, Known, StoreInv, StoredRule', [Next]_vars
  PROVE  KV!Next \/ UNCHANGED KV!vars
<1>1. CASE Manage
  <2>1. SameStored
    BY <1>1, LoadValues, MoveValues DEF Manage
  <2> QED
    BY <1>1, <2>1, ManageKV
<1>2. CASE Begin
  BY <1>2, ServeValues, BeginKV
<1>3. CASE FindForSet
  BY <1>3, ServeValues, FindForSetKV
<1>4. CASE FindForErase
  BY <1>4, ServeValues, FindForEraseKV
<1>5. CASE TryWrite \/ InitPage \/ WriteData \/ MarkFull
  BY <1>5, ServeValues, WriteKV
<1>6. CASE WriteState
  BY <1>6, WriteStateKV
<1>7. CASE EraseFound
  BY <1>7, EraseFoundKV
<1>8. CASE EraseOfNamespace
  BY <1>8, EraseOfNamespaceKV
<1>9. CASE Return
  <2>1. op' = NoOp
    BY <1>9 DEF Return
  <2> QED
    BY <1>9, <2>1, ServeValues, RestartKV
<1>10. CASE Crash \/ Reinitialize
  <2>1. op' = NoOp /\ (UNCHANGED flashVars \/ HalfDone)
    BY <1>10 DEF Crash, Reinitialize, StartLoading
  <2> QED
    BY <2>1, CutOffValues, RestartKV
<1>11. CASE FlashError
  <2>1. UNCHANGED flashVars \/ HalfDone
    BY <1>11 DEF FlashError
  <2> QED
    BY <1>11, <2>1, CutOffValues, FlashErrorKV
<1>12. CASE UNCHANGED vars
  <2>1. UNCHANGED <<header, headerSeq, entryTable, entryData, op, pc, ret>>
    BY <1>12 DEF vars, pageVars
  <2>2. SameStored
    <3>1. Live' = Live /\ Kept /\ header' = header
      BY <2>1, QuietLive
    <3> QED
      BY <3>1, QuietValues DEF SameHeaders
  <2>3. Phase' = Phase
    BY <2>1 DEF Phase
  <2> QED
    BY <2>1, <2>2, <2>3, SameKV
<1> QED
  BY <1>1, <1>2, <1>3, <1>4, <1>5, <1>6, <1>7, <1>8, <1>9, <1>10, <1>11, <1>12 DEF Next, Serve

(***************************************************************************)
(* The storage implements the store: whatever pages are moved, whenever    *)
(* the power fails and whichever operation of a request fails, a value     *)
(* once acknowledged stays until a later request replaces it, and a        *)
(* request that is cut off leaves the old value or the new one.            *)
(***************************************************************************)
THEOREM StoreRefined ==
  ASSUME ~FaultsWhileLoading, ~ContinueAfterFailure, OneTypePerKey, DistinctHashes
  PROVE  Spec => StoreImplemented
<1>1. Known /\ StoreInv => StoredRule
  BY StoredValue
<1>2. Init /\ Known => KV!Init
  BY InitKV
<1>3. Known /\ StoreInv /\ StoredRule' /\ [Next]_vars => [KV!Next]_(KV!vars)
  BY NextKV
<1> QED
  BY <1>1, <1>2, <1>3, KnownHolds, StoreHolds, PTL DEF Spec, StoreImplemented, KV!Spec

-----------------------------------------------------------------------------
(* The storage under the iterator. *)

(***************************************************************************)
(* A page that has items to be read is on the list of pages (FreeUnread),  *)
(* where nextEntry() goes through it, and the page that is being freed is  *)
(* one of these (FreedRead), so that the application knows of its end.     *)
(***************************************************************************)
FreeUnread == \A p \in Free : ~HasSeq(mState[p])

FreedRead ==
  ~Booting /\ pc \in {"copy", "copyInit", "copyData", "copyState", "erasePage"} =>
    HasSeq(mState[erasedPage])

ReadInv == FreeUnread /\ FreedRead

\* Steps that change no state of a page, and do not go on with a move.
LEMMA SameRead ==
  ASSUME ReadInv, mState' = mState, Free' \subseteq Free,
         pc' \in {"copy", "copyInit", "copyData", "copyState", "erasePage"} =>
           /\ pc \in {"copy", "copyInit", "copyData", "copyState", "erasePage"}
           /\ erasedPage' = erasedPage /\ mStorageState' = mStorageState
  PROVE  ReadInv'
BY DEF ReadInv, FreeUnread, FreedRead

\* A sector that load() reads is on neither of the lists yet.
LEMMA LoadSectorRead ==
  ASSUME Inv, PagesListed, ReadInv, LoadSector
  PROVE  ReadInv'
<1> USE DEF LoadSector
<1>1. loadIndex \notin Free /\ Free' = Free /\ Free \subseteq Sector
  BY OrderTypes DEF PagesListed, managerVars, Free, Sector
<1>2. \A p \in Free : mState'[p] = mState[p]
  BY <1>1, OrderTypes DEF LoadPage
<1> QED
  BY <1>1, <1>2 DEF ReadInv, FreeUnread, FreedRead

\* A page that becomes free has no items to be read any more.
LEMMA FreedPageRead ==
  ASSUME Inv, ReadInv, NEW p \in Sector, ~HasSeq(mState'[p]),
         \A q \in Sector \ {p} : mState'[q] = mState[q],
         Free' \subseteq Free \cup {p},
         pc' \notin {"copy", "copyInit", "copyData", "copyState", "erasePage"}
  PROVE  ReadInv'
BY OrderTypes DEF ReadInv, FreeUnread, FreedRead

\* A page that gets a header is in use.
LEMMA UsedPageRead ==
  ASSUME Inv, PagesListed, ReadInv, NEW p \in InUse, NEW state, HasSeq(state),
         mState' = [mState EXCEPT ![p] = state], UNCHANGED <<mFreePageList, mStorageState>>,
         pc' \in {"copy", "copyInit", "copyData", "copyState", "erasePage"} =>
           /\ erasedPage' = erasedPage
           /\ erasedPage = p \/ pc \in {"copy", "copyInit", "copyData", "copyState", "erasePage"}
  PROVE  ReadInv'
<1>1. p \in Sector /\ p \notin Free /\ Free' = Free
  BY OrderTypes DEF PagesListed, Free
<1>2. \A q \in Sector : mState'[q] = IF q = p THEN state ELSE mState[q]
  BY <1>1, OrderTypes
<1>3. FreeUnread'
  BY <1>1, <1>2, OrderTypes DEF ReadInv, FreeUnread
<1>4. FreedRead'
  <2> SUFFICES ASSUME ~Booting', pc' \in {"copy", "copyInit", "copyData", "copyState", "erasePage"}
               PROVE  HasSeq(mState'[erasedPage])
    BY DEF FreedRead
  <2>1. CASE erasedPage = p
    BY <1>1, <1>2, <2>1
  <2>2. CASE erasedPage # p
    BY <2>2, OrderTypes DEF ReadInv, FreedRead
  <2> QED
    BY <2>1, <2>2
<1> QED
  BY <1>3, <1>4 DEF ReadInv

\* The steps of the page manager.
LEMMA ManageRead ==
  ASSUME Inv, PagesListed, ReadInv, Manage
  PROVE  ReadInv'
<1> USE DEF managerVars, localVars, objectVars
<1>1. CASE LoadSector
  BY <1>1, LoadSectorRead
<1>2. CASE \/ RepairHalfWritten \/ RepairDuplicate \/ RepairDone \/ Settle
           \/ EraseOldVersion \/ NothingFreeing \/ CheckFreePages \/ RequestNewPage
           \/ ActivateNothing \/ CopyData \/ CopyState
  BY <1>2, SameRead DEF RepairHalfWritten, RepairDuplicate, RepairDone, Settle, EraseOldVersion,
     NothingFreeing, CheckFreePages, RequestNewPage, ActivateNothing, CopyData, CopyState,
     Free, pageVars, ClearHalfWritten, EraseEntry, WriteEntryData, WriteEntryState, Fail, Respond
<1>3. CASE StartCopy
  BY <1>3, SameRead DEF StartCopy, Free, pageVars
<1>4. CASE InsertPage
  <2>1. loadIndex \in Sector /\ mFreePageList \in Seq(Sector) /\ mState' = mState
    BY <1>4, OrderTypes DEF InsertPage, Inv, ControlInv, PhaseInv, pageVars
  <2>2. CASE HasSeq(mState[loadIndex])
    BY <1>4, <2>1, <2>2, SameRead DEF InsertPage, Free
  <2>3. CASE ~HasSeq(mState[loadIndex])
    <3>1. Free' \subseteq Free \cup {loadIndex}
      BY <1>4, <2>1, <2>3, AppendElements, ListElements DEF InsertPage
    <3> QED
      BY <1>4, <2>1, <2>3, <3>1, FreedPageRead DEF InsertPage
  <2> QED
    BY <2>2, <2>3
<1>5. CASE RecoverFreeing
  <2>1. mPageList # <<>>
    BY <1>5 DEF RecoverFreeing, Inv, ControlInv, MoveInv, FreeingPages
  <2>2. Back \in Sector /\ mFreePageList \in Seq(Sector)
    BY <2>1, OrderTypes
  <2>3. CASE mState[Back] = "ACTIVE"
    <3>1. Free' \subseteq Free \cup {Back}
      BY <1>5, <2>2, <2>3, AppendElements, ListElements DEF RecoverFreeing
    <3> QED
      BY <1>5, <2>2, <2>3, <3>1, FreedPageRead, OrderTypes DEF RecoverFreeing, ErasePage, HasSeq
  <2>4. CASE mState[Back] # "ACTIVE"
    BY <1>5, <2>4, SameRead DEF RecoverFreeing, pageVars, Free
  <2> QED
    BY <2>3, <2>4
<1>6. CASE EraseCorrupt
  <2>1. Head(mFreePageList) \in Sector /\ Free' = Free /\ pc = "activate"
    BY <1>6, OrderTypes DEF EraseCorrupt, Free
  <2> QED
    BY <1>6, <2>1, FreedPageRead, OrderTypes DEF EraseCorrupt, ErasePage, HasSeq
<1>7. CASE ActivatePage
  <2>1. Free' \subseteq Free /\ mState' = mState
    BY <1>7, OrderTypes, TailOnce, ListElements DEF ActivatePage, PagesListed
  <2>2. pc' = "copy" => Booting'
    BY <1>7 DEF ActivatePage
  <2>3. pc' \in {"idle", "copy", "rewrite", "freeing"}
    BY <1>7 DEF ActivatePage
  <2> QED
    BY <2>1, <2>2, <2>3 DEF ReadInv, FreeUnread, FreedRead
<1>8. CASE MarkFreeing
  <2>1. erasedPage \in InUse
    BY <1>8 DEF MarkFreeing, Inv, ControlInv, MoveInv
  <2>2. CASE mState[erasedPage] \in {"FULL", "ACTIVE"}
    BY <1>8, <2>1, <2>2, UsedPageRead DEF MarkFreeing, AlterPageState, HasSeq
  <2>3. CASE mState[erasedPage] \notin {"FULL", "ACTIVE"}
    BY <1>8, <2>3, SameRead DEF MarkFreeing, pageVars, Free, Respond
  <2> QED
    BY <2>2, <2>3
<1>9. CASE CopyInit
  <2>1. mPageList # <<>>
    BY <1>9 DEF CopyInit, Inv, ControlInv, MoveInv
  <2> QED
    BY <1>9, <2>1, OrderTypes, UsedPageRead DEF CopyInit, Initialize, HasSeq
<1>10. CASE FreePage
  <2>1. erasedPage \in Sector /\ mFreePageList \in Seq(Sector)
    BY <1>10, OrderTypes DEF FreePage, Inv, ControlInv, MoveInv
  <2>2. Free' \subseteq Free \cup {erasedPage}
    BY <1>10, <2>1, AppendElements, ListElements DEF FreePage
  <2> QED
    BY <1>10, <2>1, <2>2, FreedPageRead, OrderTypes DEF FreePage, ErasePage, HasSeq
<1> QED
  BY <1>1, <1>2, <1>3, <1>4, <1>5, <1>6, <1>7, <1>8, <1>9, <1>10 DEF Manage, Load, Move

\* The steps of the storage, power failures and flash errors.
LEMMA NextRead ==
  ASSUME Inv, PagesListed, ReadInv, [Next]_vars
  PROVE  ReadInv'
<1> USE DEF managerVars, localVars
<1>1. CASE Manage
  BY <1>1, ManageRead
<1>2. CASE \/ Begin \/ FindForSet \/ FindForErase \/ TryWrite \/ WriteData \/ WriteState
           \/ EraseFound \/ EraseOfNamespace \/ Return
  BY <1>2, SameRead DEF Begin, FindForSet, FindForErase, TryWrite, WriteData, WriteState,
     EraseFound, EraseOfNamespace, Return, pageVars, objectVars, WriteEntryData, WriteEntryState,
     EraseEntry, Free, Respond
<1>3. CASE InitPage
  <2>1. mPageList # <<>>
    BY <1>3 DEF InitPage, Inv, ControlInv, MoveInv
  <2> QED
    BY <1>3, <2>1, OrderTypes, UsedPageRead DEF InitPage, Initialize, HasSeq
<1>4. CASE MarkFull
  <2>1. mPageList # <<>>
    BY <1>4 DEF MarkFull, Inv, ControlInv, MoveInv
  <2>2. CASE mState[Back] = "ACTIVE"
    BY <1>4, <2>1, <2>2, OrderTypes, UsedPageRead DEF MarkFull, AlterPageState, HasSeq
  <2>3. CASE mState[Back] # "ACTIVE"
    BY <1>4, <2>3, SameRead DEF MarkFull, pageVars, Free, Respond
  <2> QED
    BY <2>2, <2>3
<1>5. CASE Crash \/ Reinitialize
  BY <1>5 DEF Crash, Reinitialize, StartLoading, ReadInv, FreeUnread, FreedRead, Free
<1>6. CASE FlashError
  <2>1. \E p : mState' = [mState EXCEPT ![p] = "INVALID"]
    BY <1>6 DEF FlashError
  <2>2. \A q \in Sector : mState'[q] \in {mState[q], "INVALID"}
    BY <2>1, OrderTypes
  <2>3. Free' = Free /\ pc' \in {"insert", "dup", "failed", "return"}
    BY <1>6 DEF FlashError, Free, Fail, Respond
  <2> QED
    BY <2>2, <2>3, OrderTypes DEF ReadInv, FreeUnread, FreedRead, HasSeq
<1>7. CASE UNCHANGED vars
  BY <1>7, SameRead DEF vars, pageVars, Free
<1> QED
  BY <1>1, <1>2, <1>3, <1>4, <1>5, <1>6, <1>7 DEF Next, Serve


-----------------------------------------------------------------------------
(* What a step of the storage leaves where it is. *)

\* A page whose items can be read no longer.
PageLost == \E p \in Sector : HasSeq(mState[p]) /\ ~HasSeq(mState'[p])

\* The pages stay in their order, or one of them is lost.
OrderKept ==
  \/ mPageList' = mPageList
  \/ mFreePageList # <<>> /\ mPageList' = Append(mPageList, Head(mFreePageList))
  \/ PageLost

\* What is found in an entry does not change.
EntriesKept ==
  \A p \in Sector : \A i \in Scanned(p) :
    entryData'[p][i] = entryData[p][i] \/ i \notin Scanned(p)'

\* IsInjective load() has completed, the list only grows at its end until a page is freed.
LEMMA NextOrder ==
  ASSUME Inv, PagesListed, ReadInv, ~Booting, Next, pc' # "load"
  PROVE  OrderKept /\ ~Booting'
<1> USE DEF managerVars, localVars, OrderKept
<1>0. pc \notin LoadPC \ {"failed"}
  BY DEF Inv, ControlInv, PhaseInv
<1>1. CASE Manage
  <2>1. CASE Load
    BY <1>0, <2>1 DEF Load, LoadSector, RepairHalfWritten, RepairDuplicate, RepairDone, InsertPage,
       Settle, EraseOldVersion, RecoverFreeing, NothingFreeing, CheckFreePages
  <2>2. CASE ActivatePage
    BY <2>2 DEF ActivatePage
  <2>3. CASE FreePage
    <3>1. erasedPage \in Sector /\ HasSeq(mState[erasedPage])
      BY <2>3, OrderTypes DEF FreePage, Inv, ControlInv, MoveInv, ReadInv, FreedRead
    <3>2. ~HasSeq(mState'[erasedPage])
      BY <2>3, <3>1, OrderTypes DEF FreePage, ErasePage, HasSeq
    <3> QED
      BY <2>3, <3>1, <3>2 DEF FreePage, PageLost
  <2>4. CASE \/ RequestNewPage \/ EraseCorrupt \/ ActivateNothing \/ MarkFreeing
             \/ StartCopy \/ CopyInit \/ CopyData \/ CopyState
    BY <2>4 DEF RequestNewPage, EraseCorrupt, ActivateNothing, MarkFreeing,
       StartCopy, CopyInit, CopyData, CopyState
  <2> QED
    BY <1>1, <2>1, <2>2, <2>3, <2>4 DEF Manage, Move
<1>2. CASE Begin \/ Serve
  BY <1>2 DEF Begin, Serve, FindForSet, FindForErase, TryWrite, InitPage, WriteData, WriteState,
     MarkFull, EraseFound, EraseOfNamespace, Return
<1>3. CASE Crash \/ Reinitialize
  BY <1>3 DEF Crash, Reinitialize, StartLoading
<1>4. CASE FlashError
  BY <1>4 DEF FlashError
<1> QED
  BY <1>1, <1>2, <1>3, <1>4 DEF Next

\* What the steps below need of the types.
LEMMA ScannedTypes ==
  ASSUME Inv
  PROVE  /\ entryTable \in [Sector -> [Index -> EntryState]]
         /\ entryData \in [Sector -> [Index -> Item \cup {Blank, Garbage}]]
         /\ mNextFreeEntry \in [Sector -> Nat]
         /\ \A p \in Sector : \A i \in Scanned(p) :
              /\ i \in Index /\ entryTable[p][i] = "WRITTEN" /\ i < mNextFreeEntry[p]
              /\ i \in Nat
BY EntryNat DEF Inv, TypeOK, PageTypeOK, Scanned, Written

\* Steps that change no data.
LEMMA SameKept == ASSUME entryData' = entryData PROVE EntriesKept
BY DEF EntriesKept

\* An entry is erased, with its state.
LEMMA EraseEntryKept ==
  ASSUME Inv, NEW p, NEW i, EraseEntry(p, i)
  PROVE  EntriesKept
<1> SUFFICES ASSUME NEW q \in Sector, NEW j \in Scanned(q), entryData'[q][j] # entryData[q][j]
             PROVE  j \notin Scanned(q)'
  BY DEF EntriesKept
<1>1. q = p /\ j = i
  BY ScannedTypes DEF EraseEntry
<1>2. entryTable'[q][j] = "ERASED"
  BY <1>1, ScannedTypes DEF EraseEntry
<1> QED
  BY <1>2 DEF Scanned, Written

\* A sector is erased.
LEMMA SectorErasedKept ==
  ASSUME Inv, NEW p, NEW outcome, SectorErased(p, outcome)
  PROVE  EntriesKept
<1> SUFFICES ASSUME NEW q \in Sector, NEW j \in Scanned(q), entryData'[q][j] # entryData[q][j]
             PROVE  j \notin Scanned(q)'
  BY DEF EntriesKept
<1>1. q = p
  BY ScannedTypes DEF SectorErased
<1>2. entryTable'[q][j] = "EMPTY"
  BY <1>1, ScannedTypes DEF SectorErased
<1> QED
  BY <1>2 DEF Scanned, Written

\* Data is written behind the entries that are scanned.
LEMMA DataKept ==
  ASSUME Inv, NEW p, NEW data,
         entryData' = [entryData EXCEPT ![p][mNextFreeEntry[p]] = data]
  PROVE  EntriesKept
<1> SUFFICES ASSUME NEW q \in Sector, NEW j \in Scanned(q)
             PROVE  entryData'[q][j] = entryData[q][j]
  BY DEF EntriesKept
<1>1. j \in Index /\ j < mNextFreeEntry[q] /\ j \in Nat /\ mNextFreeEntry[q] \in Nat
  BY ScannedTypes
<1>2. CASE q = p
  <2>1. j # mNextFreeEntry[p]
    BY <1>1, <1>2
  <2> QED
    BY <1>2, <2>1, ScannedTypes
<1>3. CASE q # p
  BY <1>3, ScannedTypes
<1> QED
  BY <1>2, <1>3

\* What was found in an entry is found there until it is erased.
LEMMA NextKept ==
  ASSUME Inv, ~Booting, Next, pc' # "load"
  PROVE  EntriesKept
<1> USE DEF flashVars, pageVars
<1>0. pc \notin LoadPC \ {"failed"}
  BY DEF Inv, ControlInv, PhaseInv
<1>1. CASE Manage
  <2>1. CASE Load
    BY <1>0, <2>1 DEF Load, LoadSector, RepairHalfWritten, RepairDuplicate, RepairDone, InsertPage,
       Settle, EraseOldVersion, RecoverFreeing, NothingFreeing, CheckFreePages
  <2>2. CASE EraseCorrupt
    BY <2>2, SectorErasedKept DEF EraseCorrupt, ErasePage
  <2>3. CASE FreePage
    BY <2>3, SectorErasedKept DEF FreePage, ErasePage
  <2>4. CASE CopyData
    BY <2>4, SameKept, DataKept DEF CopyData, WriteEntryData
  <2>5. CASE \/ RequestNewPage \/ ActivatePage \/ ActivateNothing \/ MarkFreeing
             \/ StartCopy \/ CopyInit \/ CopyState
    BY <2>5, SameKept DEF RequestNewPage, ActivatePage, ActivateNothing, MarkFreeing, AlterPageState,
       StartCopy, CopyInit, Initialize, CopyState, WriteEntryState
  <2> QED
    BY <1>1, <2>1, <2>2, <2>3, <2>4, <2>5 DEF Manage, Move
<1>2. CASE Begin \/ FindForSet \/ FindForErase \/ TryWrite \/ InitPage \/ WriteState \/ MarkFull \/ Return
  BY <1>2, SameKept DEF Begin, FindForSet, FindForErase, TryWrite, InitPage, Initialize, WriteState,
     WriteEntryState, MarkFull, AlterPageState, Return
<1>3. CASE WriteData
  BY <1>3, DataKept DEF WriteData, WriteEntryData
<1>4. CASE EraseFound
  BY <1>4, SameKept, EraseEntryKept DEF EraseFound
<1>5. CASE EraseOfNamespace
  BY <1>5, SameKept, EraseEntryKept DEF EraseOfNamespace
<1>6. CASE Crash \/ Reinitialize
  BY <1>6 DEF Crash, Reinitialize, StartLoading
<1>7. CASE FlashError
  <2>1. flashVars' = flashVars \/ HalfDone
    BY <1>7 DEF FlashError
  <2> QED
    BY <2>1, SameKept, SectorErasedKept, DataKept DEF HalfDone
<1> QED
  BY <1>1, <1>2, <1>3, <1>4, <1>5, <1>6, <1>7 DEF Next, Serve


-----------------------------------------------------------------------------
(* nextEntry(). *)

(***************************************************************************)
(* Entry i of page q is still ahead of the iterator: on a later page of    *)
(* the list, or on its page and not before its index.                      *)
(***************************************************************************)
Ahead(it, q, i) ==
  \E m, n \in DOMAIN mPageList :
    mPageList[m] = it.page /\ mPageList[n] = q /\ (m < n \/ (m = n /\ i >= it.entryIndex))

\* An entry the iterator would report.
Reportable(it, q, i) == HasSeq(mState[q]) /\ i \in Scanned(q) /\ Matches(entryData[q][i], it.sought)

\* The pages an iterator goes through are the rest of the list.
LEMMA PagesFromProperty ==
  ASSUME Inv, PagesListed, NEW m \in DOMAIN mPageList
  PROVE  LET pages == PagesFrom(mPageList[m])
         IN  /\ DOMAIN pages = 1 .. Len(mPageList) - m + 1
             /\ \A n \in DOMAIN pages : pages[n] = mPageList[m + n - 1]
<1> DEFINE p == mPageList[m]
           c == CHOOSE n \in DOMAIN mPageList : mPageList[n] = p
<1>1. mPageList \in Seq(Sector) /\ DOMAIN mPageList = 1 .. Len(mPageList) /\ Len(mPageList) \in Nat
  BY OrderTypes
<1>2. Contains(mPageList, p)
  BY <1>1 DEF Contains
<1>3. c \in DOMAIN mPageList /\ mPageList[c] = mPageList[m]
  OBVIOUS
<1>4. c = m
  BY <1>3 DEF PagesListed, IsInjective
<1>5. PagesFrom(p) = SubSeq(mPageList, m, Len(mPageList))
  BY <1>2, <1>4 DEF PagesFrom
<1>6. m \in 1 .. Len(mPageList)
  BY <1>1
<1> QED
  BY <1>1, <1>5, <1>6

(***************************************************************************)
(* nextEntry() returns the first entry that is ahead of the iterator, and  *)
(* leaves no other behind; at the end of the iteration there is none.      *)
(***************************************************************************)
LEMMA NextEntryProperty ==
  ASSUME Inv, PagesListed, NEW it, it.page \in InUse, it.entryIndex \in Nat
  PROVE  LET next == NextEntry(it)
             e    == next.entryIndex - 1
         IN  /\ next = NoIterator =>
                  \A q \in Sector : \A i \in Scanned(q) : ~ (Reportable(it, q, i) /\ Ahead(it, q, i))
             /\ next # NoIterator =>
                  /\ next.page \in InUse /\ next.entryIndex \in Nat /\ next.sought = it.sought
                  /\ Reportable(it, next.page, e) /\ Ahead(it, next.page, e)
                  /\ ~Ahead(next, next.page, e)
                  /\ \A q \in Sector : \A i \in Scanned(q) :
                       /\ Ahead(next, q, i) => Ahead(it, q, i)
                       /\ Reportable(it, q, i) /\ Ahead(it, q, i) =>
                            Ahead(next, q, i) \/ (q = next.page /\ i = e)
<1> DEFINE next == NextEntry(it)
           pages == PagesFrom(it.page)
           with  == {n \in DOMAIN pages : EntriesFrom(it, pages[n]) # {}}
<1>1. mPageList \in Seq(Sector) /\ DOMAIN mPageList = 1 .. Len(mPageList) /\ Len(mPageList) \in Nat
  BY OrderTypes
<1>2. PICK m \in DOMAIN mPageList : mPageList[m] = it.page
  BY DEF InUse
<1>3. /\ m \in Nat /\ m >= 1 /\ m <= Len(mPageList)
      /\ DOMAIN pages = 1 .. Len(mPageList) - m + 1
      /\ \A n \in DOMAIN pages : pages[n] = mPageList[m + n - 1]
  BY <1>1, <1>2, PagesFromProperty
<1>4. with \in SUBSET Nat
  BY <1>3
<1>5. \A n1, n2 \in DOMAIN mPageList : mPageList[n1] = mPageList[n2] => n1 = n2
  BY DEF PagesListed, IsInjective
<1> HIDE DEF pages
<1>6. \A n \in DOMAIN pages : EntriesFrom(it, pages[n]) =
        {i \in Scanned(pages[n]) : Reportable(it, pages[n], i) /\ (n = 1 => i >= it.entryIndex)}
  <2> SUFFICES ASSUME NEW n \in DOMAIN pages
               PROVE  EntriesFrom(it, pages[n]) =
                        {i \in Scanned(pages[n]) : Reportable(it, pages[n], i) /\ (n = 1 => i >= it.entryIndex)}
    OBVIOUS
  <2>1. pages[n] = it.page <=> n = 1
    BY <1>1, <1>2, <1>3, <1>5
  <2> QED
    BY <2>1 DEF EntriesFrom, Reportable
\* An entry is ahead of the iterator if it is on one of these pages.
<1>7. \A q \in Sector : \A i \in Scanned(q) :
        Reportable(it, q, i) =>
          (Ahead(it, q, i) <=> \E n \in DOMAIN pages : pages[n] = q /\ i \in EntriesFrom(it, q))
  <2> SUFFICES ASSUME NEW q \in Sector, NEW i \in Scanned(q), Reportable(it, q, i)
               PROVE  Ahead(it, q, i) <=> \E n \in DOMAIN pages : pages[n] = q /\ i \in EntriesFrom(it, q)
    OBVIOUS
  <2>1. ASSUME Ahead(it, q, i)
        PROVE  \E n \in DOMAIN pages : pages[n] = q /\ i \in EntriesFrom(it, q)
    <3>1. PICK n \in DOMAIN mPageList :
            mPageList[n] = q /\ (m < n \/ (m = n /\ i >= it.entryIndex))
      BY <1>2, <1>5, <2>1 DEF Ahead
    <3>2. n - m + 1 \in DOMAIN pages /\ pages[n - m + 1] = q
      BY <1>1, <1>3, <3>1
    <3>3. n - m + 1 = 1 => i >= it.entryIndex
      BY <1>1, <1>3, <3>1
    <3> QED
      BY <1>6, <3>2, <3>3
  <2>2. ASSUME NEW n \in DOMAIN pages, pages[n] = q, i \in EntriesFrom(it, q)
        PROVE  Ahead(it, q, i)
    <3>1. n = 1 => i >= it.entryIndex
      BY <1>6, <2>2
    <3>2. m + n - 1 \in DOMAIN mPageList /\ mPageList[m + n - 1] = q /\ m <= m + n - 1
      BY <1>1, <1>3, <2>2
    <3>3. m < m + n - 1 \/ (n = 1 /\ m = m + n - 1)
      BY <1>3
    <3> QED
      BY <1>2, <3>1, <3>2, <3>3 DEF Ahead
  <2> QED
    BY <2>1, <2>2
<1>8. CASE with = {}
  <2>1. next = NoIterator
    BY <1>8 DEF NextEntry, pages
  <2> QED
    BY <1>7, <1>8, <2>1
<1>9. CASE with # {}
  <2> DEFINE k == Min(with)
             p == pages[k]
             e == Min(EntriesFrom(it, p))
  <2>1. k \in with /\ \A n \in with : k <= n
    <3> HIDE DEF with
    <3> QED
      BY <1>4, <1>9, MinProperty
  <2>2. next = [page |-> p, entryIndex |-> e + 1, sought |-> it.sought]
    BY <1>9 DEF NextEntry, pages
  <2> HIDE DEF with, k
  <2>3. k \in DOMAIN pages /\ EntriesFrom(it, p) # {}
    BY <2>1 DEF with
  <2>4. EntriesFrom(it, p) \in SUBSET Nat /\ EntriesFrom(it, p) \subseteq Scanned(p)
    BY <1>6, <2>3, EntryNat DEF Scanned, Written
  <2>5. e \in EntriesFrom(it, p) /\ \A i \in EntriesFrom(it, p) : e <= i
    BY <2>3, <2>4, MinProperty
  <2> HIDE DEF e
  <2>6. e \in Nat /\ e \in Scanned(p) /\ Reportable(it, p, e) /\ p \in Sector /\ p \in InUse
    BY <1>1, <1>3, <1>6, <2>3, <2>4, <2>5 DEF InUse
  <2>7. Ahead(it, p, e)
    BY <1>7, <2>3, <2>5, <2>6
  <2>8. next # NoIterator
    BY <2>2, <2>6, SectorNat DEF NoIterator
  <2>9. next.page = p /\ next.entryIndex = e + 1 /\ next.sought = it.sought
    BY <2>2
  <2> HIDE DEF next
  \* The position of the page on the list.
  <2> DEFINE at == m + k - 1
  <2>10. at \in DOMAIN mPageList /\ mPageList[at] = p /\ m <= at /\ at \in Nat /\ k \in Nat /\ k >= 1
    BY <1>1, <1>3, <2>3
  <2> HIDE DEF p
  <2>11. ~Ahead(next, p, e)
    <3>1. \A m1, n1 \in DOMAIN mPageList :
            mPageList[m1] = p /\ mPageList[n1] = p => m1 = n1 /\ m1 \in Nat
      BY <1>1, <1>5
    <3>2. ~ (e >= e + 1)
      BY <2>6
    <3> QED
      BY <1>1, <2>9, <3>1, <3>2 DEF Ahead
  <2>12. ASSUME NEW q \in Sector, NEW i \in Scanned(q), Ahead(next, q, i)
         PROVE  Ahead(it, q, i)
    <3>1. PICK n \in DOMAIN mPageList : mPageList[n] = q /\ (at < n \/ (at = n /\ i >= e + 1))
      BY <1>5, <2>9, <2>10, <2>12 DEF Ahead
    <3>2. CASE m < n
      BY <1>2, <3>1, <3>2 DEF Ahead
    <3>3. CASE ~ (m < n)
      <4>1. m = n /\ at = n /\ i >= e + 1 /\ k = 1
        BY <1>1, <1>3, <2>10, <3>1, <3>3
      <4>2. e >= it.entryIndex
        BY <1>6, <2>3, <2>5, <4>1 DEF p
      <4>3. i \in Nat
        BY EntryNat DEF Scanned, Written
      <4>4. i >= it.entryIndex
        BY <2>6, <4>1, <4>2, <4>3
      <4> QED
        BY <1>2, <3>1, <4>1, <4>4 DEF Ahead
    <3> QED
      BY <3>2, <3>3
  <2>13. ASSUME NEW q \in Sector, NEW i \in Scanned(q), Reportable(it, q, i), Ahead(it, q, i)
         PROVE  Ahead(next, q, i) \/ (q = p /\ i = e)
    <3>1. PICK n \in DOMAIN pages : pages[n] = q /\ i \in EntriesFrom(it, q)
      BY <1>7, <2>13
    <3>2. n \in with
      BY <3>1 DEF with
    <3>3. k <= n /\ n \in Nat
      BY <1>3, <2>1, <3>1, <3>2
    <3>4. m + n - 1 \in DOMAIN mPageList /\ mPageList[m + n - 1] = q
      BY <1>1, <1>3, <3>1
    <3>5. CASE k < n
      <4>1. at < m + n - 1
        BY <1>3, <2>10, <3>3, <3>5
      <4> QED
        BY <2>9, <2>10, <3>4, <4>1 DEF Ahead
    <3>6. CASE k = n
      <4>1. q = p /\ e <= i
        BY <2>5, <3>1, <3>6 DEF p
      <4>2. i \in Nat
        BY EntryNat DEF Scanned, Written
      <4>3. i = e \/ i >= e + 1
        BY <2>6, <4>1, <4>2
      <4> QED
        BY <2>9, <2>10, <4>1, <4>3 DEF Ahead
    <3> QED
      BY <2>10, <3>3, <3>5, <3>6
  <2>14. next.entryIndex - 1 = e /\ next.entryIndex \in Nat
    BY <2>6, <2>9
  <2> QED
    BY <2>6, <2>7, <2>8, <2>9, <2>11, <2>12, <2>13, <2>14 DEF p, next
<1> QED
  BY <1>8, <1>9


-----------------------------------------------------------------------------
(* The iteration. *)

(***************************************************************************)
(* The strengthening: every item that has stayed where it was is in one    *)
(* place, is of the kind the iterator is opened for, and is ahead of the   *)
(* iterator or has been reported, not both (Split); the iterator is on a   *)
(* page of the list (OnList).                                              *)
(***************************************************************************)
OnList == steady # {} => iterator.page \in InUse /\ iterator.entryIndex \in Nat

Split(it, kept, done) ==
  \A k \in kept : \E q \in Sector : \E i \in Scanned(q) :
    /\ Places(k) = {<<q, i>>}
    /\ Reportable(it, q, i)
    /\ k \in done <=> ~Ahead(it, q, i)

IterationInv ==
  /\ reported \subseteq steady
  /\ iterator # NoIterator => ~Booting /\ OnList /\ Split(iterator, steady, reported)

\* What is found in an entry that is scanned has its place there.
LEMMA PlaceOf ==
  ASSUME Inv, NEW q \in Sector, NEW i \in Scanned(q), HasSeq(mState[q])
  PROVE  <<q, i>> \in Places(entryData[q][i].key)
<1>1. i \in Index
  BY DEF Scanned, Written
<1> QED
  BY <1>1 DEF Places

\* A page with items to be read is on the list between requests.
LEMMA ReadPages ==
  ASSUME Inv, PagesListed, ReadInv, pc \notin {"load", "repair", "insert"},
         NEW q \in Sector, HasSeq(mState[q])
  PROVE  q \in InUse
<1>1. loadIndex = PageCount
  BY DEF Inv, ControlInv, PhaseInv
<1>2. q < PageCount
  BY PageCountAssumption DEF Sector
<1> QED
  BY <1>1, <1>2 DEF PagesListed, ReadInv, FreeUnread

(***************************************************************************)
(* One call of nextEntry(), when it is known which items are ahead of the  *)
(* iterator.                                                               *)
(***************************************************************************)
LEMMA NextSplit ==
  ASSUME Inv, PagesListed, NEW it, it.page \in InUse, it.entryIndex \in Nat,
         NEW kept, NEW done, Split(it, kept, done)
  PROVE  LET next == NextEntry(it)
         IN  /\ next = NoIterator => kept \subseteq done
             /\ next # NoIterator =>
                  /\ next.page \in InUse /\ next.entryIndex \in Nat
                  /\ EntryInfo(next) \notin done \cap kept
                  /\ Split(next, kept, (done \cup {EntryInfo(next)}) \cap kept)
<1> DEFINE next == NextEntry(it)
           e == next.entryIndex - 1
<1>1. /\ next = NoIterator =>
           \A q \in Sector : \A i \in Scanned(q) : ~ (Reportable(it, q, i) /\ Ahead(it, q, i))
      /\ next # NoIterator =>
           /\ next.page \in InUse /\ next.entryIndex \in Nat /\ next.sought = it.sought
           /\ Reportable(it, next.page, e) /\ Ahead(it, next.page, e)
           /\ ~Ahead(next, next.page, e)
           /\ \A q \in Sector : \A i \in Scanned(q) :
                /\ Ahead(next, q, i) => Ahead(it, q, i)
                /\ Reportable(it, q, i) /\ Ahead(it, q, i) =>
                     Ahead(next, q, i) \/ (q = next.page /\ i = e)
  BY NextEntryProperty
<1> HIDE DEF next
<1>2. ASSUME next = NoIterator
      PROVE  kept \subseteq done
  BY <1>1, <1>2 DEF Split
<1>3. ASSUME next # NoIterator
      PROVE  /\ next.page \in InUse /\ next.entryIndex \in Nat
             /\ EntryInfo(next) \notin done \cap kept
             /\ Split(next, kept, (done \cup {EntryInfo(next)}) \cap kept)
  <2>1. next.page \in Sector /\ e \in Scanned(next.page) /\ HasSeq(mState[next.page])
    BY <1>1, <1>3, OrderTypes DEF Reportable
  <2>2. <<next.page, e>> \in Places(EntryInfo(next))
    BY <2>1, PlaceOf DEF EntryInfo
  <2>3. ASSUME NEW k \in kept
        PROVE  /\ k = EntryInfo(next) => k \notin done
               /\ \E q \in Sector : \E i \in Scanned(q) :
                    /\ Places(k) = {<<q, i>>} /\ Reportable(next, q, i)
                    /\ k \in done \cup {EntryInfo(next)} <=> ~Ahead(next, q, i)
    <3>1. PICK q \in Sector : \E i \in Scanned(q) :
            /\ Places(k) = {<<q, i>>} /\ Reportable(it, q, i)
            /\ k \in done <=> ~Ahead(it, q, i)
      BY <2>3 DEF Split
    <3>2. PICK i \in Scanned(q) :
            /\ Places(k) = {<<q, i>>} /\ Reportable(it, q, i)
            /\ k \in done <=> ~Ahead(it, q, i)
      BY <3>1
    <3>3. Reportable(next, q, i)
      BY <1>1, <1>3, <3>2 DEF Reportable
    <3>4. k = EntryInfo(next) <=> q = next.page /\ i = e
      <4>1. ASSUME k = EntryInfo(next)
            PROVE  q = next.page /\ i = e
        BY <2>2, <3>2, <4>1
      <4>2. ASSUME q = next.page, i = e
            PROVE  k = EntryInfo(next)
        <5>1. <<q, i>> \in Places(k)
          BY <3>2
        <5> QED
          BY <4>2, <5>1 DEF Places, EntryInfo
      <4> QED
        BY <4>1, <4>2
    <3>5. k = EntryInfo(next) => k \notin done /\ ~Ahead(next, q, i)
      BY <1>1, <1>3, <3>2, <3>4
    <3>6. k # EntryInfo(next) => (k \in done <=> ~Ahead(next, q, i))
      BY <1>1, <1>3, <3>2, <3>4
    <3> QED
      BY <3>2, <3>3, <3>5, <3>6
  <2>4. Split(next, kept, (done \cup {EntryInfo(next)}) \cap kept)
    BY <2>3 DEF Split
  <2> QED
    BY <1>1, <1>3, <2>3, <2>4
<1> QED
  BY <1>2, <1>3 DEF next

\* A call of the API changes the iterator only.
LEMMA SameStorage ==
  ASSUME UNCHANGED vars, ~Booting, reported' \subseteq steady',
         iterator'.page \in InUse, iterator'.entryIndex \in Nat,
         Split(iterator', steady', reported')
  PROVE  IterationInv'
<1> USE DEF vars, pageVars, managerVars
<1>1. /\ \A q : Scanned(q)' = Scanned(q)
      /\ InUse' = InUse /\ Booting' = Booting
  BY DEF Scanned, Written, InUse, HasSeq
<1>2. \A k : Places(k)' = Places(k)
  BY <1>1 DEF Places
<1>3. OnList'
  BY <1>1 DEF OnList
<1>4. Split(iterator, steady, reported)'
  <2>1. \A q, i : (Reportable(iterator, q, i))' <=> Reportable(iterator', q, i)
    BY <1>1 DEF Reportable, Matches
  <2>2. \A q, i : (Ahead(iterator, q, i))' <=> Ahead(iterator', q, i)
    BY DEF Ahead
  <2> QED
    BY <1>1, <1>2, <2>1, <2>2 DEF Split
<1> QED
  BY <1>1, <1>3, <1>4 DEF IterationInv

\* An iterator is opened on the first page.
LEMMA EntryFindIteration ==
  ASSUME Inv, PagesListed, ReadInv, EntryFind
  PROVE  IterationInv'
<1>1. PICK c \in Criteria :
        LET it == NextEntry([page |-> Head(mPageList), entryIndex |-> 0, sought |-> c])
        IN  IF it = NoIterator THEN Forget
            ELSE /\ iterator' = it
                 /\ steady' = Single(c)
                 /\ reported' = {EntryInfo(it)} \cap steady'
  BY DEF EntryFind
<1> DEFINE first == [page |-> Head(mPageList), entryIndex |-> 0, sought |-> c]
           next == NextEntry(first)
<1>2. /\ pc = "idle" /\ mPageList # <<>> /\ ~Booting /\ UNCHANGED vars
      /\ mPageList \in Seq(Sector) /\ DOMAIN mPageList = 1 .. Len(mPageList) /\ Len(mPageList) \in Nat
  BY OrderTypes DEF EntryFind, Inv, ControlInv, PhaseInv, MoveInv
<1>3. /\ first.page = mPageList[1] /\ first.page \in InUse /\ 1 \in DOMAIN mPageList
      /\ first.entryIndex = 0 /\ first.sought = c
  BY <1>2 DEF InUse
<1> HIDE DEF first
<1>4. Split(first, Single(c), {})
  <2> SUFFICES ASSUME NEW k \in Single(c)
               PROVE  \E q \in Sector : \E i \in Scanned(q) :
                        /\ Places(k) = {<<q, i>>} /\ Reportable(first, q, i) /\ Ahead(first, q, i)
    BY DEF Split
  <2>1. PICK place \in Places(k) :
          Places(k) = {place} /\ Matches(entryData[place[1]][place[2]], c)
    BY DEF Single
  <2>2. PICK q \in Sector, i \in Index : place = <<q, i>>
    BY <2>1 DEF Places
  <2>3. HasSeq(mState[q]) /\ i \in Scanned(q) /\ Places(k) = {<<q, i>>} /\ Reportable(first, q, i)
    BY <1>3, <2>1, <2>2 DEF Places, Reportable
  <2>4. PICK n \in DOMAIN mPageList : mPageList[n] = q
    BY <1>2, <2>3, ReadPages DEF InUse
  <2>5. i >= 0 /\ (1 < n \/ 1 = n)
    BY <1>2, EntryNat
  <2> QED
    BY <1>3, <2>3, <2>4, <2>5 DEF Ahead
<1>5. CASE next = NoIterator
  BY <1>1, <1>5 DEF first, Forget, IterationInv
<1>6. CASE next # NoIterator
  <2>1. iterator' = next /\ steady' = Single(c) /\ reported' = {EntryInfo(next)} \cap steady'
    BY <1>1, <1>6 DEF first
  <2>2. /\ next.page \in InUse /\ next.entryIndex \in Nat
        /\ Split(next, Single(c), ({} \cup {EntryInfo(next)}) \cap Single(c))
    BY <1>3, <1>4, <1>6, NextSplit
  <2> HIDE DEF next
  <2>3. reported' = ({} \cup {EntryInfo(next)}) \cap Single(c)
    BY <2>1
  <2> QED
    BY <1>2, <2>1, <2>2, <2>3, SameStorage
<1> QED
  BY <1>5, <1>6

\* The iterator goes on to the next entry.
LEMMA EntryNextIteration ==
  ASSUME Inv, PagesListed, IterationInv, EntryNext
  PROVE  /\ IterationInv'
         /\ IF iterator' = NoIterator THEN steady \subseteq reported
            ELSE EntryInfo(iterator)' \notin reported
<1> DEFINE next == NextEntry(iterator)
<1>1. /\ UNCHANGED vars /\ iterator # NoIterator /\ ~Booting /\ OnList /\ Split(iterator, steady, reported)
      /\ reported \subseteq steady
      /\ IF next = NoIterator THEN Forget
         ELSE /\ iterator' = next
              /\ reported' = reported \cup ({EntryInfo(next)} \cap steady)
              /\ steady' = steady
  BY DEF EntryNext, IterationInv
<1>2. CASE steady = {}
  <2>1. reported' = {} /\ steady' = {} /\ reported = {}
    BY <1>1, <1>2 DEF Forget
  <2>2. Booting' = Booting
    BY <1>1 DEF vars
  <2> QED
    BY <1>1, <1>2, <2>1, <2>2 DEF IterationInv, OnList, Split
<1>3. CASE steady # {}
  <2>1. iterator.page \in InUse /\ iterator.entryIndex \in Nat
    BY <1>1, <1>3 DEF OnList
  <2>2. /\ next = NoIterator => steady \subseteq reported
        /\ next # NoIterator =>
             /\ next.page \in InUse /\ next.entryIndex \in Nat
             /\ EntryInfo(next) \notin reported \cap steady
             /\ Split(next, steady, (reported \cup {EntryInfo(next)}) \cap steady)
    BY <1>1, <2>1, NextSplit
  <2> HIDE DEF next
  <2>3. CASE next = NoIterator
    BY <1>1, <2>2, <2>3 DEF Forget, IterationInv
  <2>4. CASE next # NoIterator
    <3>1. iterator' = next /\ steady' = steady /\ reported' \subseteq steady'
      BY <1>1, <2>4
    <3>2. reported' = (reported \cup {EntryInfo(next)}) \cap steady
      BY <1>1, <2>4
    <3>3. IterationInv'
      BY <1>1, <2>2, <2>4, <3>1, <3>2, SameStorage
    <3>4. EntryInfo(iterator)' = EntryInfo(next)
      BY <1>1, <3>1 DEF EntryInfo, vars, pageVars
    <3> QED
      BY <1>1, <2>2, <2>4, <3>1, <3>3, <3>4
  <2> QED
    BY <2>3, <2>4
<1> QED
  BY <1>2, <1>3


\* While the order of the pages is kept, what is ahead stays ahead.
LEMMA SameAhead ==
  ASSUME Inv, PagesListed, iterator' = iterator, iterator.page \in InUse,
         NEW q \in InUse, NEW i,
         \/ mPageList' = mPageList
         \/ mFreePageList # <<>> /\ mPageList' = Append(mPageList, Head(mFreePageList))
  PROVE  /\ Ahead(iterator, q, i)' <=> Ahead(iterator, q, i)
         /\ InUse \subseteq InUse'
<1>1. CASE mPageList' = mPageList
  BY <1>1 DEF Ahead, InUse
<1>2. CASE mFreePageList # <<>> /\ mPageList' = Append(mPageList, Head(mFreePageList))
  <2> DEFINE last == Len(mPageList) + 1
             p == Head(mFreePageList)
  <2>1. /\ mPageList \in Seq(Sector) /\ DOMAIN mPageList = 1 .. Len(mPageList) /\ Len(mPageList) \in Nat
        /\ p \in Sector /\ p \in Free
    <3>1. mFreePageList \in Seq(Sector) /\ mFreePageList # <<>>
      BY <1>2, OrderTypes
    <3> QED
      BY <3>1, OrderTypes DEF Free
  <2>2. mPageList' = Append(mPageList, p)
    BY <1>2
  <2> HIDE DEF p
  <2>3. /\ DOMAIN mPageList' = 1 .. last
        /\ mPageList'[last] = p
        /\ \A n \in DOMAIN mPageList : mPageList'[n] = mPageList[n]
    <3>1. /\ DOMAIN Append(mPageList, p) = 1 .. Len(mPageList) + 1
          /\ Append(mPageList, p)[Len(mPageList) + 1] = p
      BY <2>1
    <3>2. \A n \in 1 .. Len(mPageList) : Append(mPageList, p)[n] = mPageList[n]
      BY <2>1
    <3> QED
      BY <2>1, <2>2, <3>1, <3>2
  <2>4. iterator.page # p /\ q # p
    BY <2>1 DEF PagesListed
  <2>5. \A n \in DOMAIN mPageList' : n \in DOMAIN mPageList \/ n = last
    BY <2>1, <2>3
  <2>6. \A n \in DOMAIN mPageList : n \in DOMAIN mPageList'
    BY <2>1, <2>3
  <2> HIDE DEF last
  <2>7. Ahead(iterator, q, i)' <=> Ahead(iterator, q, i)
    BY <2>3, <2>4, <2>5, <2>6 DEF Ahead
  <2>8. InUse \subseteq InUse'
    BY <2>3, <2>6 DEF InUse
  <2> QED
    BY <2>7, <2>8
<1> QED
  BY <1>1, <1>2

\* A step of the storage, after which the application knows what has stayed.
LEMMA StorageStepIteration ==
  ASSUME Inv, PagesListed, ReadInv, IterationInv, StorageStep
  PROVE  IterationInv'
<1>1. CASE pc' = "load" \/ iterator = NoIterator
  BY <1>1 DEF StorageStep, Forget, IterationInv
<1>2. CASE ~ (pc' = "load" \/ iterator = NoIterator)
  <2>1. /\ Next /\ pc' # "load" /\ iterator # NoIterator /\ iterator' = iterator
        /\ steady' = IF PageLost THEN {} ELSE {k \in steady : Places(k)' = Places(k)}
        /\ reported' = reported \cap steady'
    BY <1>2 DEF StorageStep, PageLost
  <2>2. ~Booting /\ OnList /\ Split(iterator, steady, reported) /\ reported \subseteq steady
    BY <2>1 DEF IterationInv
  <2>3. OrderKept /\ ~Booting' /\ EntriesKept
    BY <2>1, <2>2, NextOrder, NextKept
  <2>4. pc \notin {"load", "repair", "insert"}
    BY <2>2 DEF Inv, ControlInv, PhaseInv
  <2>5. CASE steady' = {}
    BY <2>1, <2>3, <2>5 DEF IterationInv, OnList, Split
  <2>6. CASE steady' # {}
    <3>1. /\ steady' = {k \in steady : Places(k)' = Places(k)}
          /\ \/ mPageList' = mPageList
             \/ mFreePageList # <<>> /\ mPageList' = Append(mPageList, Head(mFreePageList))
      BY <2>1, <2>3, <2>6 DEF OrderKept
    <3>2. iterator.page \in InUse /\ iterator.entryIndex \in Nat
      BY <2>2, <2>6, <3>1 DEF OnList
    <3>3. OnList'
      BY <2>1, <3>1, <3>2, SameAhead DEF OnList
    <3>4. ASSUME NEW k \in steady'
          PROVE  \E q \in Sector : \E i \in Scanned(q)' :
                   /\ Places(k)' = {<<q, i>>}
                   /\ Reportable(iterator, q, i)'
                   /\ k \in reported' <=> ~Ahead(iterator, q, i)'
      <4>1. k \in steady /\ Places(k)' = Places(k)
        BY <3>1, <3>4
      <4>2. PICK q \in Sector : \E i \in Scanned(q) :
              /\ Places(k) = {<<q, i>>} /\ Reportable(iterator, q, i)
              /\ k \in reported <=> ~Ahead(iterator, q, i)
        BY <2>2, <4>1 DEF Split
      <4>3. PICK i \in Scanned(q) :
              /\ Places(k) = {<<q, i>>} /\ Reportable(iterator, q, i)
              /\ k \in reported <=> ~Ahead(iterator, q, i)
        BY <4>2
      <4>4. HasSeq(mState[q]) /\ q \in InUse
        BY <2>4, <4>3, ReadPages DEF Reportable
      <4>5. <<q, i>> \in Places(k)'
        BY <4>1, <4>3
      <4>6. HasSeq(mState'[q]) /\ i \in Scanned(q)'
        BY <4>5 DEF Places, HasSeq
      <4>7. entryData'[q][i] = entryData[q][i]
        BY <2>3, <4>3, <4>6 DEF EntriesKept
      <4>8. Reportable(iterator, q, i)'
        BY <2>1, <4>3, <4>6, <4>7 DEF Reportable, Matches, HasSeq
      <4>9. Ahead(iterator, q, i)' <=> Ahead(iterator, q, i)
        BY <2>1, <3>1, <3>2, <4>4, SameAhead
      <4>10. k \in reported' <=> k \in reported
        BY <2>1, <3>4
      <4> QED
        BY <4>1, <4>3, <4>6, <4>8, <4>9, <4>10
    <3>5. Split(iterator, steady, reported)'
      BY <3>4 DEF Split
    <3> QED
      BY <2>1, <2>3, <3>3, <3>5 DEF IterationInv
  <2> QED
    BY <2>5, <2>6
<1> QED
  BY <1>1, <1>2

\* Under an iterator the storage does what it does without one.
LEMMA StorageUnder ==
  /\ IteratorInit => Init
  /\ [IteratorNext]_allVars => [Next]_vars
BY DEF IteratorInit, IteratorNext, StorageStep, EntryFind, EntryNext, ReleaseIterator, allVars

\* What is proved of the storage holds under an iterator.
LEMMA UnderInv == IteratorSpec => [](Inv /\ PagesListed /\ ReadInv)
<1>1. Init => ReadInv
  BY DEF Init, ReadInv, FreeUnread, FreedRead, Free
<1>2. Inv /\ PagesListed /\ ReadInv /\ [Next]_vars => ReadInv'
  BY NextRead
<1>3. IteratorSpec => Spec
  BY StorageUnder, PTL DEF IteratorSpec, Spec
<1>4. Spec => []ReadInv
  BY <1>1, <1>2, InvHolds, ListsCorrect, PTL DEF Spec
<1> QED
  BY <1>3, <1>4, InvHolds, ListsCorrect, PTL

\* The invariant of the iteration.
LEMMA IterationHolds == IteratorSpec => []IterationInv
<1>1. IteratorInit => IterationInv
  BY DEF IteratorInit, IterationInv
<1>2. Inv /\ PagesListed /\ ReadInv /\ IterationInv /\ [IteratorNext]_allVars => IterationInv'
  <2> SUFFICES ASSUME Inv, PagesListed, ReadInv, IterationInv, [IteratorNext]_allVars
               PROVE  IterationInv'
    OBVIOUS
  <2>1. CASE StorageStep
    BY <2>1, StorageStepIteration
  <2>2. CASE EntryFind
    BY <2>2, EntryFindIteration
  <2>3. CASE EntryNext
    BY <2>3, EntryNextIteration
  <2>4. CASE ReleaseIterator
    BY <2>4 DEF ReleaseIterator, Forget, IterationInv
  <2>5. CASE UNCHANGED allVars
    BY <2>5 DEF allVars, iteratorVars, vars, pageVars, managerVars, IterationInv, OnList, Split,
       Places, Reportable, Ahead, Matches, Scanned, Written, HasSeq, InUse
  <2> QED
    BY <2>1, <2>2, <2>3, <2>4, <2>5 DEF IteratorNext
<1> QED
  BY <1>1, <1>2, UnderInv, PTL DEF IteratorSpec

(***************************************************************************)
(* Whatever requests are served while an iterator is open, and whichever   *)
(* of their flash operations fail, nvs_entry_next() reports every item     *)
(* that stays where it is, and no such item twice.                         *)
(***************************************************************************)
THEOREM IterationIsComplete == IteratorSpec => IterationComplete
<1>1. Inv /\ PagesListed /\ IterationInv /\ [IteratorNext]_allVars =>
        [iterator # NoIterator /\ EntryNext =>
           IF iterator' = NoIterator THEN steady \subseteq reported
           ELSE EntryInfo(iterator)' \notin reported]_allVars
  BY EntryNextIteration
<1> QED
  BY <1>1, UnderInv, IterationHolds, PTL DEF IteratorSpec, IterationComplete
=============================================================================
